---------------------------- MODULE MCTransceiver ----------------------------
(* Instances of Transceiver for TLC. *)
EXTENDS Transceiver, TLC

CONSTANTS w1, w2

OneWorker == {w1}
TwoWorkers == {w1, w2}
AllOutcomes == {"Handled", "Error", "NotFound"}
Fast == {FALSE}
FastOrSlow == BOOLEAN
Config(policy, threshold, timed) ==
    [drop_policy |-> policy, num |-> threshold, den |-> 2, timed |-> timed]
LeanConfigs == {Config("Block", 1, TRUE), Config("DropOldest", 0, FALSE), Config("DropNewest", 0, FALSE)}
BlockConfigs == {Config("Block", 1, FALSE)}
Symmetry == Permutations(TwoWorkers)
=============================================================================
