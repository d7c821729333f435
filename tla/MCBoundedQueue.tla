---------------------------- MODULE MCBoundedQueue ----------------------------
(* Instances of BoundedQueue for TLC.  Threads of the same kind, and the      *)
(* items, are interchangeable.                                                *)
EXTENDS BoundedQueue, TLC

CONSTANTS p1, p2, c1, c2, m1, a, b

TwoProducers == {p1, p2}
TwoConsumers == {c1, c2}
OneManager == {m1}
TwoItems == {a, b}
Batches == {0, 2}

Symmetry == Permutations(TwoProducers) \cup Permutations(TwoConsumers) \cup Permutations(TwoItems)
=============================================================================
