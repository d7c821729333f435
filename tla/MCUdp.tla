--------------------------------- MODULE MCUdp ---------------------------------
(* Instances of Udp for TLC. *)
EXTENDS Udp

CONSTANTS a1, a2, a3, s1

ThreeAddrs == {a1, a2, a3}
OneSender == {s1}
=============================================================================
