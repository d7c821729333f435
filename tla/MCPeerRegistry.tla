---------------------------- MODULE MCPeerRegistry ----------------------------
(* Instances of PeerRegistry for TLC. *)
EXTENDS PeerRegistry, TLC

CONSTANTS s1, m1, m2

OneSingle == {s1}
TwoMultis == {m1, m2}
PlainNames == {<<"a">>, <<"b">>}
Up == {"Connected"}
MultiSymmetry == Permutations({m1, m2})
=============================================================================
