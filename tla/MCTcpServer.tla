------------------------------ MODULE MCTcpServer ------------------------------
(* Instances of TcpServer for TLC. *)
EXTENDS TcpServer

CONSTANTS s1, s2

OneSender == {s1}
TwoSenders == {s1, s2}
AllMoves == {"send", "shut", "close"}
HalfClose == {"shut"}
=============================================================================
