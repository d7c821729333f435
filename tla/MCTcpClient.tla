------------------------------ MODULE MCTcpClient ------------------------------
(* Instances of TcpClient for TLC. *)
EXTENDS TcpClient

CONSTANTS s1, s2

TwoSenders == {s1, s2}
=============================================================================
