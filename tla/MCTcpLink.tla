----------------------------- MODULE MCTcpLink -----------------------------
(* Small instances of TcpLink for TLC, with two connections. *)
EXTENDS TcpLink

TwoConns == {1, 2}
None == {}
=============================================================================
