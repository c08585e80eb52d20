--------------------------- MODULE MCSocketServer ---------------------------
(* Instance of SocketServer for TLC: two connections. *)
EXTENDS SocketServer

CONSTANTS c1, c2

MCConns == {c1, c2}
=============================================================================
