----------------------------- MODULE MCTcpClient -----------------------------
(* Instance of TcpClient for TLC: the owner and a thread that also calls it. *)
EXTENDS TcpClient

CONSTANTS owner, other

MCClients == {owner, other}
MCTasks == CallTasks

ASSUME TcpClientAssumption
=============================================================================
