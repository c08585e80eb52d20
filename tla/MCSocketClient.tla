--------------------------- MODULE MCSocketClient ---------------------------
(* Instance of SocketClient for TLC.  packet_size has 3 values and the header   *)
(* 1 byte, so that data of 1 byte fit, with a cut between header and body, and  *)
(* with 2 bytes packet_size is 0, less than a header.                          *)
EXTENDS SocketClient
=============================================================================
