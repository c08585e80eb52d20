------------------------------ MODULE MCFFPlayer ------------------------------
(* Instance of FFPlayer for TLC: a short file with pictures between sounds, the *)
(* second of which waits until a sound was decoded.                             *)
EXTENDS FFPlayer

MCFile == <<"audio", "video", "video", "audio">>
MCPts == <<2, 1, 3, 4>>
MCNoPts == -1
=============================================================================
