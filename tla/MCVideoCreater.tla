--------------------------- MODULE MCVideoCreater ---------------------------
(* Instance of VideoCreater for TLC: frames of 2 bytes, packets of 0, 1 and 5, *)
(* a bitmap as long as three units and a frame as long as two.               *)
EXTENDS VideoCreater
=============================================================================
