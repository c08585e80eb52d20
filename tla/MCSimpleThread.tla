--------------------------- MODULE MCSimpleThread ---------------------------
(* Instance of SimpleThread for TLC; the cfg files choose what the body calls *)
EXTENDS SimpleThread
=============================================================================
