--------------------------- MODULE MCAudioPlayback ---------------------------
(* Instance of AudioPlayback for TLC: two callers of play.                   *)
EXTENDS AudioPlayback

CONSTANTS a, b

MCAdders == {a, b}
=============================================================================
