--------------------------- MODULE MCAudioCapture ---------------------------
(* Instance of AudioCapture for TLC: packets of 1 or 3 bytes, frames of 2 for  *)
(* the resampler, which makes 1 or 3 of them, and results of 2, so that one    *)
(* packet or conversion in two brings more than a read takes.                *)
EXTENDS AudioCapture
=============================================================================
