-------------------------- MODULE MCDesktopCapture --------------------------
(* Instance of DesktopCapture for TLC: a screen and a window of two sizes;   *)
(* nobody else adds tasks to the scheduler.                                  *)
EXTENDS DesktopCapture

Screen == [width |-> 9, height |-> 3, window |-> FALSE]
Window == [width |-> 8, height |-> 1, window |-> TRUE]

MCOptions == {Screen, Window}
=============================================================================
