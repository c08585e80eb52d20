---------------------------- MODULE MCPipeSender ----------------------------
(* Instance of PipeSender for TLC: two callers and two names.                 *)
EXTENDS PipeSender

CONSTANTS a, b, audio, video

MCTasks == PipeTasks
=============================================================================
