---------------------------- MODULE ThreadQueue ----------------------------
(***************************************************************************)
(* ryulib/ThreadQueue.hpp: a queue whose every operation is one critical   *)
(* section.  pop, front and back of an empty queue return NULL (or false)  *)
(* instead of blocking.                                                    *)
(***************************************************************************)
EXTENDS Sequences

CONSTANT Null

VARIABLE queue  \* queue_

Init == queue = <<>>

Push(item) == queue' = Append(queue, item)

Front == IF queue = <<>> THEN Null ELSE Head(queue)

Pop_PeekMutant(result) ==
  /\ result = Front
  /\ UNCHANGED queue

(* Pop(result) is the call of pop that returns result *)
Pop(result) ==
  /\ result = Front
  /\ queue' = IF queue = <<>> THEN queue ELSE Tail(queue)
=============================================================================
