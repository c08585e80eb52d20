------------------------------- MODULE Mailbox -------------------------------
(***************************************************************************)
(* What Worker and Scheduler promise the threads that add tasks to them:   *)
(* one task at a time is taken, in the order of the calls, and handled     *)
(* once; none is taken or handled after the owner's terminateAndWait() has *)
(* returned, which cuts no task off in the middle.  Only terminateNow()    *)
(* may do that.                                                            *)
(***************************************************************************)
EXTENDS Sequences

CONSTANTS Tasks, Nothing

VARIABLES waiting,  \* the tasks added and not yet taken, oldest first
          hand,     \* the task that is being handled
          done,     \* the tasks that were handled
          killed,   \* terminateNow() was called
          closed    \* terminateAndWait() has returned

vars == <<waiting, hand, done, killed, closed>>

Init ==
  /\ waiting = <<>>
  /\ hand = Nothing
  /\ done = <<>>
  /\ killed = FALSE
  /\ closed = FALSE

Put(task) ==
  /\ waiting' = Append(waiting, task)
  /\ UNCHANGED <<hand, done, killed, closed>>

Take ==
  /\ ~closed
  /\ hand = Nothing /\ waiting # <<>>
  /\ hand' = Head(waiting)
  /\ waiting' = Tail(waiting)
  /\ UNCHANGED <<done, killed, closed>>

Handle ==
  /\ ~closed
  /\ hand # Nothing
  /\ done' = Append(done, hand)
  /\ hand' = Nothing
  /\ UNCHANGED <<waiting, killed, closed>>

Kill ==
  /\ killed' = TRUE
  /\ UNCHANGED <<waiting, hand, done, closed>>

Close ==
  /\ hand = Nothing \/ killed
  /\ closed' = TRUE
  /\ UNCHANGED <<waiting, hand, done, killed>>

Next == (\E task \in Tasks : Put(task)) \/ Take \/ Handle \/ Kill \/ Close

SafeSpec == Init /\ [][Next]_vars
=============================================================================
