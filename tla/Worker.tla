------------------------------- MODULE Worker -------------------------------
(***************************************************************************)
(* ryulib/Worker.hpp: a SimpleThread that runs the tasks other threads add *)
(* to a SuspensionQueue.  The thread's loop body, "work" of SimpleThread,  *)
(* is a blocking pop, the call of on_task_ and the release of the task.    *)
(* Both components are used as they are; no code calls terminate() of the  *)
(* queue, so its two steps do not occur.                                   *)
(***************************************************************************)
EXTENDS Naturals, SequencesExt

CONSTANTS
  Clients,       \* threads that call add
  WorkerThread,  \* the thread of thread_
  Tasks,         \* what is added
  NoTask,        \* NULL
  MaxAdds,       \* bound: number of add calls
  MaxEnds        \* bound: number of terminate.. calls

(* what the proofs assume; the components' own assumptions follow from it *)
WorkerAssumption ==
  /\ WorkerThread \notin Clients
  /\ NoTask \notin Tasks
  /\ MaxAdds \in Nat /\ MaxEnds \in Nat

VARIABLES
  isTerminated, tpc, handle, cpc, cancelPending, onTerminated, fired, ends, nows, \* thread_
  queue, queueTerminated, pc, terminating, got, pushed, popped,             \* queue_
  onTask,   \* on_task_ is set
  handled,  \* history: the tasks taken from queue_ and deleted
  executed  \* history: the tasks on_task_ was called with

threadVars == <<isTerminated, tpc, handle, cpc, cancelPending, onTerminated, fired, ends, nows>>
queueVars == <<queue, queueTerminated, pc, terminating, got, pushed, popped>>
vars == <<threadVars, queueVars, onTask, handled, executed>>

Thread == INSTANCE SimpleThread WITH BodyCalls <- {"work"}

Queue == INSTANCE SuspensionQueue WITH
           Producers <- Clients, Consumers <- {WorkerThread}, Items <- Tasks,
           NoItem <- NoTask, MaxPushes <- MaxAdds, isTerminated <- queueTerminated

Init ==
  /\ Thread!Init
  /\ Queue!Init
  /\ onTask = FALSE
  /\ handled = <<>>
  /\ executed = <<>>

-----------------------------------------------------------------------------
(* add, from any thread *)

Add(client, task) ==
  /\ Queue!Push(client, task)
  /\ UNCHANGED <<threadVars, onTask, handled, executed>>

AddNotify(client) ==
  /\ Queue!PushNotify(client)
  /\ UNCHANGED <<threadVars, onTask, handled, executed>>

SetOnTask ==
  /\ cpc = "idle"
  /\ onTask' = TRUE
  /\ UNCHANGED <<threadVars, queueVars, handled, executed>>

-----------------------------------------------------------------------------
(* on_thread_execute *)

LoopTest ==
  /\ Thread!Running
  /\ Thread!LoopTest
  /\ UNCHANGED <<queueVars, onTask, handled, executed>>

BeginPop ==
  /\ Thread!Running
  /\ Thread!BeginWork
  /\ Queue!PopCall(WorkerThread)
  /\ UNCHANGED <<onTask, handled, executed>>

InPop ==
  /\ Thread!Running
  /\ tpc = "work"
  /\ \/ Queue!PopBegin(WorkerThread) \/ Queue!PopWait(WorkerThread)
     \/ Queue!PopResume(WorkerThread)
  /\ UNCHANGED <<threadVars, onTask, handled, executed>>

WokenInPop ==
  /\ Thread!Running
  /\ tpc = "work"
  /\ Queue!SpuriousWakeup(WorkerThread)
  /\ UNCHANGED <<threadVars, onTask, handled, executed>>

(* a task that arrives before setOnTask is deleted without being run *)
RunTask ==
  /\ Thread!Running
  /\ pc[WorkerThread] = "idle"
  /\ Thread!EndWork
  /\ executed' = IF onTask THEN Append(executed, got[WorkerThread]) ELSE executed
  /\ handled' = Append(handled, got[WorkerThread])
  /\ UNCHANGED <<queueVars, onTask>>

Finish ==
  /\ Thread!Running
  /\ Thread!Finish
  /\ UNCHANGED <<queueVars, onTask, handled, executed>>

(* A thread cancelled inside pop leaves by unwinding, which unlocks mutex_    *)
(* (pthread_cancel), or at once, with whatever it had locked (TerminateThread)*)
Cancelled ==
  /\ Thread!Running
  /\ Thread!Cancelled
  /\ \/ UNCHANGED pc
     \/ pc' = [pc EXCEPT ![WorkerThread] = "idle"]
  /\ UNCHANGED <<queue, queueTerminated, terminating, got, pushed, popped,
                 onTask, handled, executed>>

(* terminate, terminateNow, terminateAndWait, setOnTerminated: passed on to   *)
(* thread_.  Nobody deletes thread_, and nobody wakes the queue.              *)
Control ==
  /\ \/ Thread!SetOnTerminated \/ Thread!Terminate \/ Thread!TerminateAndWait
     \/ Thread!WakeToJoin \/ Thread!Join \/ Thread!TerminateNow \/ Thread!FireNow
  /\ UNCHANGED <<queueVars, onTask, handled, executed>>

-----------------------------------------------------------------------------
ThreadStep == LoopTest \/ BeginPop \/ InPop \/ RunTask \/ Finish

Next ==
  \/ \E client \in Clients : (\E task \in Tasks : Add(client, task)) \/ AddNotify(client)
  \/ SetOnTask
  \/ ThreadStep
  \/ WokenInPop
  \/ Cancelled
  \/ Control

SafeSpec == Init /\ [][Next]_vars

-----------------------------------------------------------------------------
(* Properties *)

(* Every variable keeps its type. *)
TypeOK ==
  /\ Thread!TypeOK
  /\ Queue!TypeOK
  /\ onTask \in BOOLEAN
  /\ handled \in Seq(Tasks)
  /\ executed \in Seq(Tasks)

(* Tasks are handled in the order of the add calls, each at most once; the    *)
(* only one taken but not handled is the one in hand, which is never NULL,    *)
(* although pop can return NULL (Worker.hpp:96 follows it unseen); and only   *)
(* tasks handled before setOnTask are not executed.                          *)
TasksHandledInOrder ==
  /\ IsPrefix(handled, pushed)
  /\ Len(popped) - Len(handled) \in {0, 1}
  /\ tpc = "test" => Len(popped) = Len(handled)
  /\ (tpc = "work" /\ pc[WorkerThread] = "idle") => got[WorkerThread] # NoTask
  /\ Len(executed) <= Len(handled)
  /\ executed = SubSeq(handled, Len(handled) - Len(executed) + 1, Len(handled))
  /\ ~onTask => executed = <<>>

Hand == IF popped = handled THEN NoTask ELSE got[WorkerThread]

Mail == INSTANCE Mailbox WITH
          Nothing <- NoTask, waiting <- queue, hand <- Hand, done <- handled,
          killed <- cancelPending, closed <- (handle = "joined")

(* To its clients a worker is a mailbox: it takes one task at a time, and     *)
(* none once terminateAndWait() has returned, although queue and thread are  *)
(* two objects and clients go on calling add() (Worker.hpp:45-57, 92-101).   *)
MailboxSafe == Mail!SafeSpec
=============================================================================
