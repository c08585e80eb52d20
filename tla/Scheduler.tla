------------------------------ MODULE Scheduler ------------------------------
(***************************************************************************)
(* ryulib/Scheduler.hpp: a SimpleThread that drains a ThreadQueue of tasks *)
(* and then calls on_repeat_ while started, or sleeps.  In the thread's    *)
(* loop body (tpc = "body") stage says how far it is; on_repeat_ runs as   *)
(* the "work" of SimpleThread.                                             *)
(*                                                                         *)
(* The thread runs while the constructor has not stored its address in     *)
(* thread_ yet, and line 124 reads thread_: until constructed, reaching it *)
(* follows an uninitialised pointer, which ends the program (crashed).     *)
(***************************************************************************)
EXTENDS Naturals, Sequences

CONSTANTS
  Clients,  \* threads that call add
  Tasks,    \* what is added
  NoTask,   \* NULL
  MaxAdds,  \* bound: number of add calls
  MaxEnds   \* bound: number of terminate.. calls

ASSUME SchedulerAssumption ==
  /\ NoTask \notin Tasks
  /\ MaxAdds \in Nat
  /\ MaxEnds \in Nat

VARIABLES
  isTerminated, tpc, handle, cpc, cancelPending, onTerminated, fired, ends, nows, \* thread_
  queue,       \* queue_
  started,     \* started_
  onRepeat,    \* on_repeat_ is set
  onTask,      \* on_task_ is set
  constructed, \* thread_ holds the address of the thread
  crashed,     \* the thread followed thread_ before that
  stage,       \* how far the loop body is: "pop", "task", "drained", "repeat"
  task,        \* the task in hand
  adding,      \* the clients between the push and the wakeUp of add
  added,       \* history: the tasks added
  handled,     \* history: the tasks deleted
  late         \* history: how many on_repeat_ calls began since stop()

threadVars == <<isTerminated, tpc, handle, cpc, cancelPending, onTerminated, fired, ends, nows>>
loopVars == <<queue, stage, task, handled, late, crashed>>
callerVars == <<started, onRepeat, onTask, constructed, adding, added>>
vars == <<threadVars, loopVars, callerVars>>

Thread == INSTANCE SimpleThread WITH BodyCalls <- {"sleep", "work"}
Queue == INSTANCE ThreadQueue WITH Null <- NoTask

Init ==
  /\ Thread!Init
  /\ Queue!Init
  /\ started = FALSE /\ onRepeat = FALSE /\ onTask = FALSE
  /\ constructed = FALSE /\ crashed = FALSE
  /\ stage = "pop" /\ task = NoTask
  /\ adding = {} /\ added = <<>> /\ handled = <<>> /\ late = 0

-----------------------------------------------------------------------------
(* on_thread_execute *)

LoopTest ==
  /\ Thread!LoopTest
  /\ stage' = "pop"
  /\ UNCHANGED <<queue, task, handled, late, crashed, callerVars>>

PopTask ==
  /\ tpc = "body"
  /\ stage = "pop"
  /\ \E result \in Tasks \cup {NoTask} :
       /\ Queue!Pop(result)
       /\ task' = result
       /\ stage' = IF result = NoTask THEN "drained" ELSE "task"
  /\ UNCHANGED <<handled, late, crashed, threadVars, callerVars>>

(* on_task_, if set; delete; on to the next pop *)
RunTask ==
  /\ tpc = "body"
  /\ stage = "task"
  /\ handled' = Append(handled, <<task, onTask>>)
  /\ stage' = "pop"
  /\ task' = NoTask
  /\ UNCHANGED <<queue, late, crashed, threadVars, callerVars>>

DecideRepeat_NoTestMutant ==
  /\ tpc = "body"
  /\ stage = "drained"
  /\ onRepeat
  /\ stage' = "repeat"
  /\ UNCHANGED <<queue, task, handled, late, crashed, threadVars, callerVars>>

(* started_ and on_repeat_ are read; the call is a step of its own *)
DecideRepeat ==
  /\ tpc = "body"
  /\ stage = "drained"
  /\ started /\ onRepeat
  /\ stage' = "repeat"
  /\ UNCHANGED <<queue, task, handled, late, crashed, threadVars, callerVars>>

BeginRepeat ==
  /\ stage = "repeat"
  /\ Thread!BeginWork
  /\ late' = IF started THEN 0 ELSE late + 1
  /\ UNCHANGED <<queue, stage, task, handled, crashed, callerVars>>

(* on_repeat_ returns, or ends with a sleep() of this scheduler *)
EndRepeat ==
  /\ tpc = "work"
  /\ Thread!EndWork \/ Thread!Sleep
  /\ UNCHANGED <<loopVars, callerVars>>

(* thread_->sleep(1) *)
CallSleep ==
  /\ tpc = "body"
  /\ stage = "drained"
  /\ ~(started /\ onRepeat)
  /\ IF constructed
     THEN Thread!Sleep /\ UNCHANGED crashed
     ELSE crashed' = TRUE /\ UNCHANGED threadVars
  /\ UNCHANGED <<queue, stage, task, handled, late, callerVars>>

FinishSleep ==
  /\ Thread!FallAsleep \/ Thread!TimeOut
  /\ UNCHANGED <<loopVars, callerVars>>

Finish ==
  /\ Thread!Finish
  /\ UNCHANGED <<loopVars, callerVars>>

(* steps of the thread nobody can count on *)
Disturbed ==
  /\ Thread!SpuriousWakeup \/ Thread!Cancelled
  /\ UNCHANGED <<loopVars, callerVars>>

-----------------------------------------------------------------------------
(* The callers.  Everything but the constructor's last store needs the object *)

Construct ==
  /\ ~constructed
  /\ constructed' = TRUE
  /\ UNCHANGED <<threadVars, loopVars, started, onRepeat, onTask, adding, added>>

(* add: push, then wakeUp *)
AddPush(client, t) ==
  /\ constructed
  /\ client \notin adding
  /\ Len(added) < MaxAdds
  /\ Queue!Push(t)
  /\ added' = Append(added, t)
  /\ adding' = adding \cup {client}
  /\ UNCHANGED <<threadVars, stage, task, handled, late, crashed,
                 started, onRepeat, onTask, constructed>>

AddWake(client) ==
  /\ client \in adding
  /\ tpc' = Thread!Woken
  /\ adding' = adding \ {client}
  /\ UNCHANGED <<isTerminated, handle, cpc, cancelPending, onTerminated, fired, ends, nows,
                 loopVars, started, onRepeat, onTask, constructed, added>>

SetOnTask ==
  /\ constructed /\ cpc = "idle"
  /\ onTask' = TRUE
  /\ UNCHANGED <<threadVars, loopVars, started, onRepeat, constructed, adding, added>>

SetOnRepeat ==
  /\ constructed /\ cpc = "idle"
  /\ onRepeat' = TRUE
  /\ UNCHANGED <<threadVars, loopVars, started, onTask, constructed, adding, added>>

Start ==
  /\ constructed /\ cpc = "idle"
  /\ started' = TRUE
  /\ late' = 0
  /\ UNCHANGED <<threadVars, queue, stage, task, handled, crashed,
                 onRepeat, onTask, constructed, adding, added>>

Stop ==
  /\ constructed /\ cpc = "idle"
  /\ started' = FALSE
  /\ UNCHANGED <<threadVars, loopVars, onRepeat, onTask, constructed, adding, added>>

(* stop(), then thread_->terminateAndWait() as far as its flag *)
TerminateAndWait ==
  /\ constructed
  /\ Thread!TerminateAndWait
  /\ started' = FALSE
  /\ UNCHANGED <<loopVars, onRepeat, onTask, constructed, adding, added>>

Control ==
  /\ constructed
  /\ \/ Thread!SetOnTerminated \/ Thread!Terminate \/ Thread!WakeToJoin \/ Thread!Join
     \/ Thread!TerminateNow \/ Thread!FireNow
  /\ UNCHANGED <<loopVars, callerVars>>

-----------------------------------------------------------------------------
Running == ~crashed /\ Thread!Running

ThreadStep ==
  /\ Running
  /\ \/ LoopTest \/ PopTask \/ RunTask \/ DecideRepeat \/ BeginRepeat \/ EndRepeat
     \/ CallSleep \/ FinishSleep \/ Finish

CallerStep ==
  \/ Construct
  \/ \E client \in Clients : (\E t \in Tasks : AddPush(client, t)) \/ AddWake(client)
  \/ SetOnTask \/ SetOnRepeat \/ Start \/ Stop
  \/ TerminateAndWait \/ Control

Next ==
  \/ ThreadStep
  \/ Running /\ Disturbed
  \/ Running /\ CallerStep

SafeSpec == Init /\ [][Next]_vars

(* The thread runs while it can and its callbacks return; the constructor and *)
(* a terminate.. call that can go on do.                                     *)
Fairness ==
  /\ WF_vars(ThreadStep)
  /\ WF_vars(Running /\ Construct)
  /\ WF_vars(Running /\ Control /\ cpc # "idle")

Spec == SafeSpec /\ Fairness

-----------------------------------------------------------------------------
(* Properties *)

(* Every variable keeps its type. *)
TypeOK ==
  /\ Thread!TypeOK
  /\ queue \in Seq(Tasks) /\ added \in Seq(Tasks)
  /\ handled \in Seq(Tasks \X BOOLEAN)
  /\ stage \in {"pop", "task", "drained", "repeat"}
  /\ task \in Tasks \cup {NoTask}
  /\ adding \subseteq Clients
  /\ {started, onRepeat, onTask, constructed, crashed} \subseteq BOOLEAN
  /\ late \in Nat

InHand == IF task = NoTask THEN <<>> ELSE <<task>>
Deleted == [i \in 1 .. Len(handled) |-> handled[i][1]]

(* No task is lost, run twice or overtaken: the tasks deleted, the one in     *)
(* hand and those queued are the tasks added, in the order of the calls,     *)
(* even across a terminate.. call (a cancelled thread keeps its task in hand)*)
TasksInOrder == Deleted \o InHand \o queue = added

Mail == INSTANCE Mailbox WITH
          Nothing <- NoTask, waiting <- queue, hand <- task, done <- Deleted,
          killed <- cancelPending, closed <- (handle = "joined")

(* To its clients a scheduler is a mailbox: it takes one task at a time, and  *)
(* none once terminateAndWait() has returned, although the thread drains the *)
(* queue before it looks at is_terminated_ (Scheduler.hpp:48-52, 109-119).   *)
MailboxSafe == Mail!SafeSpec

(* stop() does not wait for the thread, but at most one call of on_repeat_,   *)
(* the one the thread had already decided on, begins after it.               *)
StopAllowsOneMore == late <= 1

(* Every added task is taken and deleted, started or not, unless somebody     *)
(* ends the scheduler.                                                       *)
EveryTaskHandled ==
  \A n \in 1 .. MaxAdds :
    (Len(added) >= n) ~> (Len(handled) >= n \/ isTerminated \/ crashed)

(* terminateAndWait() gets past its join: the thread only ever sleeps for a   *)
(* limited time.                                                             *)
TerminateAndWaitReturns == (cpc = "joining") ~> (cpc # "joining" \/ crashed)
=============================================================================
