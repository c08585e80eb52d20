--------------------------- MODULE SchedulerProofs ---------------------------
(***************************************************************************)
(* First the Scheduler by itself, for any clients, tasks and number of     *)
(* calls.  TasksInOrder needs to know where a task can be in hand: only    *)
(* while the loop body is at on_task_, or was cancelled there.             *)
(* StopAllowsOneMore needs that started_ can only have been cleared since  *)
(* the last on_repeat_ began, or since the thread last decided on one.     *)
(* What SimpleThread guarantees carries over: each step of a scheduler is  *)
(* a step of its thread, no step of it, or one more wake-up.               *)
(*                                                                         *)
(* Then the DesktopCapture, whose every step is one of its scheduler or    *)
(* invisible to it, so that all of it carries over; and its bitmap, for    *)
(* which one must know that a capture is only ever decided on after a      *)
(* start() that went to its end.                                           *)
(*                                                                         *)
(* Last the TcpClient, whose thread sleeps in on_repeat_ and can die in    *)
(* on_task_, which a scheduler by itself does not, so that the invariant   *)
(* is carried through these steps again.  What becomes of its socket needs *)
(* TasksInOrder: the task in hand is the call whose number is one more     *)
(* than that of the calls carried out, and socket_ is the connection that  *)
(* the calls before it ask for.                                            *)
(***************************************************************************)
EXTENDS DesktopCapture, TcpClient, SequenceTheorems, TLAPS

(* the part of TypeOK that Scheduler adds to its thread *)
LoopTypeOK ==
  /\ queue \in Seq(Tasks) /\ added \in Seq(Tasks)
  /\ handled \in Seq(Tasks \X BOOLEAN)
  /\ stage \in {"pop", "task", "drained", "repeat"}
  /\ task \in Tasks \cup {NoTask}
  /\ adding \subseteq Clients
  /\ started \in BOOLEAN /\ onRepeat \in BOOLEAN /\ onTask \in BOOLEAN
  /\ constructed \in BOOLEAN /\ crashed \in BOOLEAN
  /\ late \in Nat

TaskOnlyInBody ==
  /\ task # NoTask <=> stage = "task"
  /\ stage = "task" => tpc \in {"body", "cancelled"}

RepeatWasAllowed ==
  /\ started => late = 0
  /\ tpc = "body" /\ stage = "repeat" => late = 0

IInv == LoopTypeOK /\ TaskOnlyInBody /\ RepeatWasAllowed /\ TasksInOrder /\ StopAllowsOneMore

-----------------------------------------------------------------------------
(* Appending to a sequence of pairs appends to the sequence of their firsts. *)
LEMMA FirstsOfAppend ==
  ASSUME NEW A, NEW B, NEW s \in Seq(A \X B), NEW a \in A, NEW b \in B
  PROVE  /\ [i \in 1 .. Len(s) |-> s[i][1]] \in Seq(A)
         /\ [i \in 1 .. Len(Append(s, <<a, b>>)) |-> Append(s, <<a, b>>)[i][1]]
              = Append([i \in 1 .. Len(s) |-> s[i][1]], a)
<1>. DEFINE f == [i \in 1 .. Len(s) |-> s[i][1]]
            t == Append(s, <<a, b>>)
            g == [i \in 1 .. Len(t) |-> t[i][1]]
<1>1. Len(s) \in Nat /\ \A i \in 1 .. Len(s) : s[i] \in A \X B
  BY LenProperties, ElementOfSeq
<1>2. \A i \in 1 .. Len(s) : s[i][1] \in A
  BY <1>1
<1>3. f \in Seq(A) /\ Len(f) = Len(s)
  BY <1>1, <1>2, IsASeq
<1>4. /\ t \in Seq(A \X B) /\ Len(t) = Len(s) + 1
      /\ \A i \in 1 .. Len(s) : t[i] = s[i]
      /\ t[Len(s) + 1] = <<a, b>>
  BY AppendProperties
<1>5. \A i \in 1 .. Len(t) : t[i][1] \in A
  BY <1>1, <1>2, <1>4
<1>6. g \in Seq(A) /\ Len(g) = Len(t)
  BY <1>1, <1>4, <1>5, IsASeq
<1>7. /\ Append(f, a) \in Seq(A) /\ Len(Append(f, a)) = Len(s) + 1
      /\ \A i \in 1 .. Len(s) : Append(f, a)[i] = f[i]
      /\ Append(f, a)[Len(s) + 1] = a
  BY <1>3, AppendProperties
<1>8. \A i \in 1 .. Len(g) : g[i] = Append(f, a)[i]
  <2>. TAKE i \in 1 .. Len(g)
  <2>1. i \in 1 .. Len(s) \/ i = Len(s) + 1
    BY <1>1, <1>4, <1>6
  <2>2. g[i] = t[i][1]
    BY <1>6
  <2>. QED
    BY <2>1, <2>2, <1>4, <1>7
<1>9. g = Append(f, a)
  BY <1>4, <1>6, <1>7, <1>8, SeqEqual
<1>. QED
  BY <1>3, <1>9

(* Where the second of three sequences is found in all of them. *)
LEMMA MiddleOfThree ==
  ASSUME NEW S, NEW r \in Seq(S), NEW s \in Seq(S), NEW t \in Seq(S)
  PROVE  /\ Len(r \o s \o t) = Len(r) + Len(s) + Len(t)
         /\ \A i \in 1 .. Len(s) : (r \o s \o t)[Len(r) + i] = s[i]
<1>1. Len(r) \in Nat /\ Len(s) \in Nat /\ Len(t) \in Nat
  BY LenProperties
<1>2. /\ r \o s \in Seq(S)
      /\ Len(r \o s) = Len(r) + Len(s)
      /\ \A i \in 1 .. Len(r) + Len(s) : (r \o s)[i] = IF i <= Len(r) THEN r[i] ELSE s[i - Len(r)]
  BY ConcatProperties
<1>3. /\ Len((r \o s) \o t) = Len(r \o s) + Len(t)
      /\ \A i \in 1 .. Len(r \o s) + Len(t) :
           ((r \o s) \o t)[i] = IF i <= Len(r \o s) THEN (r \o s)[i] ELSE t[i - Len(r \o s)]
  BY <1>2, ConcatProperties
<1>4. ASSUME NEW i \in 1 .. Len(s) PROVE ((r \o s) \o t)[Len(r) + i] = s[i]
  BY <1>1, <1>2, <1>3
<1>. QED
  BY <1>1, <1>2, <1>3, <1>4

(* Appending to the last of three sequences appends to all of them. *)
LEMMA AppendToLast ==
  ASSUME NEW S, NEW r \in Seq(S), NEW s \in Seq(S), NEW t \in Seq(S), NEW e \in S
  PROVE  r \o s \o Append(t, e) = Append(r \o s \o t, e)
<1>1. r \o s \in Seq(S) /\ <<e>> \in Seq(S)
  BY ConcatProperties
<1>2. (r \o s) \o t \in Seq(S)
  BY <1>1, ConcatProperties
<1>3. Append(t, e) = t \o <<e>> /\ Append((r \o s) \o t, e) = ((r \o s) \o t) \o <<e>>
  BY <1>2, AppendIsConcat
<1>4. \A x, y, z \in Seq(S) : (x \o y) \o z = x \o (y \o z)
  BY ConcatAssociative, SMTT(30)
<1>5. ((r \o s) \o t) \o <<e>> = (r \o s) \o (t \o <<e>>)
  BY <1>1, <1>4, ZenonT(30)
<1>. QED
  BY <1>3, <1>5

(* The tasks deleted are a sequence of tasks. *)
LEMMA DeletedIsSeq ==
  ASSUME handled \in Seq(Tasks \X BOOLEAN)
  PROVE  Deleted \in Seq(Tasks) /\ Len(Deleted) = Len(handled)
<1>1. Len(handled) \in Nat /\ \A i \in 1 .. Len(handled) : handled[i] \in Tasks \X BOOLEAN
  BY LenProperties, ElementOfSeq
<1>2. \A i \in 1 .. Len(handled) : handled[i][1] \in Tasks
  BY <1>1
<1>. QED
  BY <1>1, <1>2, IsASeq DEF Deleted

(* The constructor establishes the invariant. *)
LEMMA InitInv == Init => IInv
<1>. SUFFICES ASSUME Init PROVE IInv
  OBVIOUS
<1>1. queue = <<>> /\ added = <<>> /\ handled = <<>> /\ task = NoTask /\ stage = "pop"
      /\ late = 0 /\ tpc = "test" /\ adding = {}
  BY DEF Init, Queue!Init, Thread!Init
<1>2. LoopTypeOK
  <2>1. started \in BOOLEAN /\ onRepeat \in BOOLEAN /\ onTask \in BOOLEAN
        /\ constructed \in BOOLEAN /\ crashed \in BOOLEAN
    BY Zenon DEF Init
  <2>2. <<>> \in Seq(Tasks) /\ <<>> \in Seq(Tasks \X BOOLEAN)
    BY EmptySeq
  <2>. QED
    BY <1>1, <2>1, <2>2 DEF LoopTypeOK
<1>3. TaskOnlyInBody /\ RepeatWasAllowed /\ StopAllowsOneMore
  BY <1>1 DEF TaskOnlyInBody, RepeatWasAllowed, StopAllowsOneMore
<1>4. TasksInOrder
  <2>1. Deleted \in Seq(Tasks) /\ Len(Deleted) = 0
    BY <1>1, DeletedIsSeq, EmptySeq
  <2>2. Deleted = <<>>
    BY <2>1, EmptySeq
  <2>3. <<>> \o <<>> \o <<>> = <<>>
    BY EmptySeq, ConcatEmptySeq
  <2>. QED
    BY <1>1, <2>2, <2>3 DEF TasksInOrder, InHand, Deleted
<1>. QED
  BY <1>2, <1>3, <1>4 DEF IInv

(* The three steps that TasksInOrder is about: that of push ... *)
LEMMA OrderPushed ==
  ASSUME LoopTypeOK, TasksInOrder, NEW t \in Tasks,
         queue' = Append(queue, t), added' = Append(added, t), UNCHANGED <<handled, task>>
  PROVE  TasksInOrder'
<1>1. Deleted \in Seq(Tasks) /\ InHand \in Seq(Tasks) /\ queue \in Seq(Tasks)
  BY DeletedIsSeq DEF LoopTypeOK, InHand
<1>2. Deleted \o InHand \o Append(queue, t) = Append(Deleted \o InHand \o queue, t)
  BY <1>1, AppendToLast
<1>3. Deleted' = Deleted /\ InHand' = InHand
  BY DEF Deleted, InHand
<1>. QED
  BY <1>2, <1>3 DEF TasksInOrder, Deleted

(* ... of pop ... *)
LEMMA OrderPopped ==
  ASSUME LoopTypeOK, TasksInOrder, NoTask \notin Tasks, task = NoTask,
         IF queue = <<>> THEN task' = NoTask /\ queue' = queue
                         ELSE task' = Head(queue) /\ queue' = Tail(queue),
         UNCHANGED <<added, handled>>
  PROVE  TasksInOrder'
<1>1. Deleted \in Seq(Tasks) /\ queue \in Seq(Tasks)
  BY DeletedIsSeq DEF LoopTypeOK
<1>2. Deleted \o queue = added
  BY <1>1, ConcatEmptySeq DEF TasksInOrder, InHand, Deleted
<1>3. Deleted' = Deleted
  BY DEF Deleted
<1>4. CASE queue = <<>>
  BY <1>3, <1>4 DEF TasksInOrder, InHand, Deleted
<1>5. CASE queue # <<>>
  <2>1. Head(queue) \in Tasks /\ Tail(queue) \in Seq(Tasks) /\ InHand' = <<Head(queue)>>
    BY <1>1, <1>5, HeadTailProperties DEF InHand
  <2>2. queue = <<Head(queue)>> \o Tail(queue)
    BY <1>1, <1>5, <2>1
  <2>3. (Deleted \o <<Head(queue)>>) \o Tail(queue) = Deleted \o queue
    BY <1>1, <2>1, <2>2, ConcatAssociative
  <2>. QED
    BY <1>2, <1>3, <1>5, <2>1, <2>3 DEF TasksInOrder, Deleted
<1>. QED
  BY <1>4, <1>5

(* ... and of the delete after on_task_. *)
LEMMA OrderDeleted ==
  ASSUME LoopTypeOK, TasksInOrder, task \in Tasks, NoTask \notin Tasks,
         handled' = Append(handled, <<task, onTask>>), task' = NoTask, UNCHANGED <<queue, added>>
  PROVE  TasksInOrder'
<1>1. Deleted \in Seq(Tasks) /\ Deleted' = Append(Deleted, task)
  BY FirstsOfAppend DEF LoopTypeOK, Deleted
<1>2. InHand = <<task>> /\ InHand' = <<>> /\ queue \in Seq(Tasks)
  BY DEF InHand, LoopTypeOK
<1>3. Deleted' \in Seq(Tasks) /\ Deleted' = Deleted \o <<task>>
  BY <1>1, AppendProperties, AppendIsConcat
<1>4. Deleted' \o <<>> = Deleted'
  BY <1>3, ConcatEmptySeq
<1>. QED
  BY <1>2, <1>3, <1>4 DEF TasksInOrder, Deleted

-----------------------------------------------------------------------------
(* Every step keeps the invariant. *)
LEMMA StepInv == IInv /\ [Next]_vars => IInv'
<1>. SUFFICES ASSUME IInv, [Next]_vars PROVE IInv'
  OBVIOUS
<1>. USE SchedulerAssumption
<1>0. LoopTypeOK /\ TaskOnlyInBody /\ RepeatWasAllowed /\ TasksInOrder /\ StopAllowsOneMore
  BY DEF IInv
<1>1. ASSUME UNCHANGED <<queue, added, handled, task>>
      PROVE  TasksInOrder'
  BY <1>0, <1>1 DEF TasksInOrder, InHand, Deleted
<1>. USE DEF LoopTypeOK, TaskOnlyInBody, RepeatWasAllowed, StopAllowsOneMore
<1>2. CASE LoopTest
  BY <1>0, <1>1, <1>2 DEF IInv, LoopTest, Thread!LoopTest, Thread!ThreadGoes, callerVars
<1>3. CASE PopTask
  <2>1. PICK result \in Tasks \cup {NoTask} :
          /\ Queue!Pop(result)
          /\ task' = result
          /\ stage' = IF result = NoTask THEN "drained" ELSE "task"
    BY <1>3 DEF PopTask
  <2>2. tpc = "body" /\ stage = "pop" /\ UNCHANGED <<handled, late, crashed, threadVars, callerVars>>
    BY <1>3 DEF PopTask
  <2>3. queue' \in Seq(Tasks)
    BY <1>0, <2>1, HeadTailProperties DEF Queue!Pop
  <2>4. TasksInOrder'
    BY <1>0, <2>1, <2>2, OrderPopped, HeadTailProperties DEF Queue!Pop, Queue!Front, callerVars
  <2>. QED
    BY <1>0, <2>1, <2>2, <2>3, <2>4 DEF IInv, threadVars, callerVars
<1>4. CASE RunTask
  <2>1. task \in Tasks
    BY <1>0, <1>4 DEF RunTask
  <2>2. TasksInOrder'
    BY <1>0, <1>4, <2>1, OrderDeleted DEF RunTask, callerVars
  <2>3. handled' \in Seq(Tasks \X BOOLEAN)
    BY <1>0, <1>4, <2>1, AppendProperties DEF RunTask
  <2>. QED
    BY <1>0, <1>4, <2>2, <2>3 DEF IInv, RunTask, threadVars, callerVars
<1>5. CASE DecideRepeat
  BY <1>0, <1>1, <1>5 DEF IInv, DecideRepeat, threadVars, callerVars
<1>6. CASE BeginRepeat
  BY <1>0, <1>1, <1>6 DEF IInv, BeginRepeat, Thread!BeginWork, Thread!ThreadGoes, callerVars
<1>7. CASE EndRepeat
  BY <1>0, <1>1, <1>7 DEF IInv, EndRepeat, Thread!EndWork, Thread!Sleep, Thread!ThreadGoes, loopVars, callerVars
<1>8. CASE CallSleep
  BY <1>0, <1>1, <1>8 DEF IInv, CallSleep, Thread!Sleep, Thread!ThreadGoes, threadVars, callerVars
<1>9. CASE FinishSleep
  BY <1>0, <1>1, <1>9 DEF IInv, FinishSleep, Thread!FallAsleep, Thread!TimeOut, Thread!ThreadGoes, loopVars, callerVars
<1>10. CASE Finish
  BY <1>0, <1>1, <1>10 DEF IInv, Finish, Thread!Finish, loopVars, callerVars
<1>11. CASE Disturbed
  BY <1>0, <1>1, <1>11 DEF IInv, Disturbed, Thread!SpuriousWakeup, Thread!Cancelled, Thread!ThreadGoes,
                           Thread!Asleep, loopVars, callerVars
<1>12. ASSUME NEW client \in Clients, NEW t \in Tasks, AddPush(client, t) PROVE IInv'
  <2>1. queue' = Append(queue, t) /\ added' = Append(added, t)
    BY <1>12 DEF AddPush, Queue!Push
  <2>2. TasksInOrder'
    BY <1>0, <1>12, <2>1, OrderPushed DEF AddPush
  <2>3. queue' \in Seq(Tasks) /\ added' \in Seq(Tasks)
    BY <1>0, <2>1, AppendProperties
  <2>. QED
    BY <1>0, <1>12, <2>2, <2>3 DEF IInv, AddPush, threadVars
<1>13. ASSUME NEW client \in Clients, AddWake(client) PROVE IInv'
  BY <1>0, <1>1, <1>13 DEF IInv, AddWake, Thread!Woken, Thread!Asleep, loopVars
<1>14. CASE Construct \/ SetOnTask \/ SetOnRepeat \/ Start \/ Stop
  <2>. USE <1>14 DEF Construct, SetOnTask, SetOnRepeat, Start, Stop
  <2>1. UNCHANGED <<tpc, queue, stage, task, handled, crashed, adding, added>>
    BY DEF threadVars, loopVars
  <2>2. constructed' \in BOOLEAN /\ onTask' \in BOOLEAN /\ onRepeat' \in BOOLEAN /\ started' \in BOOLEAN
    BY <1>0, Zenon
  <2>3. \/ late' = 0
        \/ late' = late /\ (started' = started \/ started' = FALSE)
    BY DEF loopVars
  <2>. QED
    BY <1>0, <1>1, <2>1, <2>2, <2>3 DEF IInv
<1>16. CASE TerminateAndWait
  BY <1>0, <1>1, <1>16 DEF IInv, TerminateAndWait, Thread!TerminateAndWait, loopVars
<1>17. CASE Control
  <2>1. tpc' = tpc \/ tpc' = Thread!Woken
    BY <1>17 DEF Control, Thread!SetOnTerminated, Thread!Terminate, Thread!WakeToJoin, Thread!Join,
                 Thread!TerminateNow, Thread!FireNow
  <2>. QED
    BY <1>0, <1>1, <1>17, <2>1 DEF IInv, Control, Thread!Woken, Thread!Asleep, loopVars, callerVars
<1>18. CASE UNCHANGED vars
  BY <1>0, <1>1, <1>18 DEF IInv, vars, threadVars, loopVars, callerVars
<1>. QED
  BY <1>2, <1>3, <1>4, <1>5, <1>6, <1>7, <1>8, <1>9, <1>10, <1>11, <1>12, <1>13, <1>14, <1>16, <1>17, <1>18
     DEF Next, ThreadStep, CallerStep

-----------------------------------------------------------------------------
(* So it holds. *)
LEMMA InvHolds == SafeSpec => []IInv
BY InitInv, StepInv, PTL DEF SafeSpec

(* No scheduler loses a task, runs one twice or lets one overtake another,    *)
(* whoever calls what at whatever time (Scheduler.hpp:66-88, 111-119).        *)
THEOREM OrderIsKept == Spec => []TasksInOrder
<1>1. IInv => TasksInOrder
  BY DEF IInv
<1>. QED
  BY InvHolds, <1>1, PTL DEF Spec

(* After stop() at most one more on_repeat_ begins, for any callers and any   *)
(* number of start() and stop() (Scheduler.hpp:58-64, 121-122).               *)
THEOREM StopIsSoonObeyed == Spec => []StopAllowsOneMore
<1>1. IInv => StopAllowsOneMore
  BY DEF IInv
<1>. QED
  BY InvHolds, <1>1, PTL DEF Spec

-----------------------------------------------------------------------------
ThreadProofs == INSTANCE SimpleThreadProofs WITH BodyCalls <- {"sleep", "work"}

(* wakeUp is called by any client while the owner may be in a call of its own, *)
(* which no controller of SimpleThread alone does.                             *)
LEMMA WakeKeepsThread ==
  ASSUME ThreadProofs!IInv, tpc' = Thread!Woken,
         UNCHANGED <<isTerminated, handle, cpc, cancelPending, onTerminated, fired, ends, nows>>
  PROVE  ThreadProofs!IInv'
BY DEF ThreadProofs!IInv, ThreadProofs!TypeOK, ThreadProofs!CancelledIsAsked,
       ThreadProofs!FiringsCounted, ThreadProofs!BlocksOnlyTerminated,
       ThreadProofs!JoinedIsOver, ThreadProofs!TerminatedEventOnce, ThreadProofs!ThreadStates,
       ThreadProofs!Asleep, ThreadProofs!Over, Thread!Woken, Thread!Asleep

(* What the proofs of the thread say of its own steps. *)
LEMMA ThreadStepInv == ThreadProofs!IInv /\ [ThreadProofs!Next]_threadVars => ThreadProofs!IInv'
<1>1. ThreadProofs!ThreadAssumption
  BY SchedulerAssumption DEF ThreadProofs!ThreadAssumption
<1>. QED
  BY <1>1, ThreadProofs!StepInv DEF threadVars, ThreadProofs!threadVars

(* Seen from its thread, a scheduler is one more user of SimpleThread. *)
LEMMA ThreadMoves ==
  ASSUME [Next]_vars
  PROVE  \/ [ThreadProofs!Next]_threadVars
         \/ /\ tpc' = Thread!Woken
            /\ UNCHANGED <<isTerminated, handle, cpc, cancelPending, onTerminated, fired, ends, nows>>
<1>. USE DEF Thread!ThreadGoes, ThreadProofs!ThreadGoes, ThreadProofs!Next
<1>1. CASE ThreadStep
  <2>. Thread!Running
    BY <1>1 DEF ThreadStep, Running
  <2>. ThreadProofs!Running
    BY DEF Thread!Running, ThreadProofs!Running
  <2>. USE DEF ThreadProofs!ThreadStep
  <2>1. CASE LoopTest
    BY <2>1 DEF LoopTest, Thread!LoopTest, ThreadProofs!LoopTest
  <2>2. CASE PopTask \/ RunTask \/ DecideRepeat
    BY <2>2 DEF PopTask, RunTask, DecideRepeat
  <2>3. CASE BeginRepeat \/ EndRepeat
    BY <2>3 DEF BeginRepeat, EndRepeat, Thread!BeginWork, Thread!EndWork, Thread!Sleep,
                ThreadProofs!BeginWork, ThreadProofs!EndWork, ThreadProofs!Sleep
  <2>4. CASE CallSleep
    BY <2>4 DEF CallSleep, Thread!Sleep, ThreadProofs!Sleep
  <2>5. CASE FinishSleep
    BY <2>5 DEF FinishSleep, Thread!FallAsleep, Thread!TimeOut, ThreadProofs!FallAsleep, ThreadProofs!TimeOut
  <2>6. CASE Finish
    BY <2>6 DEF Finish, Thread!Finish, ThreadProofs!Finish
  <2>. QED
    BY <1>1, <2>1, <2>2, <2>3, <2>4, <2>5, <2>6 DEF ThreadStep
<1>2. CASE Running /\ Disturbed
  <2>. ThreadProofs!Running
    BY <1>2 DEF Running, Thread!Running, ThreadProofs!Running
  <2>. QED
    BY <1>2 DEF Disturbed, Thread!SpuriousWakeup, Thread!Cancelled, Thread!Asleep, Thread!Over,
                ThreadProofs!SpuriousWakeup, ThreadProofs!Cancelled, ThreadProofs!Asleep,
                ThreadProofs!Over, ThreadProofs!ThreadStep
<1>3. CASE Running /\ CallerStep
  <2>1. ASSUME NEW client \in Clients, NEW t \in Tasks, AddPush(client, t)
        PROVE  UNCHANGED threadVars
    BY <2>1 DEF AddPush
  <2>2. CASE Construct \/ SetOnTask \/ SetOnRepeat \/ Start \/ Stop
    BY <2>2 DEF Construct, SetOnTask, SetOnRepeat, Start, Stop
  <2>3. CASE TerminateAndWait
    BY <2>3 DEF TerminateAndWait, Thread!TerminateAndWait, Thread!BeginEnd,
                ThreadProofs!ControllerStep, ThreadProofs!TerminateAndWait, ThreadProofs!BeginEnd
  <2>4. CASE Control
    BY <2>4 DEF Control, Thread!SetOnTerminated, Thread!Terminate, Thread!BeginEnd,
                Thread!WakeToJoin, Thread!Woken, Thread!Asleep, Thread!Join, Thread!Over,
                Thread!TerminateNow, Thread!FireNow, ThreadProofs!ControllerStep,
                ThreadProofs!SetOnTerminated, ThreadProofs!Terminate, ThreadProofs!BeginEnd,
                ThreadProofs!WakeToJoin, ThreadProofs!Woken, ThreadProofs!Asleep,
                ThreadProofs!Join, ThreadProofs!Over, ThreadProofs!TerminateNow, ThreadProofs!FireNow
  <2>. QED
    BY <1>3, <2>1, <2>2, <2>3, <2>4 DEF CallerStep, AddWake
<1>4. CASE UNCHANGED vars
  BY <1>4 DEF vars
<1>. QED
  BY <1>1, <1>2, <1>3, <1>4 DEF Next

(* What SimpleThread guarantees holds of the thread inside. *)
LEMMA ThreadInvHolds == SafeSpec => []ThreadProofs!IInv
<1>1. Init => ThreadProofs!IInv
  <2>1. ThreadProofs!ThreadAssumption
    BY SchedulerAssumption DEF ThreadProofs!ThreadAssumption
  <2>. QED
    BY <2>1, ThreadProofs!InitInv DEF Init, Thread!Init, ThreadProofs!Init
<1>2. ThreadProofs!IInv /\ [Next]_vars => ThreadProofs!IInv'
  BY ThreadMoves, WakeKeepsThread, ThreadStepInv
<1>. QED
  BY <1>1, <1>2, PTL DEF SafeSpec

(* Type correctness, for any clients, tasks and number of calls. *)
THEOREM TypeCorrect == Spec => []TypeOK
<1>1. IInv /\ ThreadProofs!IInv => TypeOK
  <2>. SUFFICES ASSUME IInv, ThreadProofs!IInv PROVE TypeOK
    OBVIOUS
  <2>1. Thread!TypeOK
    BY DEF ThreadProofs!IInv, ThreadProofs!TypeOK, Thread!TypeOK, ThreadProofs!ThreadStates,
           Thread!ThreadStates, ThreadProofs!ControllerStates, Thread!ControllerStates,
           ThreadProofs!Asleep, Thread!Asleep, ThreadProofs!Over, Thread!Over
  <2>2. {started, onRepeat, onTask, constructed, crashed} \subseteq BOOLEAN
    BY Zenon DEF IInv, LoopTypeOK
  <2>. QED
    BY <2>1, <2>2 DEF TypeOK, IInv, LoopTypeOK
<1>. QED
  BY <1>1, InvHolds, ThreadInvHolds, PTL DEF Spec

-----------------------------------------------------------------------------
(* A scheduler as a mailbox.  What it does not touch stays.                  *)
LEMMA MailStutter ==
  ASSUME UNCHANGED <<queue, task, handled, cancelPending>>, handle' = "joined" <=> handle = "joined"
  PROVE  UNCHANGED Mail!vars
BY DEF Mail!vars, Deleted

(* The constructor makes an empty mailbox. *)
LEMMA MailInit == Init => Mail!Init
<1>. SUFFICES ASSUME Init PROVE Mail!Init
  OBVIOUS
<1>1. /\ queue = <<>> /\ task = NoTask /\ handled = <<>> /\ handle = "joinable"
      /\ cancelPending = FALSE
  BY DEF Init, Queue!Init, Thread!Init
<1>2. Deleted \in Seq(Tasks) /\ Len(Deleted) = 0
  BY <1>1, DeletedIsSeq, EmptySeq
<1>3. Deleted = <<>>
  BY <1>2, EmptySeq
<1>. QED
  BY <1>1, <1>3 DEF Mail!Init

(* A thread in its loop body was not joined. *)
LEMMA BusyIsNotJoined == ThreadProofs!IInv /\ tpc = "body" => handle # "joined"
BY DEF ThreadProofs!IInv, ThreadProofs!JoinedIsOver, ThreadProofs!Over

(* The two steps that move a task ... *)
LEMMA MailPop ==
  ASSUME IInv, ThreadProofs!IInv, PopTask
  PROVE  [Mail!Next]_(Mail!vars)
<1>1. tpc = "body" /\ stage = "pop" /\ UNCHANGED <<handled, cancelPending, handle>>
  BY DEF PopTask, threadVars
<1>2. task = NoTask /\ handle # "joined"
  BY <1>1, BusyIsNotJoined DEF IInv, TaskOnlyInBody
<1>3. IF queue = <<>> THEN task' = NoTask /\ queue' = queue
                      ELSE task' = Head(queue) /\ queue' = Tail(queue)
  BY DEF PopTask, Queue!Pop, Queue!Front
<1>4. CASE queue = <<>>
  BY <1>1, <1>2, <1>3, <1>4, MailStutter
<1>5. CASE queue # <<>>
  BY <1>1, <1>2, <1>3, <1>5 DEF Mail!Next, Mail!Take, Deleted
<1>. QED
  BY <1>4, <1>5

LEMMA MailRun ==
  ASSUME IInv, ThreadProofs!IInv, RunTask
  PROVE  Mail!Handle
<1>1. /\ tpc = "body" /\ stage = "task" /\ task' = NoTask
      /\ handled' = Append(handled, <<task, onTask>>)
      /\ UNCHANGED <<queue, cancelPending, handle>>
  BY DEF RunTask, threadVars
<1>2. task \in Tasks /\ task # NoTask /\ handle # "joined"
  BY <1>1, BusyIsNotJoined DEF IInv, LoopTypeOK, TaskOnlyInBody
<1>3. Deleted' = Append(Deleted, task)
  BY <1>1, <1>2, FirstsOfAppend DEF IInv, LoopTypeOK, Deleted
<1>. QED
  BY <1>1, <1>2, <1>3 DEF Mail!Handle

(* ... and that of join: a thread that came to its end had nothing in hand.   *)
LEMMA MailJoin ==
  ASSUME IInv, ThreadProofs!IInv, Thread!Join, UNCHANGED <<queue, task, handled>>
  PROVE  [Mail!Next]_(Mail!vars)
<1>1. CASE handle = "joinable" /\ tpc \in Thread!Over /\ handle' = "joined"
  <2>1. tpc = "exited" => task = NoTask
    BY DEF IInv, TaskOnlyInBody
  <2>2. tpc = "cancelled" => cancelPending
    BY DEF ThreadProofs!IInv, ThreadProofs!CancelledIsAsked
  <2>3. tpc = "exited" \/ tpc = "cancelled"
    BY <1>1 DEF Thread!Over
  <2>4. UNCHANGED cancelPending /\ Deleted' = Deleted
    BY DEF Thread!Join, Deleted
  <2>. QED
    BY <1>1, <2>1, <2>2, <2>3, <2>4 DEF Mail!Next, Mail!Close
<1>2. CASE UNCHANGED handle
  BY <1>2, MailStutter DEF Thread!Join
<1>. QED
  BY <1>1, <1>2 DEF Thread!Join

(* Whatever a scheduler does, to its clients it is a step of a mailbox or none. *)
LEMMA MailStep ==
  ASSUME IInv, ThreadProofs!IInv, [Next]_vars
  PROVE  [Mail!Next]_(Mail!vars)
<1>1. CASE PopTask
  BY <1>1, MailPop
<1>2. CASE RunTask
  BY <1>2, MailRun DEF Mail!Next
<1>3. ASSUME NEW client \in Clients, NEW t \in Tasks, AddPush(client, t) PROVE Mail!Put(t)
  BY <1>3 DEF AddPush, Queue!Push, threadVars, Mail!Put, Deleted
<1>4. CASE Control
  <2>1. UNCHANGED <<queue, task, handled>>
    BY <1>4 DEF Control, loopVars
  <2>2. CASE Thread!SetOnTerminated \/ Thread!Terminate \/ Thread!WakeToJoin \/ Thread!FireNow
    BY <2>1, <2>2, MailStutter
       DEF Thread!SetOnTerminated, Thread!Terminate, Thread!WakeToJoin, Thread!FireNow
  <2>3. CASE Thread!TerminateNow
    <3>1. UNCHANGED handle /\ (cancelPending' = TRUE \/ UNCHANGED cancelPending)
      BY <2>3 DEF Thread!TerminateNow
    <3>2. CASE UNCHANGED cancelPending
      BY <2>1, <3>1, <3>2, MailStutter
    <3>3. CASE cancelPending' = TRUE
      <4>1. UNCHANGED <<queue, task, Deleted>> /\ UNCHANGED (handle = "joined")
        BY <2>1, <3>1 DEF Deleted
      <4>. QED
        BY <3>3, <4>1, Zenon DEF Mail!Next, Mail!Kill
    <3>. QED
      BY <3>1, <3>2, <3>3
  <2>4. CASE Thread!Join
    BY <2>1, <2>4, MailJoin
  <2>. QED
    BY <1>4, <2>2, <2>3, <2>4 DEF Control
<1>5. CASE TerminateAndWait
  BY <1>5, MailStutter DEF TerminateAndWait, Thread!TerminateAndWait, loopVars
<1>6. CASE LoopTest \/ DecideRepeat \/ BeginRepeat \/ EndRepeat \/ CallSleep
  BY <1>6, MailStutter DEF LoopTest, DecideRepeat, BeginRepeat, EndRepeat, CallSleep, Thread!LoopTest,
     Thread!BeginWork, Thread!EndWork, Thread!Sleep, Thread!ThreadGoes, threadVars, loopVars
<1>7. CASE FinishSleep \/ Finish \/ Disturbed
  BY <1>7, MailStutter DEF FinishSleep, Finish, Disturbed, Thread!FallAsleep, Thread!TimeOut, Thread!Finish,
     Thread!SpuriousWakeup, Thread!Cancelled, Thread!ThreadGoes, loopVars
<1>8. CASE Construct \/ SetOnTask \/ SetOnRepeat \/ Start \/ Stop
  BY <1>8, MailStutter DEF Construct, SetOnTask, SetOnRepeat, Start, Stop, threadVars, loopVars
<1>9. ASSUME NEW client \in Clients, AddWake(client) PROVE UNCHANGED Mail!vars
  BY <1>9, MailStutter DEF AddWake, loopVars
<1>10. CASE UNCHANGED vars
  BY <1>10, MailStutter DEF vars, threadVars, loopVars
<1>. QED
  BY <1>1, <1>2, <1>3, <1>4, <1>5, <1>6, <1>7, <1>8, <1>9, <1>10 DEF Next, ThreadStep, CallerStep, Mail!Next

(* For any clients, tasks and number of calls: a scheduler is a mailbox.  It   *)
(* takes tasks one at a time, in order, and none once terminateAndWait() has  *)
(* returned (Scheduler.hpp:48-52, 66-88, 109-119).                            *)
THEOREM SchedulerIsMailbox == SafeSpec => MailboxSafe
BY MailInit, MailStep, InvHolds, ThreadInvHolds, PTL DEF SafeSpec, MailboxSafe, Mail!SafeSpec

-----------------------------------------------------------------------------
(* The capture.  bitmap_ is what option_ asks for. *)
Fits == ~Unfit(BitmapSize(option))

CaptureInv ==
  /\ starting = "alloc" => Fits
  /\ starting = "idle" /\ (started \/ stage = "repeat") => Fits
  /\ frame # "done" => stage = "repeat" /\ tpc \in {"work", "cancelled"}
  /\ undisturbed => starting = "idle"
  /\ torn => ~undisturbed

(* Every step of the capture is a step of its scheduler, or invisible to it. *)
LEMMA SchedulerMoves ==
  ASSUME [CaptureNext]_allVars
  PROVE  [Next]_vars
<1>1. CASE CaptureStep
  <2>1. CASE Idle \/ BeginCapture
    BY <1>1, <2>1 DEF CaptureStep, Idle, BeginCapture, Next, ThreadStep
  <2>2. CASE Grab \/ Copy \/ Deliver
    BY <2>2 DEF Grab, Copy, Deliver, CaptureGoes
  <2>3. CASE Iconic \/ EndCapture
    <3>1. EndRepeat
      BY <2>3 DEF Iconic, EndCapture, EndRepeat, Thread!EndWork, captureVars
    <3>. QED
      BY <1>1, <3>1 DEF CaptureStep, Next, ThreadStep
  <2>. QED
    BY <1>1, <2>1, <2>2, <2>3 DEF CaptureStep
<1>2. CASE Running /\ Disturbed
  BY <1>2 DEF Next
<1>3. CASE StartStep
  BY <1>3 DEF StartStep, StartFree, StartAlloc, StartScheduler, Next, CallerStep
<1>4. CASE Running /\ (SchedulerCall \/ Destroy)
  BY <1>4 DEF SchedulerCall, Destroy, Next, CallerStep
<1>5. ASSUME NEW o \in Options, StartOption(o) PROVE UNCHANGED vars
  BY <1>5 DEF StartOption
<1>6. CASE UNCHANGED allVars
  BY <1>6 DEF allVars
<1>. QED
  BY <1>1, <1>2, <1>3, <1>4, <1>5, <1>6 DEF CaptureNext

(* The constructor establishes the invariant: nothing was started yet. *)
LEMMA CaptureInitInv == CaptureInit => CaptureInv
BY DEF CaptureInit, Init, CaptureInv

(* The steps of the thread around a capture. *)
LEMMA CaptureIdleStep ==
  ASSUME CaptureInv, Idle \/ (Disturbed /\ UNCHANGED captureVars)
  PROVE  CaptureInv'
<1>1. UNCHANGED <<option, bitmap, starting, frame, torn, undisturbed, started>>
  BY DEF Idle, Disturbed, LoopTest, PopTask, DecideRepeat, CallSleep, FinishSleep, Finish, captureVars, callerVars
<1>2. stage' = "repeat" => stage = "repeat" \/ started
  BY DEF Idle, Disturbed, LoopTest, PopTask, DecideRepeat, CallSleep, FinishSleep, Finish, loopVars
<1>3. tpc \in {"work", "cancelled"} => stage' = stage /\ tpc' \in {"work", "cancelled"}
  BY DEF Idle, Disturbed, LoopTest, PopTask, DecideRepeat, CallSleep, FinishSleep, Finish, loopVars,
         Thread!LoopTest, Thread!Sleep, Thread!FallAsleep, Thread!TimeOut, Thread!Finish,
         Thread!SpuriousWakeup, Thread!Cancelled, Thread!ThreadGoes, Thread!Asleep
<1>. QED
  BY <1>1, <1>2, <1>3 DEF CaptureInv, Fits, Unfit

(* The steps of a capture. *)
LEMMA CaptureWorkStep ==
  ASSUME CaptureInv, BeginCapture \/ Iconic \/ Grab \/ Copy \/ Deliver \/ EndCapture
  PROVE  CaptureInv'
<1>1. CASE BeginCapture
  <2>1. /\ stage = "repeat" /\ tpc' = "work" /\ torn' = FALSE /\ undisturbed' = (starting = "idle")
        /\ UNCHANGED <<stage, started, option, bitmap, starting>>
    BY <1>1 DEF BeginCapture, BeginRepeat, Thread!BeginWork, Thread!ThreadGoes, callerVars
  <2>. QED
    BY <2>1 DEF CaptureInv, Fits, Unfit
<1>2. CASE Grab \/ Copy \/ Deliver
  <2>1. /\ frame # "done" /\ UNCHANGED <<stage, tpc, started, option, bitmap, starting, undisturbed>>
        /\ torn' = torn \/ (torn' => ~Fits \/ torn)
    BY <1>2 DEF Grab, Copy, Deliver, CaptureGoes, Fits, vars, threadVars, loopVars, callerVars
  <2>2. undisturbed => Fits /\ ~torn
    BY <2>1 DEF CaptureInv
  <2>. QED
    BY <2>1, <2>2 DEF CaptureInv, Fits, Unfit
<1>3. CASE EndCapture
  <2>1. frame = "done" /\ UNCHANGED <<stage, started, option, bitmap, starting, frame, torn, undisturbed>>
    BY <1>3 DEF EndCapture, captureVars, loopVars, callerVars
  <2>. QED
    BY <2>1 DEF CaptureInv, Fits, Unfit
<1>4. CASE Iconic
  <2>1. frame' = "done" /\ UNCHANGED <<stage, started, option, bitmap, starting, torn, undisturbed>>
    BY <1>4 DEF Iconic, loopVars, callerVars
  <2>. QED
    BY <2>1 DEF CaptureInv, Fits, Unfit
<1>. QED
  BY <1>1, <1>2, <1>3, <1>4

(* The steps of the owner: start(), which fits the bitmap again before it ends *)
(* (lines 108-116), the destructor, and the calls of the scheduler.           *)
LEMMA CaptureOwnerStep ==
  ASSUME CaptureInv, StartStep \/ SchedulerCall \/ Destroy \/ \E o \in Options : StartOption(o)
  PROVE  CaptureInv'
<1>1. CASE StartFree \/ StartAlloc \/ \E o \in Options : StartOption(o)
  <2>1. /\ starting' # "idle" /\ undisturbed' = FALSE
        /\ starting' = "alloc" => bitmap' = [live |-> TRUE, size |-> BitmapSize(option)] /\ UNCHANGED option
        /\ UNCHANGED <<stage, tpc, frame>>
    BY <1>1 DEF StartFree, StartAlloc, StartOption, OwnerStep, vars, threadVars, loopVars
  <2>. QED
    BY <2>1 DEF CaptureInv, Fits, Unfit, BitmapSize
<1>2. CASE StartScheduler
  <2>1. /\ starting = "alloc" /\ undisturbed' = FALSE
        /\ UNCHANGED <<stage, tpc, frame, option, bitmap>>
    BY <1>2 DEF StartScheduler, Start, OwnerStep, threadVars
  <2>. QED
    BY <1>2, <2>1 DEF CaptureInv, Fits, Unfit, StartScheduler, OwnerStep
<1>3. CASE Destroy
  <2>1. /\ starting' = "destroyed" /\ undisturbed' = FALSE /\ UNCHANGED <<stage, tpc, frame>>
    BY <1>3 DEF Destroy, OwnerStep, Stop, threadVars, loopVars
  <2>. QED
    BY <2>1 DEF CaptureInv
<1>4. CASE SchedulerCall
  <2>1. UNCHANGED <<stage, frame, option, bitmap, starting, torn, undisturbed>>
    BY <1>4 DEF SchedulerCall, Construct, SetOnRepeat, Stop, TerminateAndWait, Control, captureVars, loopVars
  <2>2. started' = started \/ started' = FALSE
    BY <1>4 DEF SchedulerCall, Construct, SetOnRepeat, Stop, TerminateAndWait, Control, callerVars
  <2>3. tpc' = tpc \/ tpc \in Thread!Asleep
    BY <1>4 DEF SchedulerCall, Construct, SetOnRepeat, Stop, TerminateAndWait, Control, threadVars,
                Thread!SetOnTerminated, Thread!Terminate, Thread!TerminateAndWait, Thread!WakeToJoin,
                Thread!Join, Thread!TerminateNow, Thread!FireNow, Thread!Woken
  <2>. QED
    BY <2>1, <2>2, <2>3 DEF CaptureInv, Fits, Unfit, Thread!Asleep
<1>. QED
  BY <1>1, <1>2, <1>3, <1>4 DEF StartStep

(* The strengthened invariant of the capture holds. *)
LEMMA CaptureInvHolds == CaptureSpec => []CaptureInv
<1>1. CaptureInv /\ [CaptureNext]_allVars => CaptureInv'
  <2>. SUFFICES ASSUME CaptureInv, [CaptureNext]_allVars PROVE CaptureInv'
    OBVIOUS
  <2>1. CASE UNCHANGED allVars
    BY <2>1 DEF CaptureInv, Fits, Unfit, allVars, captureVars, vars, threadVars, loopVars, callerVars
  <2>. QED
    BY <2>1, CaptureIdleStep, CaptureWorkStep, CaptureOwnerStep DEF CaptureNext, CaptureStep
<1>. QED
  BY <1>1, CaptureInitInv, PTL DEF CaptureSpec

(* Every behaviour of the capture is one of its scheduler (DesktopCapture.hpp: *)
(* 92-126 uses it through its public methods alone).                          *)
THEOREM CaptureUsesScheduler == CaptureSpec => SafeSpec
<1>1. CaptureInit => Init
  BY DEF CaptureInit
<1>. QED
  BY <1>1, SchedulerMoves, PTL DEF CaptureSpec, SafeSpec

(* After stop() at most one more capture begins, whatever the owner does       *)
(* (DesktopCapture.hpp:118-121 over Scheduler.hpp:58-64, 121-122).             *)
THEOREM CaptureStopsSoon == CaptureSpec => []StopAllowsOneMore
<1>1. SafeSpec => []StopAllowsOneMore
  <2>1. IInv => StopAllowsOneMore
    BY DEF IInv
  <2>. QED
    BY <2>1, InvHolds, PTL
<1>. QED
  BY <1>1, CaptureUsesScheduler, PTL

(* For any options and any number of calls: a capture that no start() and no   *)
(* destructor overlaps uses a live bitmap of the size its option asks for      *)
(* (DesktopCapture.hpp:108-116, 138-232).                                      *)
THEOREM TornByRestartOnly == CaptureSpec => []TornOnlyByRestart
<1>1. CaptureInv => TornOnlyByRestart
  BY DEF CaptureInv, TornOnlyByRestart
<1>. QED
  BY <1>1, CaptureInvHolds, PTL
-----------------------------------------------------------------------------
(* The client.  Its constants are those of a Scheduler with an owner. *)

(* Every step of the client is a step of its scheduler, invisible to it, or   *)
(* one of the three below.                                                    *)
LEMMA ClientMoves ==
  ASSUME TcpClientAssumption, [ClientNext]_clientVars
  PROVE  [Next]_vars \/ EndReceive \/ BrokenPipe \/ Join
<1>1. CASE ClientThreadStep
  BY <1>1 DEF ClientThreadStep, RunCall, BeginReceive, Loop, Next, ThreadStep
<1>2. CASE Receive \/ PeerGone
  BY <1>2 DEF Receive, PeerGone
<1>3. CASE Running /\ ClientCallerStep
  <2>1. CASE ConstructClient \/ EndScheduler
    BY <1>3, <2>1 DEF ConstructClient, EndScheduler, Next, CallerStep
  <2>2. ASSUME NEW client \in Clients, NEW t \in Tasks, Call(client, t) \/ Wake(client) PROVE [Next]_vars
    BY <1>3, <2>2 DEF Call, Wake, Next, CallerStep
  <2>3. CASE \E client \in Clients : Wake(client)
    BY <1>3, <2>3 DEF Wake, Next, CallerStep
  <2>4. CASE Terminate
    <3>1. Owner \in Clients /\ "disconnect" \in Tasks
      BY DEF TcpClientAssumption, CallTasks
    <3>. QED
      BY <1>3, <2>4, <3>1 DEF Terminate, Next, CallerStep
  <2>. QED
    BY <1>3, <2>1, <2>2, <2>3, <2>4 DEF ClientCallerStep
<1>4. CASE Running /\ Disturbed
  BY <1>4 DEF Next
<1>5. CASE UNCHANGED clientVars
  BY <1>5 DEF clientVars
<1>. QED
  BY <1>1, <1>2, <1>3, <1>4, <1>5 DEF ClientNext

(* The scheduler inside keeps its invariant, also when its on_repeat_ sleeps   *)
(* and when SIGPIPE ends the program in the middle of a task.                  *)
LEMMA ClientKeepsScheduler ==
  ASSUME TcpClientAssumption, IInv, [ClientNext]_clientVars
  PROVE  IInv'
<1>0. LoopTypeOK /\ TaskOnlyInBody /\ RepeatWasAllowed /\ TasksInOrder /\ StopAllowsOneMore
  BY DEF IInv
<1>1. ASSUME UNCHANGED <<queue, added, handled, task>>
      PROVE  TasksInOrder'
  BY <1>0, <1>1 DEF TasksInOrder, InHand, Deleted
<1>. USE DEF LoopTypeOK, TaskOnlyInBody, RepeatWasAllowed, StopAllowsOneMore
<1>2. CASE EndReceive
  BY <1>0, <1>1, <1>2 DEF IInv, EndReceive, Thread!ThreadGoes, loopVars, callerVars
<1>3. CASE BrokenPipe
  BY <1>0, <1>1, <1>3 DEF IInv, BrokenPipe, threadVars, callerVars
<1>4. CASE Join
  <2>1. tpc' = tpc \/ tpc' = Thread!Woken
    BY <1>4 DEF Join, Thread!WakeToJoin, Thread!Join
  <2>. QED
    BY <1>0, <1>1, <1>4, <2>1 DEF IInv, Join, Thread!Woken, Thread!Asleep, loopVars, callerVars
<1>. QED
  BY <1>2, <1>3, <1>4, ClientMoves, StepInv

LEMMA ClientOrder ==
  ASSUME TcpClientAssumption
  PROVE  ClientSafeSpec => []IInv
<1>1. ClientInit => IInv
  BY InitInv DEF ClientInit
<1>2. IInv /\ [ClientNext]_clientVars => IInv'
  BY ClientKeepsScheduler
<1>. QED
  BY <1>1, <1>2, PTL DEF ClientSafeSpec

(* No call of a client is lost, carried out twice or overtaken, also when sends *)
(* fail, SIGPIPE ends the program or the owner ends the client (TcpClient.hpp:  *)
(* 41-65, 67-95).                                                               *)
THEOREM ClientOrderIsKept ==
  ASSUME TcpClientAssumption
  PROVE  ClientSafeSpec => []TasksInOrder
<1>1. IInv => TasksInOrder
  BY DEF IInv
<1>. QED
  BY <1>1, ClientOrder, PTL

(* What SimpleThread guarantees holds of the thread of a client, although its  *)
(* on_repeat_ goes to sleep, which no work of SimpleThread alone does.         *)
LEMMA ClientThreadInvHolds ==
  ASSUME TcpClientAssumption
  PROVE  ClientSafeSpec => []ThreadProofs!IInv
<1>1. TcpClientAssumption
  OBVIOUS
<1>2. ClientInit => ThreadProofs!IInv
  <2>1. ThreadProofs!ThreadAssumption
    BY SchedulerAssumption DEF ThreadProofs!ThreadAssumption
  <2>. QED
    BY <2>1, ThreadProofs!InitInv DEF ClientInit, Init, Thread!Init, ThreadProofs!Init
<1>3. ThreadProofs!IInv /\ [ClientNext]_clientVars => ThreadProofs!IInv'
  <2>. SUFFICES ASSUME ThreadProofs!IInv, [ClientNext]_clientVars PROVE ThreadProofs!IInv'
    OBVIOUS
  <2>1. CASE [Next]_vars
    BY <2>1, ThreadMoves, WakeKeepsThread, ThreadStepInv
  <2>2. CASE EndReceive
    <3>. DEFINE to == IF got \/ ~isTerminated THEN "test" ELSE "timed"
    <3>1. tpc \notin ThreadProofs!Over /\ to \in ThreadProofs!ThreadStates \ {"exited"}
      BY <2>2 DEF EndReceive, ThreadProofs!Over, ThreadProofs!ThreadStates
    <3>2. ThreadProofs!ThreadGoes(to)
      BY <2>2 DEF EndReceive, Thread!ThreadGoes, ThreadProofs!ThreadGoes
    <3>3. to \in ThreadProofs!Asleep \cup {"timed", "tight", "returned"} => isTerminated
      BY DEF ThreadProofs!Asleep
    <3>4. to # "cancelled"
      OBVIOUS
    <3>. HIDE DEF to
    <3>. QED
      BY <3>1, <3>2, <3>3, <3>4, SchedulerAssumption, ThreadProofs!ThreadGoesInv DEF ThreadProofs!ThreadAssumption
  <2>3. CASE BrokenPipe
    <3>1. [ThreadProofs!Next]_threadVars
      BY <2>3 DEF BrokenPipe
    <3>. QED
      BY <3>1, ThreadStepInv
  <2>4. CASE Join
    <3>1. ThreadProofs!Next
      BY <2>4 DEF Join, Thread!WakeToJoin, Thread!Woken, Thread!Asleep, Thread!Join, Thread!Over,
                  ThreadProofs!WakeToJoin, ThreadProofs!Woken, ThreadProofs!Asleep, ThreadProofs!Join,
                  ThreadProofs!Over, ThreadProofs!ControllerStep, ThreadProofs!Next
    <3>. QED
      BY <3>1, ThreadStepInv
  <2>. QED
    BY <1>1, <2>1, <2>2, <2>3, <2>4, ClientMoves
<1>. QED
  BY <1>2, <1>3, PTL DEF ClientSafeSpec

(* The calls of a client too are a mailbox's, for any clients and number of    *)
(* calls: terminate(), which queues a disconnect first, returns when no task   *)
(* is in the middle of being carried out (TcpClient.hpp:41-65, 67-95).         *)
THEOREM ClientIsMailbox ==
  ASSUME TcpClientAssumption
  PROVE  ClientSafeSpec => MailboxSafe
<1>1. TcpClientAssumption
  OBVIOUS
<1>2. ClientInit => Mail!Init
  BY MailInit DEF ClientInit
<1>3. IInv /\ ThreadProofs!IInv /\ [ClientNext]_clientVars => [Mail!Next]_(Mail!vars)
  <2>. SUFFICES ASSUME IInv, ThreadProofs!IInv, [ClientNext]_clientVars PROVE [Mail!Next]_(Mail!vars)
    OBVIOUS
  <2>1. CASE EndReceive
    BY <2>1, MailStutter DEF EndReceive, Thread!ThreadGoes, loopVars
  <2>2. CASE BrokenPipe
    BY <2>2, MailStutter DEF BrokenPipe, threadVars
  <2>3. CASE Join
    <3>1. UNCHANGED <<queue, task, handled>>
      BY <2>3 DEF Join, loopVars
    <3>2. CASE Thread!WakeToJoin
      BY <3>1, <3>2, MailStutter DEF Thread!WakeToJoin
    <3>. QED
      BY <2>3, <3>1, <3>2, MailJoin DEF Join
  <2>. QED
    BY <1>1, <2>1, <2>2, <2>3, ClientMoves, MailStep
<1>. QED
  BY <1>2, <1>3, ClientOrder, ClientThreadInvHolds, PTL DEF ClientSafeSpec, MailboxSafe, Mail!SafeSpec

-----------------------------------------------------------------------------
(* The socket *)

(* The task in hand is the call after those carried out; nothing is carried    *)
(* out that was not called.                                                   *)
LEMMA TaskIsNextCall ==
  ASSUME IInv
  PROVE  /\ Len(handled) \in Nat /\ Len(added) \in Nat /\ Len(handled) <= Len(added)
         /\ task # NoTask => Now <= Len(added) /\ added[Now] = task
<1>1. LoopTypeOK /\ TasksInOrder
  BY DEF IInv
<1>2. Deleted \in Seq(Tasks) /\ queue \in Seq(Tasks) /\ InHand \in Seq(Tasks) /\ Len(Deleted) = Len(handled)
  BY <1>1, DeletedIsSeq DEF LoopTypeOK, InHand
<1>3. Len(handled) \in Nat /\ Len(InHand) \in Nat /\ Len(queue) \in Nat
  BY <1>2, LenProperties
<1>4. added = Deleted \o InHand \o queue
  BY <1>1 DEF TasksInOrder, Deleted
<1>5. /\ Len(added) = Len(handled) + Len(InHand) + Len(queue)
      /\ \A i \in 1 .. Len(InHand) : added[Len(handled) + i] = InHand[i]
  <2>1. /\ Len(Deleted \o InHand \o queue) = Len(Deleted) + Len(InHand) + Len(queue)
        /\ \A i \in 1 .. Len(InHand) : (Deleted \o InHand \o queue)[Len(Deleted) + i] = InHand[i]
    <3>1. \A r, s, t \in Seq(Tasks) :
            /\ Len(r \o s \o t) = Len(r) + Len(s) + Len(t)
            /\ \A i \in 1 .. Len(s) : (r \o s \o t)[Len(r) + i] = s[i]
      BY MiddleOfThree
    <3>. QED
      BY <1>2, <3>1, Zenon
  <2>. QED
    BY <1>2, <1>4, <2>1, Zenon
<1>6. CASE task # NoTask
  <2>1. InHand = <<task>> /\ Len(InHand) = 1 /\ InHand[1] = task
    BY <1>6 DEF InHand
  <2>. QED
    BY <1>3, <1>5, <2>1 DEF Now
<1>. QED
  BY <1>3, <1>5, <1>6

SocketTypes ==
  /\ line \in [1 .. MaxAdds -> {"none", "bad", "up", "down", "shut"}]
  /\ socket \in 0 .. Len(handled)
  /\ written \in Seq(Nat \X Nat)
  /\ lost \in Seq(Nat)

(* The connection in use is the one the calls carried out so far ask for. *)
SocketIsConnected == socket # 0 => ConnectedFor(socket, Now)

WrittenInv ==
  \A i \in 1 .. Len(written) :
    /\ written[i][1] \in 1 .. Len(handled) /\ written[i][2] \in 1 .. Len(handled)
    /\ ConnectedFor(written[i][2], written[i][1])

(* Whatever was lost is older than the connection in use. *)
LostInv ==
  /\ \A i \in 1 .. Len(lost) : lost[i] \in 1 .. Len(handled) /\ (socket # 0 => lost[i] < socket)
  /\ \A i, j \in 1 .. Len(lost) : i < j => lost[i] < lost[j]

OneIsOpen == \A n \in 1 .. MaxAdds : line[n] \in {"up", "down"} => n = socket

SocketInv == SocketTypes /\ SocketIsConnected /\ WrittenInv /\ LostInv /\ OneIsOpen

(* A client without calls has no socket. *)
LEMMA SocketInitInv == ClientInit => SocketInv
<1>. SUFFICES ASSUME ClientInit PROVE SocketInv
  OBVIOUS
<1>1. /\ handled = <<>> /\ socket = 0 /\ written = <<>> /\ lost = <<>>
      /\ line = [n \in 1 .. MaxAdds |-> "none"]
  BY DEF ClientInit, Init
<1>2. <<>> \in Seq(Nat \X Nat) /\ <<>> \in Seq(Nat) /\ Len(<<>>) = 0
  BY EmptySeq
<1>. QED
  BY <1>1, <1>2 DEF SocketInv, SocketTypes, SocketIsConnected, WrittenInv, LostInv, OneIsOpen

(* Later calls do not change what earlier ones meant. *)
LEMMA MeaningIsStable ==
  ASSUME NEW n \in Nat, NEW k \in Nat, 1 <= n, k <= Len(added) + 1, Len(added) \in Nat,
         \A m \in 1 .. Len(added) : added'[m] = added[m],
         ConnectedFor(n, k)
  PROVE  ConnectedFor(n, k)'
BY DEF ConnectedFor

(* A call of the client, or a step that leaves calls and socket alone. *)
LEMMA SocketUntouched ==
  ASSUME SocketInv, IInv, UNCHANGED <<handled, socket, written, lost>>,
         added' = added \/ \E t \in Tasks : added' = Append(added, t),
         line' \in [1 .. MaxAdds -> {"none", "bad", "up", "down", "shut"}],
         \A n \in 1 .. MaxAdds : line'[n] \in {"up", "down"} => line[n] \in {"up", "down"}
  PROVE  SocketInv'
<1>1. Len(handled) \in Nat /\ Len(added) \in Nat /\ Len(handled) <= Len(added) /\ added \in Seq(Tasks)
  BY TaskIsNextCall DEF IInv, LoopTypeOK
<1>2. \A m \in 1 .. Len(added) : added'[m] = added[m]
  BY <1>1, AppendProperties
<1>3. SocketIsConnected'
  BY <1>1, <1>2, MeaningIsStable DEF SocketInv, SocketTypes, SocketIsConnected, Now
<1>4. WrittenInv'
  <2>. SUFFICES ASSUME NEW i \in 1 .. Len(written) PROVE ConnectedFor(written[i][2], written[i][1])'
    BY DEF WrittenInv, SocketInv
  <2>. QED
    BY <1>1, <1>2, MeaningIsStable DEF SocketInv, WrittenInv
<1>5. SocketTypes' /\ LostInv' /\ OneIsOpen'
  BY DEF SocketInv, SocketTypes, LostInv, OneIsOpen
<1>. QED
  BY <1>3, <1>4, <1>5 DEF SocketInv

(* What shutdown does to the lines: none but that of the socket changes. *)
LEMMA ShutLines ==
  ASSUME SocketInv
  PROVE  /\ Shut(line) \in [1 .. MaxAdds -> {"none", "bad", "up", "down", "shut"}]
         /\ \A n \in 1 .. MaxAdds : Shut(line)[n] \notin {"up", "down"}
<1>1. /\ line \in [1 .. MaxAdds -> {"none", "bad", "up", "down", "shut"}]
      /\ \A n \in 1 .. MaxAdds : line[n] \in {"up", "down"} => n = socket
  BY DEF SocketInv, SocketTypes, OneIsOpen
<1>2. CASE socket = 0 \/ line[socket] = "bad"
  <2>1. Shut(line) = line
    BY <1>2 DEF Shut
  <2>2. ASSUME NEW n \in 1 .. MaxAdds PROVE line[n] \notin {"up", "down"}
    BY <1>1, <1>2
  <2>. QED
    BY <1>1, <2>1, <2>2
<1>3. CASE ~(socket = 0 \/ line[socket] = "bad")
  <2>1. Shut(line) = [line EXCEPT ![socket] = "shut"]
    BY <1>3 DEF Shut
  <2>. QED
    BY <1>1, <2>1
<1>. QED
  BY <1>2, <1>3

(* on_task_ and the delete of the task: the call whose number is Now is        *)
(* carried out.                                                               *)
LEMMA SocketTask ==
  ASSUME TcpClientAssumption, IInv, SocketInv, RunCall
  PROVE  SocketInv'
<1>. DEFINE Lines == [1 .. MaxAdds -> {"none", "bad", "up", "down", "shut"}]
<1>1. /\ Len(handled) \in Nat /\ Len(added) \in Nat /\ Len(handled) <= Len(added)
      /\ Now \in Nat /\ Now = Len(handled) + 1
      /\ Now <= Len(added) /\ added[Now] = task /\ added' = added
  <2>1. task # NoTask
    BY DEF IInv, TaskOnlyInBody, RunCall, RunTask
  <2>. QED
    BY <2>1, TaskIsNextCall DEF RunCall, RunTask, callerVars, Now
<1>2. Len(handled') = Now /\ Now' = Now + 1
  <2>1. handled \in Seq(Tasks \X BOOLEAN) /\ task \in Tasks /\ onTask \in BOOLEAN
    BY DEF IInv, LoopTypeOK, TaskOnlyInBody, RunCall, RunTask
  <2>. QED
    BY <1>1, <2>1, AppendProperties DEF RunCall, RunTask, Now
<1>3. SocketTypes /\ SocketIsConnected /\ WrittenInv /\ LostInv /\ OneIsOpen
  BY DEF SocketInv
<1>4. \A n, k \in Nat : ConnectedFor(n, k)' = ConnectedFor(n, k)
  BY <1>1 DEF ConnectedFor
<1>5. written' = written => WrittenInv'
  <2>. SUFFICES ASSUME written' = written, NEW i \in 1 .. Len(written)
                PROVE  /\ written[i][1] \in 1 .. Len(handled') /\ written[i][2] \in 1 .. Len(handled')
                       /\ ConnectedFor(written[i][2], written[i][1])'
    BY DEF WrittenInv, ConnectedFor
  <2>1. /\ written[i][1] \in 1 .. Len(handled) /\ written[i][2] \in 1 .. Len(handled)
        /\ ConnectedFor(written[i][2], written[i][1])
    BY <1>3 DEF WrittenInv
  <2>2. ConnectedFor(written[i][2], written[i][1])' = ConnectedFor(written[i][2], written[i][1])
    BY <1>1 DEF ConnectedFor
  <2>. QED
    BY <1>1, <1>2, <2>1, <2>2
<1>6. ASSUME socket' = 0, UNCHANGED <<written, lost>>, line' \in Lines,
             \A n \in 1 .. MaxAdds : line'[n] \notin {"up", "down"}
      PROVE  SocketInv'
  BY <1>1, <1>2, <1>3, <1>5, <1>6 DEF SocketInv, SocketTypes, SocketIsConnected, LostInv, OneIsOpen
<1>7. CASE Connect
  <2>1. CASE socket' = 0
    <3>1. UNCHANGED <<written, lost>>
      BY <1>7 DEF Connect
    <3>2. /\ line' \in Lines
          /\ \A n \in 1 .. MaxAdds : line'[n] \notin {"up", "down"}
      <4>1. \/ line' = Shut(line)
            \/ line' = [Shut(line) EXCEPT ![Now] = "shut"]
        BY <1>1, <1>7, <2>1 DEF Connect
      <4>. QED
        BY <1>3, <4>1, ShutLines DEF SocketInv
    <3>. QED
      BY <2>1, <3>1, <3>2, <1>6
  <2>2. ASSUME NEW state \in {"bad", "up", "down"}, socket' = Now, line' = [Shut(line) EXCEPT ![Now] = state]
        PROVE  SocketInv'
    <3>1. added[Now] = "connect" /\ UNCHANGED <<written, lost>>
      BY <1>1, <1>7 DEF Connect
    <3>2. SocketIsConnected'
      BY <1>1, <1>2, <2>2, <3>1 DEF SocketIsConnected, ConnectedFor
    <3>3. SocketTypes' /\ OneIsOpen'
      <4>1. /\ Shut(line) \in Lines
            /\ \A n \in 1 .. MaxAdds : Shut(line)[n] \notin {"up", "down"}
        BY <1>3, ShutLines DEF SocketInv
      <4>2. /\ line' \in Lines
            /\ \A n \in 1 .. MaxAdds : line'[n] \in {"up", "down"} => n = Now
        BY <2>2, <4>1
      <4>. QED
        BY <1>1, <1>2, <1>3, <2>2, <3>1, <4>2 DEF SocketTypes, OneIsOpen
    <3>4. LostInv'
      BY <1>1, <1>2, <1>3, <2>2, <3>1 DEF LostInv
    <3>. QED
      BY <1>5, <3>1, <3>2, <3>3, <3>4 DEF SocketInv
  <2>. QED
    BY <1>7, <2>1, <2>2 DEF Connect
<1>8. CASE Disconnect
  BY <1>6, <1>8, ShutLines DEF Disconnect
<1>9. ASSUME task = "send", UNCHANGED <<socket, line, lost>>, WrittenInv',
             written' \in Seq(Nat \X Nat)
      PROVE  SocketInv'
  <2>1. SocketIsConnected'
    BY <1>1, <1>2, <1>3, <1>9 DEF SocketIsConnected, ConnectedFor, SocketTypes
  <2>2. SocketTypes' /\ OneIsOpen' /\ LostInv'
    BY <1>1, <1>2, <1>3, <1>9 DEF SocketTypes, OneIsOpen, LostInv
  <2>. QED
    BY <1>9, <2>1, <2>2 DEF SocketInv
<1>10. CASE SendNowhere
  BY <1>3, <1>5, <1>9, <1>10 DEF SendNowhere, SocketTypes
<1>11. CASE SendTaken
  <2>1. task = "send" /\ UNCHANGED <<socket, line, lost>> /\ socket # 0
        /\ written' = Append(written, <<Now, socket>>)
    BY <1>11 DEF SendTaken
  <2>2. socket \in 1 .. Len(handled) /\ written \in Seq(Nat \X Nat) /\ ConnectedFor(socket, Now)
    BY <1>1, <1>3, <2>1 DEF SocketTypes, SocketIsConnected
  <2>3. <<Now, socket>> \in Nat \X Nat
    BY <1>1, <2>2
  <2>4. /\ written' \in Seq(Nat \X Nat) /\ Len(written') = Len(written) + 1 /\ Len(written) \in Nat
        /\ \A i \in 1 .. Len(written) : written'[i] = written[i]
        /\ written'[Len(written) + 1] = <<Now, socket>>
    BY <2>1, <2>2, <2>3, AppendProperties, LenProperties
  <2>5. ASSUME NEW i \in 1 .. Len(written')
        PROVE  /\ written'[i][1] \in 1 .. Now /\ written'[i][2] \in 1 .. Now
               /\ ConnectedFor(written'[i][2], written'[i][1])
    <3>1. CASE i \in 1 .. Len(written)
      <4>1. written'[i] = written[i]
        BY <2>4, <3>1
      <4>. QED
        BY <1>1, <1>3, <3>1, <4>1 DEF WrittenInv, ConnectedFor
    <3>2. CASE i = Len(written) + 1
      <4>1. written'[i] = <<Now, socket>>
        BY <2>4, <3>2
      <4>. QED
        BY <1>1, <2>2, <4>1 DEF ConnectedFor
    <3>3. i \in 1 .. Len(written) \/ i = Len(written) + 1
      BY <2>4
    <3>. QED
      BY <3>1, <3>2, <3>3
  <2>6. WrittenInv'
    BY <1>1, <1>2, <2>5 DEF WrittenInv, ConnectedFor
  <2>. QED
    BY <1>9, <2>1, <2>4, <2>6
<1>12. CASE SendFails
  <2>1. socket \in 1 .. Len(handled) /\ socket' = 0 /\ lost' = Append(lost, socket) /\ written' = written
        /\ line' = Shut(line)
    BY <1>1, <1>3, <1>12 DEF SendFails, SocketTypes
  <2>2. /\ lost' \in Seq(Nat) /\ Len(lost') = Len(lost) + 1 /\ Len(lost) \in Nat
        /\ \A i \in 1 .. Len(lost) : lost'[i] = lost[i]
        /\ lost'[Len(lost) + 1] = socket
    BY <1>3, <2>1, AppendProperties, LenProperties DEF SocketTypes
  <2>3. LostInv'
    BY <1>1, <1>2, <1>3, <2>1, <2>2, SMTT(30) DEF LostInv
  <2>4. SocketTypes' /\ OneIsOpen' /\ SocketIsConnected'
    BY <1>1, <1>2, <1>3, <2>1, <2>2, ShutLines DEF SocketTypes, OneIsOpen, SocketIsConnected
  <2>. QED
    BY <1>5, <2>1, <2>3, <2>4 DEF SocketInv
<1>. QED
  BY <1>7, <1>8, <1>10, <1>11, <1>12 DEF RunCall

(* Every step keeps what is said of the socket. *)
LEMMA SocketStep ==
  ASSUME TcpClientAssumption, IInv, SocketInv, [ClientNext]_clientVars
  PROVE  SocketInv'
<1>1. CASE RunCall
  BY <1>1, SocketTask
<1>2. CASE PeerGone
  <2>1. PICK n \in 1 .. MaxAdds : line[n] = "up" /\ line' = [line EXCEPT ![n] = "down"]
    BY <1>2 DEF PeerGone
  <2>2. UNCHANGED <<handled, socket, written, lost, added>>
    BY <1>2 DEF PeerGone, vars, loopVars, callerVars
  <2>. QED
    BY <2>1, <2>2, SocketUntouched DEF SocketInv, SocketTypes
<1>3. ASSUME UNCHANGED <<handled, socket, written, lost, line>>,
             added' = added \/ \E t \in Tasks : added' = Append(added, t)
      PROVE  SocketInv'
  BY <1>3, SocketUntouched DEF SocketInv, SocketTypes
<1>4. CASE BeginReceive \/ EndReceive \/ Loop
  BY <1>3, <1>4 DEF BeginReceive, BeginRepeat, EndReceive, Loop, LoopTest, PopTask, DecideRepeat, CallSleep,
                    FinishSleep, Finish, loopVars, callerVars, socketVars
<1>5. CASE Receive \/ BrokenPipe \/ ConstructClient \/ EndScheduler \/ Join
  BY <1>3, <1>5 DEF Receive, BrokenPipe, ConstructClient, Construct, SetOnRepeat, SetOnTask, Start, EndScheduler,
                    TerminateAndWait, Join, vars, loopVars, callerVars, socketVars
<1>6. ASSUME NEW client \in Clients, NEW t \in Tasks, Call(client, t) PROVE SocketInv'
  BY <1>3, <1>6 DEF Call, AddPush, socketVars
<1>7. ASSUME NEW client \in Clients, Wake(client) PROVE SocketInv'
  BY <1>3, <1>7 DEF Wake, AddWake, loopVars, socketVars
<1>8. CASE Terminate
  <2>1. "disconnect" \in Tasks
    BY DEF TcpClientAssumption, CallTasks
  <2>. QED
    BY <1>3, <1>8, <2>1 DEF Terminate, AddPush, socketVars
<1>9. CASE Disturbed /\ UNCHANGED <<ending, socketVars>>
  BY <1>3, <1>9 DEF Disturbed, loopVars, callerVars, socketVars
<1>10. CASE UNCHANGED clientVars
  BY <1>3, <1>10 DEF clientVars, socketVars, vars, loopVars, callerVars
<1>. QED
  BY <1>1, <1>2, <1>4, <1>5, <1>6, <1>7, <1>8, <1>9, <1>10 DEF ClientNext, ClientThreadStep, ClientCallerStep

LEMMA SocketInvHolds ==
  ASSUME TcpClientAssumption
  PROVE  ClientSafeSpec => []SocketInv
<1>1. IInv /\ SocketInv /\ [ClientNext]_clientVars => SocketInv'
  BY SocketStep
<1>. QED
  BY <1>1, SocketInitInv, ClientOrder, PTL DEF ClientSafeSpec

(* For any clients and number of calls: data goes to the connection that its   *)
(* caller asked for, or nowhere, however connects and sends fail               *)
(* (TcpClient.hpp:81-95, 120-180).                                             *)
THEOREM ClientWritesWhereMeant ==
  ASSUME TcpClientAssumption
  PROVE  ClientSafeSpec => []WrittenWhereMeant
<1>1. SocketInv => WrittenWhereMeant
  BY DEF SocketInv, WrittenInv, WrittenWhereMeant
<1>. QED
  BY <1>1, SocketInvHolds, PTL

(* For any clients and number of calls: no connection is reported lost twice   *)
(* or used after that, and no two are open at once (TcpClient.hpp:120-180).    *)
THEOREM ClientLossIsFinal ==
  ASSUME TcpClientAssumption
  PROVE  ClientSafeSpec => []LossIsFinal
<1>1. SocketInv => LossIsFinal
  <2>. SUFFICES ASSUME SocketInv PROVE LossIsFinal
    OBVIOUS
  <2>1. \A i \in 1 .. Len(lost) : lost[i] # socket
    BY DEF SocketInv, SocketTypes, LostInv
  <2>. QED
    BY <2>1 DEF SocketInv, LostInv, OneIsOpen, LossIsFinal
<1>. QED
  BY <1>1, SocketInvHolds, PTL
=============================================================================
