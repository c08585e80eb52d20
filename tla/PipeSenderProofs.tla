-------------------------- MODULE PipeSenderProofs --------------------------
(***************************************************************************)
(* First the Worker by itself, for any clients, tasks and number of calls, *)
(* terminateNow() included: it handles its tasks in order.  The queue's    *)
(* own invariants carry over from SuspensionQueueProofs: each step of a    *)
(* worker is a step of its queue, or leaves it alone, or cancels the       *)
(* thread inside pop.  What is added is where a task can be between the    *)
(* queue and handled.  What SimpleThread guarantees carries over likewise. *)
(*                                                                         *)
(* Then the PipeSender, which uses that Worker as it is, so that all of it *)
(* carries over; and the pipe instances, said by where their open tasks    *)
(* stand among all that were queued: what lies between an open and the     *)
(* last task that has begun decides what pipe_ is and what was overwritten. *)
(***************************************************************************)
EXTENDS PipeSender, SequenceTheorems, FiniteSetTheorems, TLAPS

QueueProofs == INSTANCE SuspensionQueueProofs WITH
                 Producers <- Clients, Consumers <- {WorkerThread}, Items <- Tasks,
                 NoItem <- NoTask, MaxPushes <- MaxAdds, isTerminated <- queueTerminated

QueueInv == QueueProofs!TypeOK /\ QueueProofs!FifoNoLoss /\ ~queueTerminated

(* a task was popped and is not handled only in the hand of the thread *)
HandInv ==
  /\ handled \in Seq(Tasks)
  /\ \/ popped = handled
     \/ popped = Append(handled, got[WorkerThread]) /\ tpc \in {"work", "cancelled"}
  /\ (tpc = "work" /\ pc[WorkerThread] = "idle") =>
       got[WorkerThread] \in Tasks /\ popped = Append(handled, got[WorkerThread])
  /\ (tpc = "work" /\ pc[WorkerThread] # "idle") => popped = handled

(* since setOnTask everything handled was executed *)
ExecutedInv ==
  /\ executed \in Seq(Tasks)
  /\ Len(executed) <= Len(handled)
  /\ executed = SubSeq(handled, Len(handled) - Len(executed) + 1, Len(handled))
  /\ ~onTask => executed = <<>>

IInv == QueueInv /\ HandInv /\ ExecutedInv

-----------------------------------------------------------------------------
(* s is how t ends *)
EndOf(s, t) == Len(s) <= Len(t) /\ s = SubSeq(t, Len(t) - Len(s) + 1, Len(t))

(* The end of a sequence grows with it. *)
LEMMA SuffixGrows ==
  ASSUME NEW S, NEW s \in Seq(S), NEW t \in Seq(S), NEW e \in S, EndOf(s, t)
  PROVE  EndOf(Append(s, e), Append(t, e))
<1>. DEFINE s1 == Append(s, e)
            t1 == Append(t, e)
            k == Len(t) - Len(s)
            u == SubSeq(t1, k + 1, Len(t) + 1)
<1>1. Len(s) \in Nat /\ Len(t) \in Nat /\ k \in Nat /\ k + Len(s) = Len(t)
  BY LenProperties DEF EndOf
<1>2. /\ s1 \in Seq(S) /\ Len(s1) = Len(s) + 1
      /\ t1 \in Seq(S) /\ Len(t1) = Len(t) + 1
      /\ \A i \in 1 .. Len(s) : s1[i] = s[i]
      /\ \A i \in 1 .. Len(t) : t1[i] = t[i]
      /\ s1[Len(s) + 1] = e /\ t1[Len(t) + 1] = e
  BY AppendProperties
<1>3. \A i \in 1 .. Len(t) + 1 : t1[i] \in S
  BY <1>2, ElementOfSeq
<1>4. \A i \in k + 1 .. Len(t) + 1 : t1[i] \in S
  BY <1>1, <1>3
<1>5. /\ u \in Seq(S) /\ Len(u) = Len(s) + 1
      /\ \A i \in 1 .. Len(s) + 1 : u[i] = t1[k + i]
  <2>. HIDE DEF t1
  <2>1. k + 1 \in Int /\ Len(t) + 1 \in Int
    BY <1>1
  <2>2. /\ u \in Seq(S)
        /\ Len(u) = IF k + 1 <= Len(t) + 1 THEN (Len(t) + 1) - (k + 1) + 1 ELSE 0
        /\ \A i \in 1 .. (Len(t) + 1) - (k + 1) + 1 : u[i] = t1[(k + 1) + i - 1]
    BY <1>4, <2>1, SubSeqProperties
  <2>. QED
    BY <1>1, <2>2
<1>6. \A i \in 1 .. Len(s) : s[i] = t[k + i]
  <2>1. \A i \in k + 1 .. Len(t) : t[i] \in S
    BY <1>1, ElementOfSeq
  <2>. DEFINE v == SubSeq(t, k + 1, Len(t))
  <2>2. \A i \in 1 .. Len(t) - (k + 1) + 1 : v[i] = t[(k + 1) + i - 1]
    BY <1>1, <2>1, SubSeqProperties
  <2>3. s = v
    BY DEF EndOf
  <2>. HIDE DEF v
  <2>4. \A i \in 1 .. Len(s) : v[i] = t[k + i]
    BY <1>1, <2>2
  <2>. QED
    BY <2>3, <2>4
<1>. HIDE DEF s1, t1, u
<1>7. \A i \in 1 .. Len(s) + 1 : s1[i] = u[i]
  <2>. TAKE i \in 1 .. Len(s) + 1
  <2>1. CASE i <= Len(s)
    <3>1. i \in 1 .. Len(s) /\ k + i \in 1 .. Len(t)
      BY <1>1, <2>1
    <3>2. s1[i] = s[i] /\ t1[k + i] = t[k + i] /\ s[i] = t[k + i]
      BY <1>2, <1>6, <3>1
    <3>. QED
      BY <1>5, <3>2
  <2>2. CASE i = Len(s) + 1
    BY <1>1, <1>2, <1>5, <2>2
  <2>. QED
    BY <1>1, <2>1, <2>2
<1>8. s1 = u
  BY <1>2, <1>5, <1>7, SeqEqual
<1>9. Len(t1) - Len(s1) + 1 = k + 1
  BY <1>1, <1>2
<1>. QED
  BY <1>1, <1>2, <1>8, <1>9 DEF s1, t1, u, EndOf

(* The first of two concatenated sequences is a prefix. *)
LEMMA ConcatPrefix ==
  ASSUME NEW S, NEW s \in Seq(S), NEW t \in Seq(S)
  PROVE  IsPrefix(s, s \o t)
<1>1. Len(s) \in Nat /\ Len(t) \in Nat
  BY LenProperties
<1>2. /\ s \o t \in Seq(S) /\ Len(s \o t) = Len(s) + Len(t)
      /\ \A i \in 1 .. Len(s) : (s \o t)[i] = s[i] /\ s[i] \in S
  BY ConcatProperties, ElementOfSeq, <1>1
<1>3. SubSeq(s, 1, Len(s)) \in Seq(S) /\ SubSeq(s \o t, 1, Len(s)) \in Seq(S)
  BY <1>1, <1>2, SubSeqProperties
<1>4. /\ Len(SubSeq(s, 1, Len(s))) = Len(s) /\ Len(SubSeq(s \o t, 1, Len(s))) = Len(s)
      /\ \A i \in 1 .. Len(s) : SubSeq(s, 1, Len(s))[i] = s[i]
      /\ \A i \in 1 .. Len(s) : SubSeq(s \o t, 1, Len(s))[i] = (s \o t)[i]
  BY <1>1, <1>2, SubSeqProperties
<1>5. SubSeq(s, 1, Len(s)) = SubSeq(s \o t, 1, Len(s))
  BY <1>2, <1>3, <1>4, SeqEqual
<1>. QED
  BY <1>1, <1>2, <1>5 DEF IsPrefix

-----------------------------------------------------------------------------
(* What the proofs of the queue assume of their constants holds. *)
LEMMA QueueAssumptionHolds == WorkerAssumption => QueueProofs!QueueAssumption
BY DEF WorkerAssumption, QueueProofs!QueueAssumption

(* Seen from the queue, a worker is producers, a consumer, and a cancellation. *)
LEMMA QueueMoves ==
  ASSUME [Next]_vars
  PROVE  /\ [QueueProofs!Next]_queueVars \/ (Cancelled /\ pc' = [pc EXCEPT ![WorkerThread] = "idle"])
         /\ UNCHANGED queueTerminated
<1>. USE DEF QueueProofs!Next, queueVars
<1>1. ASSUME NEW client \in Clients, NEW task \in Tasks, Add(client, task)
      PROVE  QueueProofs!Push(client, task) /\ UNCHANGED queueTerminated
  BY <1>1 DEF Add, Queue!Push, QueueProofs!Push, Queue!MutexFree, QueueProofs!MutexFree
<1>2. ASSUME NEW client \in Clients, AddNotify(client)
      PROVE  QueueProofs!PushNotify(client) /\ UNCHANGED queueTerminated
  BY <1>2 DEF AddNotify, Queue!PushNotify, QueueProofs!PushNotify, Queue!NotifyAll, QueueProofs!NotifyAll
<1>3. CASE BeginPop
  <2>1. QueueProofs!PopCall(WorkerThread) /\ UNCHANGED queueTerminated
    BY <1>3 DEF BeginPop, Queue!PopCall, QueueProofs!PopCall
  <2>. QED
    BY <2>1
<1>4. CASE InPop
  <2>. USE DEF Queue!MutexFree, QueueProofs!MutexFree, Queue!TakeFront, QueueProofs!TakeFront,
               Queue!FindEmpty, QueueProofs!FindEmpty, Queue!GiveUp, QueueProofs!GiveUp
  <2>1. \/ QueueProofs!PopBegin(WorkerThread) \/ QueueProofs!PopWait(WorkerThread)
        \/ QueueProofs!PopResume(WorkerThread)
    BY <1>4 DEF InPop, Queue!PopBegin, QueueProofs!PopBegin, Queue!PopWait, QueueProofs!PopWait,
               Queue!PopResume, QueueProofs!PopResume
  <2>2. UNCHANGED queueTerminated
    BY <1>4 DEF InPop, Queue!PopBegin, Queue!PopWait, Queue!PopResume
  <2>. QED
    BY <2>1, <2>2
<1>5. CASE WokenInPop
  <2>1. QueueProofs!SpuriousWakeup(WorkerThread) /\ UNCHANGED queueTerminated
    BY <1>5 DEF WokenInPop, Queue!SpuriousWakeup, QueueProofs!SpuriousWakeup
  <2>. QED
    BY <2>1
<1>6. CASE Cancelled
  BY <1>6 DEF Cancelled
<1>7. CASE SetOnTask \/ LoopTest \/ RunTask \/ Finish \/ Control
  BY <1>7 DEF SetOnTask, LoopTest, RunTask, Finish, Control
<1>8. CASE UNCHANGED vars
  BY <1>8 DEF vars
<1>. QED
  BY <1>1, <1>2, <1>3, <1>4, <1>5, <1>6, <1>7, <1>8 DEF Next, ThreadStep

(* The queue of a worker keeps its invariants. *)
LEMMA QueueStepInv == WorkerAssumption /\ QueueInv /\ [Next]_vars => QueueInv'
<1>. SUFFICES ASSUME WorkerAssumption, QueueInv, [Next]_vars PROVE QueueInv'
  OBVIOUS
<1>1. QueueProofs!QueueAssumption
  BY QueueAssumptionHolds
<1>2. CASE [QueueProofs!Next]_queueVars
  <2>1. [QueueProofs!Next]_(QueueProofs!vars)
    BY <1>2 DEF queueVars, QueueProofs!vars
  <2>2. QueueProofs!TypeOK' /\ QueueProofs!FifoNoLoss'
    BY <1>1, <2>1, QueueProofs!TypeStep, QueueProofs!FifoStep DEF QueueInv
  <2>. QED
    BY <2>2, QueueMoves DEF QueueInv
<1>3. CASE Cancelled /\ pc' = [pc EXCEPT ![WorkerThread] = "idle"]
  BY <1>3, QueueMoves DEF WorkerAssumption, QueueInv, Cancelled, QueueProofs!TypeOK, QueueProofs!FifoNoLoss,
     QueueProofs!ProducerStates, QueueProofs!ConsumerStates
<1>. QED
  BY <1>2, <1>3, QueueMoves

(* The constructor establishes the invariant. *)
LEMMA InitInv == WorkerAssumption /\ Init => IInv
<1>. SUFFICES ASSUME WorkerAssumption, Init PROVE IInv
  OBVIOUS
<1>1. QueueInv
  <2>1. QueueProofs!Init
    BY DEF Init, Queue!Init, QueueProofs!Init
  <2>2. QueueProofs!TypeOK
    BY <2>1, QueueAssumptionHolds, QueueProofs!TypeInit
  <2>. QED
    BY <2>1, <2>2 DEF QueueInv, QueueProofs!Init, QueueProofs!FifoNoLoss
<1>2. handled = <<>> /\ executed = <<>> /\ popped = <<>> /\ tpc = "test" /\ pc[WorkerThread] = "idle"
  BY DEF Init, Queue!Init, Thread!Init
<1>3. <<>> \in Seq(Tasks) /\ Len(<<>>) = 0
  BY EmptySeq
<1>4. HandInv
  BY <1>2, <1>3 DEF HandInv
<1>5. ExecutedInv
  <2>1. SubSeq(<<>>, 1, 0) = <<>>
    BY SubSeqEmpty
  <2>. QED
    BY <1>2, <1>3, <2>1 DEF ExecutedInv
<1>. QED
  BY <1>1, <1>4, <1>5 DEF IInv

(* A task is handled that was in the hand of the thread. *)
LEMMA RunTaskInv ==
  ASSUME WorkerAssumption, IInv, RunTask
  PROVE  HandInv' /\ ExecutedInv'
<1>. DEFINE task == got[WorkerThread]
<1>1. /\ tpc = "work" /\ tpc' = "test" /\ pc[WorkerThread] = "idle"
      /\ handled' = Append(handled, task)
      /\ executed' = IF onTask THEN Append(executed, task) ELSE executed
      /\ UNCHANGED <<popped, onTask, got, pc>>
  BY DEF RunTask, Thread!EndWork, Thread!ThreadGoes, queueVars
<1>2. handled \in Seq(Tasks) /\ task \in Tasks /\ popped = Append(handled, task)
  BY <1>1 DEF IInv, HandInv
<1>3. /\ executed \in Seq(Tasks) /\ Len(executed) <= Len(handled)
      /\ executed = SubSeq(handled, Len(handled) - Len(executed) + 1, Len(handled))
      /\ ~onTask => executed = <<>>
  BY DEF IInv, ExecutedInv
<1>4. handled' \in Seq(Tasks) /\ Len(handled') = Len(handled) + 1 /\ Len(handled) \in Nat
  BY <1>1, <1>2, AppendProperties, LenProperties
<1>5. HandInv'
  BY <1>1, <1>2, <1>4 DEF HandInv
<1>6. CASE onTask
  <2>1. executed' \in Seq(Tasks)
    BY <1>1, <1>2, <1>3, <1>6, AppendProperties
  <2>2. EndOf(executed, handled)
    BY <1>3 DEF EndOf
  <2>3. EndOf(Append(executed, task), Append(handled, task))
    BY <1>2, <1>3, <2>2, SuffixGrows
  <2>4. EndOf(executed', handled')
    BY <1>1, <1>6, <2>3
  <2>. QED
    BY <1>1, <1>5, <1>6, <2>1, <2>4 DEF ExecutedInv, EndOf
<1>7. CASE ~onTask
  <2>1. executed' = <<>> /\ <<>> \in Seq(Tasks) /\ Len(<<>>) = 0
    BY <1>1, <1>3, <1>7, EmptySeq
  <2>2. SubSeq(handled', Len(handled') + 1, Len(handled')) = <<>>
    BY <1>4, SubSeqEmpty
  <2>3. Len(executed') = 0 /\ Len(handled') - Len(executed') + 1 = Len(handled') + 1
    BY <1>4, <2>1
  <2>4. executed' = SubSeq(handled', Len(handled') - Len(executed') + 1, Len(handled'))
    BY <2>1, <2>2, <2>3
  <2>. QED
    BY <1>4, <1>5, <2>1, <2>3, <2>4 DEF ExecutedInv
<1>. QED
  BY <1>6, <1>7

(* pop hands the thread a task, or nothing yet. *)
LEMMA InPopInv ==
  ASSUME WorkerAssumption, IInv, InPop
  PROVE  HandInv'
<1>. DEFINE task == got[WorkerThread]
<1>1. tpc = "work" /\ tpc' = "work" /\ UNCHANGED handled
  BY DEF InPop, threadVars
<1>2. pc[WorkerThread] # "idle"
  BY DEF InPop, Queue!PopBegin, Queue!PopWait, Queue!PopResume
<1>3. handled \in Seq(Tasks) /\ popped = handled
  BY <1>1, <1>2 DEF IInv, HandInv
<1>4. queue \in Seq(Tasks) /\ got \in [{WorkerThread} -> Tasks \cup {NoTask}]
      /\ WorkerThread \in DOMAIN pc /\ ~queueTerminated
  BY DEF IInv, QueueInv, QueueProofs!TypeOK
<1>5. CASE Queue!TakeFront(WorkerThread)
  <2>1. Head(queue) \in Tasks
    BY <1>4, <1>5, HeadTailProperties DEF Queue!TakeFront
  <2>2. got'[WorkerThread] = Head(queue) /\ popped' = Append(popped, Head(queue))
    BY <1>4, <1>5 DEF Queue!TakeFront
  <2>3. pc'[WorkerThread] = "idle"
    BY <1>4, <1>5 DEF Queue!TakeFront
  <2>. QED
    BY <1>1, <1>3, <2>1, <2>2, <2>3 DEF HandInv
<1>6. CASE Queue!FindEmpty(WorkerThread) \/ Queue!PopWait(WorkerThread)
  <2>1. pc'[WorkerThread] # "idle" /\ UNCHANGED popped
    BY <1>4, <1>6 DEF Queue!FindEmpty, Queue!PopWait
  <2>. QED
    BY <1>1, <1>3, <2>1 DEF HandInv
<1>. QED
  BY <1>4, <1>5, <1>6 DEF InPop, Queue!PopBegin, Queue!PopResume

(* Every step keeps it. *)
LEMMA StepInv == WorkerAssumption /\ IInv /\ [Next]_vars => IInv'
<1>. SUFFICES ASSUME WorkerAssumption, IInv, [Next]_vars PROVE IInv'
  OBVIOUS
<1>1. QueueInv'
  BY QueueStepInv DEF IInv
<1>2. ASSUME UNCHANGED <<onTask, handled, executed>> PROVE ExecutedInv'
  BY <1>2 DEF IInv, ExecutedInv
<1>3. WorkerThread \in DOMAIN pc /\ DOMAIN pc = Clients \cup {WorkerThread} /\ WorkerThread \notin Clients
  BY DEF IInv, QueueInv, QueueProofs!TypeOK, WorkerAssumption
<1>4. HandInv
  BY DEF IInv
<1>5. ASSUME NEW client \in Clients,
             (\E task \in Tasks : Add(client, task)) \/ AddNotify(client)
      PROVE  HandInv' /\ ExecutedInv'
  <2>1. UNCHANGED <<tpc, popped, got, onTask, handled, executed>>
    BY <1>5 DEF Add, AddNotify, Queue!Push, Queue!PushNotify, threadVars
  <2>2. pc'[WorkerThread] = "idle" <=> pc[WorkerThread] = "idle"
    BY <1>3, <1>5 DEF Add, AddNotify, Queue!Push, Queue!PushNotify, Queue!NotifyAll
  <2>. QED
    BY <1>2, <1>4, <2>1, <2>2 DEF HandInv
<1>6. CASE SetOnTask
  <2>1. UNCHANGED <<tpc, pc, popped, got, handled, executed>> /\ onTask' = TRUE
    BY <1>6 DEF SetOnTask, threadVars, queueVars
  <2>. QED
    BY <1>1, <1>4, <2>1 DEF IInv, HandInv, ExecutedInv
<1>7. CASE LoopTest \/ Finish
  <2>1. UNCHANGED <<pc, popped, got, onTask, handled, executed>>
    BY <1>7 DEF LoopTest, Finish, queueVars
  <2>2. tpc \in {"test", "returned"} /\ tpc' \in {"body", "returned", "exited"}
    BY <1>7 DEF LoopTest, Finish, Thread!LoopTest, Thread!Finish, Thread!ThreadGoes
  <2>. QED
    BY <1>1, <1>2, <1>4, <2>1, <2>2 DEF IInv, HandInv
<1>8. CASE BeginPop
  <2>1. UNCHANGED <<popped, got, onTask, handled, executed>> /\ tpc = "body" /\ tpc' = "work"
    BY <1>8 DEF BeginPop, Queue!PopCall, Thread!BeginWork, Thread!ThreadGoes
  <2>2. pc'[WorkerThread] = "entering"
    BY <1>3, <1>8 DEF BeginPop, Queue!PopCall
  <2>. QED
    BY <1>1, <1>2, <1>4, <2>1, <2>2 DEF IInv, HandInv
<1>9. CASE InPop
  BY <1>1, <1>2, <1>9, InPopInv DEF IInv, InPop
<1>10. CASE RunTask
  BY <1>1, <1>10, RunTaskInv DEF IInv
<1>11. CASE WokenInPop
  <2>1. UNCHANGED <<tpc, popped, got, onTask, handled, executed>>
    BY <1>11 DEF WokenInPop, Queue!SpuriousWakeup, threadVars
  <2>2. pc[WorkerThread] # "idle" /\ pc'[WorkerThread] # "idle"
    BY <1>3, <1>11 DEF WokenInPop, Queue!SpuriousWakeup
  <2>. QED
    BY <1>1, <1>2, <1>4, <2>1, <2>2 DEF IInv, HandInv
<1>12. CASE Cancelled
  <2>1. UNCHANGED <<popped, got, onTask, handled, executed>> /\ tpc' = "cancelled"
    BY <1>12 DEF Cancelled, Thread!Cancelled, Thread!ThreadGoes
  <2>. QED
    BY <1>1, <1>2, <1>4, <2>1 DEF IInv, HandInv
<1>13. CASE Control
  <2>1. UNCHANGED <<pc, popped, got, onTask, handled, executed>>
    BY <1>13 DEF Control, queueVars
  <2>2. tpc' = tpc \/ (tpc \in Thread!Asleep /\ tpc' = "test")
    BY <1>13 DEF Control, Thread!SetOnTerminated, Thread!Terminate, Thread!TerminateAndWait,
       Thread!WakeToJoin, Thread!Join, Thread!TerminateNow, Thread!FireNow, Thread!Woken
  <2>. QED
    BY <1>1, <1>2, <1>4, <2>1, <2>2 DEF IInv, HandInv, Thread!Asleep
<1>14. CASE UNCHANGED vars
  BY <1>1, <1>2, <1>4, <1>14 DEF IInv, HandInv, vars, threadVars, queueVars
<1>. QED
  BY <1>1, <1>5, <1>6, <1>7, <1>8, <1>9, <1>10, <1>11, <1>12, <1>13, <1>14 DEF IInv, Next, ThreadStep

-----------------------------------------------------------------------------
(* It implies the property. *)
LEMMA InvGivesOrder == WorkerAssumption /\ IInv => TasksHandledInOrder
<1>. SUFFICES ASSUME WorkerAssumption, IInv PROVE TasksHandledInOrder
  OBVIOUS
<1>. DEFINE task == got[WorkerThread]
<1>1. /\ handled \in Seq(Tasks) /\ queue \in Seq(Tasks) /\ popped \in Seq(Tasks)
      /\ popped \o queue = pushed
  BY DEF IInv, HandInv, QueueInv, QueueProofs!TypeOK, QueueProofs!FifoNoLoss
<1>2. Len(handled) \in Nat
  BY <1>1, LenProperties
<1>3. ExecutedInv /\ HandInv
  BY DEF IInv
<1>4. CASE popped = handled
  <2>1. IsPrefix(handled, pushed)
    BY <1>1, <1>4, ConcatPrefix
  <2>. QED
    BY <1>2, <1>3, <1>4, <2>1 DEF TasksHandledInOrder, ExecutedInv, HandInv, WorkerAssumption
<1>5. CASE popped = Append(handled, task) /\ tpc \in {"work", "cancelled"} /\ task \in Tasks
  <2>1. popped = handled \o <<task>> /\ <<task>> \in Seq(Tasks) /\ Len(popped) = Len(handled) + 1
    BY <1>1, <1>5, AppendIsConcat, AppendProperties
  <2>2. (handled \o <<task>>) \o queue = handled \o (<<task>> \o queue) /\ <<task>> \o queue \in Seq(Tasks)
    BY <1>1, <2>1, ConcatAssociative, ConcatProperties
  <2>3. IsPrefix(handled, pushed)
    BY <1>1, <2>1, <2>2, ConcatPrefix
  <2>. QED
    BY <1>2, <1>3, <1>5, <2>1, <2>3 DEF TasksHandledInOrder, ExecutedInv, HandInv, WorkerAssumption
<1>6. ASSUME popped = Append(handled, task) PROVE task \in Tasks
  <2>1. Append(handled, task)[Len(handled) + 1] = task
    BY <1>1, <1>2
  <2>. QED
    BY <1>1, <1>2, <1>6, <2>1, LenProperties, ElementOfSeq
<1>. QED
  BY <1>3, <1>4, <1>5, <1>6 DEF HandInv

(* For any clients, tasks and number of calls of add and terminate.., and      *)
(* whenever the thread is killed: tasks are handled in the order in which     *)
(* they were added, each at most once (Worker.hpp:55-57, 92-101).            *)
THEOREM OrderIsKept == ASSUME WorkerAssumption PROVE SafeSpec => []TasksHandledInOrder
BY InitInv, StepInv, InvGivesOrder, PTL DEF SafeSpec

-----------------------------------------------------------------------------
ThreadProofs == INSTANCE SimpleThreadProofs WITH BodyCalls <- {"work"}

ThreadInv == ThreadProofs!IInv /\ onTask \in BOOLEAN

(* Seen from its thread, a worker is one more user of SimpleThread. *)
LEMMA ThreadMoves ==
  ASSUME [Next]_vars
  PROVE  [ThreadProofs!Next]_threadVars
<1>. USE DEF Thread!ThreadGoes, ThreadProofs!ThreadGoes, ThreadProofs!Next
<1>1. CASE LoopTest \/ BeginPop \/ RunTask \/ Finish \/ Cancelled
  <2>. Thread!Running
    BY <1>1 DEF LoopTest, BeginPop, RunTask, Finish, Cancelled
  <2>. ThreadProofs!Running
    BY DEF Thread!Running, ThreadProofs!Running
  <2>. USE DEF ThreadProofs!ThreadStep
  <2>1. CASE LoopTest
    BY <2>1 DEF LoopTest, Thread!LoopTest, ThreadProofs!LoopTest
  <2>2. CASE BeginPop \/ RunTask
    BY <2>2 DEF BeginPop, RunTask, Thread!BeginWork, Thread!EndWork,
                ThreadProofs!BeginWork, ThreadProofs!EndWork
  <2>3. CASE Finish
    BY <2>3 DEF Finish, Thread!Finish, ThreadProofs!Finish
  <2>4. CASE Cancelled
    BY <2>4 DEF Cancelled, Thread!Cancelled, Thread!Over, ThreadProofs!Cancelled, ThreadProofs!Over
  <2>. QED
    BY <1>1, <2>1, <2>2, <2>3, <2>4
<1>2. CASE InPop \/ WokenInPop \/ SetOnTask
  BY <1>2 DEF InPop, WokenInPop, SetOnTask
<1>3. ASSUME NEW client \in Clients,
             (\E task \in Tasks : Add(client, task)) \/ AddNotify(client)
      PROVE  UNCHANGED threadVars
  BY <1>3 DEF Add, AddNotify
<1>4. CASE Control
  BY <1>4 DEF Control, Thread!SetOnTerminated, Thread!Terminate, Thread!TerminateAndWait, Thread!BeginEnd,
              Thread!WakeToJoin, Thread!Woken, Thread!Asleep, Thread!Join, Thread!Over,
              Thread!TerminateNow, Thread!FireNow, ThreadProofs!ControllerStep,
              ThreadProofs!SetOnTerminated, ThreadProofs!Terminate, ThreadProofs!TerminateAndWait,
              ThreadProofs!BeginEnd, ThreadProofs!WakeToJoin, ThreadProofs!Woken, ThreadProofs!Asleep,
              ThreadProofs!Join, ThreadProofs!Over, ThreadProofs!TerminateNow, ThreadProofs!FireNow
<1>5. CASE UNCHANGED vars
  BY <1>5 DEF vars
<1>. QED
  BY <1>1, <1>2, <1>3, <1>4, <1>5 DEF Next, ThreadStep

(* What SimpleThread guarantees carries over. *)
LEMMA ThreadInvHolds == ASSUME WorkerAssumption PROVE SafeSpec => []ThreadInv
<1>1. ThreadProofs!ThreadAssumption
  BY DEF WorkerAssumption, ThreadProofs!ThreadAssumption
<1>2. Init => ThreadInv
  <2>. SUFFICES ASSUME Init PROVE ThreadInv
    OBVIOUS
  <2>1. ThreadProofs!IInv
    BY <1>1, ThreadProofs!InitInv DEF Init, Thread!Init, ThreadProofs!Init
  <2>2. onTask \in BOOLEAN
    BY DEF Init
  <2>. QED
    BY <2>1, <2>2 DEF ThreadInv
<1>3. ThreadInv /\ [Next]_vars => ThreadInv'
  <2>. SUFFICES ASSUME ThreadInv, [Next]_vars PROVE ThreadInv'
    OBVIOUS
  <2>1. ThreadProofs!IInv'
    BY <1>1, ThreadMoves, ThreadProofs!StepInv DEF ThreadInv, threadVars, ThreadProofs!threadVars
  <2>2. onTask' = TRUE \/ onTask' = onTask
    BY DEF Next, vars, Add, AddNotify, SetOnTask, ThreadStep, LoopTest, BeginPop, InPop, RunTask,
           Finish, WokenInPop, Cancelled, Control
  <2>. QED
    BY <2>1, <2>2, Zenon DEF ThreadInv
<1>. QED
  BY <1>2, <1>3, PTL DEF SafeSpec

(* The strengthened invariant of the tasks holds. *)
LEMMA TaskInvHolds == ASSUME WorkerAssumption PROVE SafeSpec => []IInv
BY InitInv, StepInv, PTL DEF SafeSpec

(* Type correctness, for any clients, tasks and number of calls. *)
THEOREM TypeCorrect == ASSUME WorkerAssumption PROVE SafeSpec => []TypeOK
<1>1. IInv /\ ThreadInv => TypeOK
  <2>. SUFFICES ASSUME IInv, ThreadInv PROVE TypeOK
    OBVIOUS
  <2>1. Thread!TypeOK
    BY DEF ThreadInv, ThreadProofs!IInv, ThreadProofs!TypeOK, Thread!TypeOK, ThreadProofs!ThreadStates,
           Thread!ThreadStates, ThreadProofs!ControllerStates, Thread!ControllerStates,
           ThreadProofs!Asleep, Thread!Asleep, ThreadProofs!Over, Thread!Over
  <2>2. Queue!TypeOK
    BY DEF IInv, QueueInv, QueueProofs!TypeOK, Queue!TypeOK, QueueProofs!ProducerStates,
           Queue!ProducerStates, QueueProofs!ConsumerStates, Queue!ConsumerStates
  <2>3. onTask \in BOOLEAN
    BY Zenon DEF ThreadInv
  <2>4. handled \in Seq(Tasks) /\ executed \in Seq(Tasks)
    BY DEF IInv, HandInv, ExecutedInv
  <2>. QED
    BY <2>1, <2>2, <2>3, <2>4, Zenon DEF TypeOK
<1>. QED
  BY <1>1, ThreadInvHolds, TaskInvHolds, PTL

-----------------------------------------------------------------------------
(* A worker as a mailbox.  What it does not touch stays.                     *)
LEMMA MailStutter ==
  ASSUME UNCHANGED <<queue, popped, handled, got, cancelPending, handle>>
  PROVE  UNCHANGED Mail!vars
BY DEF Mail!vars, Hand

(* The constructor makes an empty mailbox. *)
LEMMA MailInit == Init => Mail!Init
BY DEF Init, Thread!Init, Queue!Init, Mail!Init, Hand

(* pop takes a task out of the mailbox, into the hand of a thread that runs,  *)
(* or finds nothing there.                                                   *)
LEMMA PopTakes ==
  ASSUME WorkerAssumption, IInv, ThreadInv, InPop
  PROVE  [Mail!Next]_(Mail!vars)
<1>1. tpc = "work" /\ UNCHANGED <<handled, cancelPending, handle>> /\ pc[WorkerThread] # "idle"
  BY DEF InPop, threadVars, Queue!PopBegin, Queue!PopWait, Queue!PopResume
<1>2. popped = handled /\ handled \in Seq(Tasks)
  BY <1>1 DEF IInv, HandInv
<1>3. ~queueTerminated /\ got \in [{WorkerThread} -> Tasks \cup {NoTask}]
  BY DEF IInv, QueueInv, QueueProofs!TypeOK
<1>4. CASE Queue!TakeFront(WorkerThread)
  <2>1. /\ queue # <<>> /\ queue' = Tail(queue)
        /\ popped' = Append(popped, Head(queue)) /\ got'[WorkerThread] = Head(queue)
    BY <1>3, <1>4 DEF Queue!TakeFront
  <2>2. popped' # handled'
    <3>1. Len(popped') = Len(handled) + 1 /\ Len(handled) \in Nat
      BY <1>2, <2>1, LenProperties
    <3>. QED
      BY <1>1, <3>1
  <2>3. handle # "joined"
    BY <1>1 DEF ThreadInv, ThreadProofs!IInv, ThreadProofs!JoinedIsOver, ThreadProofs!Over
  <2>4. Hand = NoTask /\ Hand' = Head(queue)
    BY <1>2, <2>1, <2>2 DEF Hand
  <2>. QED
    BY <1>1, <2>1, <2>3, <2>4 DEF Mail!Next, Mail!Take
<1>5. CASE Queue!FindEmpty(WorkerThread) \/ Queue!PopWait(WorkerThread)
  <2>1. UNCHANGED <<queue, popped, got>>
    BY <1>5 DEF Queue!FindEmpty, Queue!PopWait
  <2>. QED
    BY <1>1, <2>1, MailStutter
<1>. QED
  BY <1>3, <1>4, <1>5 DEF InPop, Queue!PopBegin, Queue!PopResume

(* Whatever a worker does, to its clients it is a step of a mailbox or none.  *)
LEMMA MailStep ==
  ASSUME WorkerAssumption, IInv, ThreadInv, [Next]_vars
  PROVE  [Mail!Next]_(Mail!vars)
<1>1. ASSUME NEW client \in Clients, NEW task \in Tasks, Add(client, task) PROVE Mail!Put(task)
  BY <1>1 DEF Add, Queue!Push, threadVars, Mail!Put, Hand
<1>2. CASE InPop
  BY <1>2, PopTakes
<1>3. CASE RunTask
  <2>1. /\ tpc = "work" /\ pc[WorkerThread] = "idle" /\ handled' = Append(handled, got[WorkerThread])
        /\ UNCHANGED <<queue, popped, got, cancelPending, handle>>
    BY <1>3 DEF RunTask, Thread!EndWork, Thread!ThreadGoes, queueVars
  <2>2. handled \in Seq(Tasks) /\ got[WorkerThread] \in Tasks /\ popped = Append(handled, got[WorkerThread])
    BY <2>1 DEF IInv, HandInv
  <2>3. popped # handled
    <3>1. Len(popped) = Len(handled) + 1 /\ Len(handled) \in Nat
      BY <2>2, LenProperties
    <3>. QED
      BY <3>1
  <2>4. Hand = got[WorkerThread] /\ Hand # NoTask /\ Hand' = NoTask
    BY <2>1, <2>2, <2>3 DEF Hand, WorkerAssumption
  <2>5. handle # "joined"
    BY <2>1 DEF ThreadInv, ThreadProofs!IInv, ThreadProofs!JoinedIsOver, ThreadProofs!Over
  <2>. QED
    BY <2>1, <2>4, <2>5 DEF Mail!Next, Mail!Handle
<1>4. CASE Control
  <2>. UNCHANGED <<queue, popped, got, handled>> /\ Hand' = Hand
    BY <1>4 DEF Control, queueVars, Hand
  <2>1. CASE Thread!SetOnTerminated \/ Thread!TerminateAndWait \/ Thread!WakeToJoin \/ Thread!FireNow
    BY <2>1, MailStutter DEF Thread!SetOnTerminated, Thread!TerminateAndWait, Thread!WakeToJoin, Thread!FireNow
  <2>2. CASE Thread!Terminate
    <3>1. UNCHANGED cancelPending /\ (handle' = "joined") = (handle = "joined")
      BY <2>2 DEF Thread!Terminate
    <3>. QED
      BY <3>1 DEF Mail!vars
  <2>3. CASE Thread!TerminateNow
    <3>1. UNCHANGED handle /\ (cancelPending' = TRUE \/ UNCHANGED cancelPending)
      BY <2>3 DEF Thread!TerminateNow
    <3>. QED
      BY <3>1, Zenon DEF Mail!vars, Mail!Next, Mail!Kill
  <2>4. CASE Thread!Join
    <3>1. CASE handle = "joinable" /\ tpc \in Thread!Over /\ handle' = "joined" /\ UNCHANGED cancelPending
      <4>1. tpc = "exited" => Hand = NoTask
        BY DEF IInv, HandInv, Hand
      <4>2. tpc = "cancelled" => cancelPending
        BY DEF ThreadInv, ThreadProofs!IInv, ThreadProofs!CancelledIsAsked
      <4>3. tpc = "exited" \/ tpc = "cancelled"
        BY <3>1 DEF Thread!Over
      <4>. QED
        BY <3>1, <4>1, <4>2, <4>3 DEF Mail!Next, Mail!Close
    <3>2. CASE UNCHANGED <<handle, cancelPending>>
      BY <3>2, MailStutter
    <3>. QED
      BY <2>4, <3>1, <3>2 DEF Thread!Join
  <2>. QED
    BY <1>4, <2>1, <2>2, <2>3, <2>4 DEF Control
<1>5. ASSUME NEW client \in Clients, AddNotify(client) PROVE UNCHANGED Mail!vars
  BY <1>5, MailStutter DEF AddNotify, Queue!PushNotify, threadVars
<1>6. CASE SetOnTask \/ LoopTest \/ Finish \/ Cancelled
  BY <1>6, MailStutter DEF SetOnTask, LoopTest, Finish, Cancelled, Thread!LoopTest, Thread!Finish,
                           Thread!Cancelled, Thread!ThreadGoes, threadVars, queueVars
<1>7. CASE BeginPop
  BY <1>7, MailStutter DEF BeginPop, Queue!PopCall, Thread!BeginWork, Thread!ThreadGoes
<1>8. CASE WokenInPop
  BY <1>8, MailStutter DEF WokenInPop, Queue!SpuriousWakeup, threadVars
<1>9. CASE UNCHANGED vars
  BY <1>9, MailStutter DEF vars, threadVars, queueVars
<1>. QED
  BY <1>1, <1>2, <1>3, <1>4, <1>5, <1>6, <1>7, <1>8, <1>9 DEF Next, ThreadStep, Mail!Next

(* For any clients, tasks and number of calls, terminateNow() included: a     *)
(* worker is a mailbox.  It takes tasks one at a time, and none once          *)
(* terminateAndWait() has returned (Worker.hpp:45-57, 92-101).               *)
THEOREM WorkerIsMailbox == ASSUME WorkerAssumption PROVE SafeSpec => MailboxSafe
<1>1. WorkerAssumption
  OBVIOUS
<1>2. IInv /\ ThreadInv /\ [Next]_vars => [Mail!Next]_(Mail!vars)
  BY <1>1, MailStep
<1>. QED
  BY <1>2, MailInit, TaskInvHolds, ThreadInvHolds, PTL DEF SafeSpec, MailboxSafe, Mail!SafeSpec

-----------------------------------------------------------------------------
(* The pipe sender.  The thread has a task in hand.                         *)
InHand == tpc = "work" /\ pc[WorkerThread] = "idle"

(* how many tasks have made pipe_ what it is: those that ended, and an open    *)
(* that waits for its reader                                                 *)
Done ==
  Len(handled) + (IF waiting /\ pushed[Len(handled) + 1].kind = "open" THEN 1 ELSE 0)

Alive(p) == \E i \in live : i.of = p

(* p was overwritten by one of the first n tasks *)
LostBy(p, n) ==
  \E k, j \in 1 .. Len(pushed) :
    k < j /\ j <= n /\ LastOpen(p, k, j - 1) /\ pushed[j].kind = "open"

SenderTypes ==
  /\ pending \in [Clients -> Tasks \cup {NoTask}]
  /\ opens \in Pipes
  /\ pipe \in Pipes
  /\ waiting \in BOOLEAN
  /\ \A i \in live : i.of \in Pipes \ {0}
  /\ written \in Seq(Nat \X Pipes)

(* no two tasks open the same instance, and none one that is yet to come *)
UniqueInv ==
  \A p \in Pipes \ {0} :
    /\ \A c \in Clients : pending[c] = OpenTask(p) =>
         /\ p <= opens
         /\ \A d \in Clients : pending[d] = OpenTask(p) => d = c
         /\ \A k \in 1 .. Len(pushed) : pushed[k] # OpenTask(p)
    /\ \A k \in 1 .. Len(pushed) : pushed[k] = OpenTask(p) =>
         /\ p <= opens
         /\ \A j \in 1 .. Len(pushed) : pushed[j] = OpenTask(p) => j = k

(* what is about to be opened exists *)
ComingInv ==
  \A p \in Pipes \ {0} :
    /\ \A c \in Clients : pending[c] = OpenTask(p) => Alive(p)
    /\ \A k \in 1 .. Len(pushed) : k > Done /\ pushed[k] = OpenTask(p) => Alive(p)

(* what exists is about to be opened, is pipe_, or was overwritten *)
PlacesInv ==
  \A p \in Pipes \ {0} : Alive(p) =>
    \/ \E c \in Clients : pending[c] = OpenTask(p)
    \/ \E k \in 1 .. Len(pushed) :
         pushed[k] = OpenTask(p) /\ (k > Done \/ pipe = p \/ LostBy(p, Done))

(* pipe_ is what the last open made it, unless a close came after that *)
PipeInv ==
  pipe # 0 => Alive(pipe) /\ \E j \in 1 .. Done : LastOpen(pipe, j, Done)

(* the thread is blocked in do_open or do_close *)
WaitingInv ==
  waiting =>
    /\ InHand /\ pipe # 0
    /\ got[WorkerThread].kind \in {"open", "close"}
    /\ got[WorkerThread].kind = "open" => got[WorkerThread] = OpenTask(pipe)

WrittenInv ==
  /\ \A i \in DOMAIN written : written[i][1] <= Len(handled)
  /\ SentToItsConnection

(* nobody calls terminateNow *)
CalmInv == ~cancelPending /\ tpc # "cancelled"

SenderInv ==
  /\ CalmInv
  /\ IInv /\ SenderTypes /\ UniqueInv /\ ComingInv /\ PlacesInv /\ PipeInv
  /\ WaitingInv /\ WrittenInv

-----------------------------------------------------------------------------
(* What kinds of tasks there are. *)
LEMMA TaskForms ==
  ASSUME PipeAssumption
  PROVE  /\ \A t \in Tasks : t.kind \in {"open", "close", "send"}
         /\ \A t \in Tasks : t.kind = "open" => \E p \in Pipes \ {0} : t = OpenTask(p)
         /\ \A p \in Pipes \ {0} : OpenTask(p) \in Tasks /\ OpenTask(p).kind = "open" /\ OpenTask(p).of = p
         /\ [kind |-> "close"] \in Tasks /\ [kind |-> "send"] \in Tasks
         /\ [kind |-> "close"].kind = "close" /\ [kind |-> "send"].kind = "send"
<1>1. Tasks = [kind : {"open"}, of : Pipes \ {0}] \cup [kind : {"close", "send"}]
  BY DEF PipeAssumption, PipeTasks
<1>2. \A t \in Tasks : t.kind \in {"open", "close", "send"}
  BY <1>1
<1>3. \A t \in Tasks : t.kind = "open" => \E p \in Pipes \ {0} : t = OpenTask(p)
  <2>. SUFFICES ASSUME NEW t \in Tasks, t.kind = "open" PROVE \E p \in Pipes \ {0} : t = OpenTask(p)
    OBVIOUS
  <2>1. t \in [kind : {"open"}, of : Pipes \ {0}]
    BY <1>1
  <2>. QED
    BY <2>1 DEF OpenTask
<1>4. \A p \in Pipes \ {0} : OpenTask(p) \in Tasks /\ OpenTask(p).kind = "open" /\ OpenTask(p).of = p
  BY <1>1 DEF OpenTask
<1>5. [kind |-> "close"] \in Tasks /\ [kind |-> "send"] \in Tasks
  BY <1>1
<1>. QED
  BY <1>2, <1>3, <1>4, <1>5

(* The types of what the pipe sender reads, and where the task in hand stands. *)
LEMMA SenderFacts ==
  ASSUME PipeAssumption, SenderInv
  PROVE  /\ pushed \in Seq(Tasks) /\ Len(pushed) \in Nat
         /\ \A k \in 1 .. Len(pushed) : pushed[k] \in Tasks
         /\ handled \in Seq(Tasks) /\ Len(handled) \in Nat /\ Len(handled) <= Len(pushed)
         /\ InHand => /\ got[WorkerThread] \in Tasks
                      /\ Len(handled) + 1 <= Len(pushed)
                      /\ pushed[Len(handled) + 1] = got[WorkerThread]
         /\ Done \in Nat /\ Done <= Len(pushed)
         /\ Done \in {Len(handled), Len(handled) + 1}
         /\ ~waiting => Done = Len(handled)
         /\ pc \in [Clients \cup {WorkerThread} -> {"idle", "unlocked", "entering", "mustWait", "waiting", "woken"}]
         /\ WorkerThread \notin Clients
         /\ NoTask \notin Tasks
         /\ MaxAdds \in Nat /\ 0 \in Pipes
<1>1. QueueInv /\ HandInv /\ WaitingInv
  BY DEF SenderInv, IInv
<1>2. /\ pushed \in Seq(Tasks) /\ popped \in Seq(Tasks) /\ queue \in Seq(Tasks)
      /\ popped \o queue = pushed
      /\ pc \in [Clients \cup {WorkerThread} -> {"idle", "unlocked", "entering", "mustWait", "waiting", "woken"}]
  BY <1>1 DEF QueueInv, QueueProofs!TypeOK, QueueProofs!FifoNoLoss, QueueProofs!ProducerStates, QueueProofs!ConsumerStates
<1>3. handled \in Seq(Tasks)
  BY <1>1 DEF HandInv
<1>4. Len(pushed) \in Nat /\ Len(popped) \in Nat /\ Len(queue) \in Nat /\ Len(handled) \in Nat
  BY <1>2, <1>3, LenProperties
<1>5. \A k \in 1 .. Len(pushed) : pushed[k] \in Tasks
  BY <1>2, <1>4, ElementOfSeq
<1>6. Len(pushed) = Len(popped) + Len(queue) /\ \A k \in 1 .. Len(popped) : pushed[k] = popped[k]
  BY <1>2, <1>4, ConcatProperties
<1>7. Len(Append(handled, got[WorkerThread])) = Len(handled) + 1
  BY <1>3, <1>4
<1>8. Len(handled) <= Len(pushed)
  BY <1>1, <1>4, <1>6, <1>7 DEF HandInv
<1>9. ASSUME InHand
      PROVE  /\ got[WorkerThread] \in Tasks
             /\ Len(handled) + 1 <= Len(pushed)
             /\ pushed[Len(handled) + 1] = got[WorkerThread]
  <2>1. got[WorkerThread] \in Tasks /\ popped = Append(handled, got[WorkerThread])
    BY <1>1, <1>9 DEF HandInv, InHand
  <2>2. popped[Len(handled) + 1] = got[WorkerThread] /\ Len(popped) = Len(handled) + 1
    BY <1>3, <1>4, <2>1, AppendProperties
  <2>. QED
    BY <1>4, <1>6, <2>1, <2>2
<1>10. Done \in Nat /\ Done <= Len(pushed) /\ Done \in {Len(handled), Len(handled) + 1} /\ (~waiting => Done = Len(handled))
  BY <1>1, <1>4, <1>8, <1>9 DEF Done, WaitingInv
<1>11. MaxAdds \in Nat /\ WorkerThread \notin Clients /\ NoTask \notin Tasks /\ 0 \in Pipes
  BY DEF PipeAssumption, WorkerAssumption, Pipes
<1>. QED
  BY <1>2, <1>3, <1>4, <1>5, <1>8, <1>9, <1>10, <1>11

(* The pipe sender uses its worker as the worker is: each of its steps is one  *)
(* of the worker's, or invisible to it.                                      *)
LEMMA WorkerMoves ==
  ASSUME PipeAssumption, SenderInv, [SenderNext]_senderVars
  PROVE  [Next]_vars
<1>1. CASE Construct
  BY <1>1 DEF Construct, Next
<1>2. ASSUME NEW c \in Clients, (\E name \in Names : Open(c, name)) \/ Close(c) \/ Send(c)
      PROVE  UNCHANGED vars
  BY <1>2 DEF Open, Close, Send, Calls
<1>3. ASSUME NEW c \in Clients, AddTask(c)
      PROVE  Next
  <2>1. pending[c] \in Tasks /\ Add(c, pending[c])
    BY <1>3 DEF AddTask, SenderInv, SenderTypes
  <2>. QED
    BY <2>1 DEF Next
<1>4. ASSUME NEW c \in Clients, NotifyTask(c)
      PROVE  Next
  BY <1>4 DEF NotifyTask, Next
<1>5. CASE ThreadIdle \/ ThreadWoken
  BY <1>5 DEF ThreadIdle, ThreadWoken, Next, ThreadStep
<1>6. CASE OpenBegin \/ CloseBegin \/ \E p \in Pipes : Reader(p)
  BY <1>6 DEF OpenBegin, CloseBegin, Blocks, Reader
<1>7. CASE OpenEnd \/ OpenTooLate \/ OpenFails \/ CloseEnd \/ CloseNothing \/ DoSend
  BY <1>7 DEF OpenEnd, OpenTooLate, OpenFails, Unconnected, CloseEnd, CloseNothing, DoSend, Returns,
              Next, ThreadStep
<1>8. CASE Destroy
  BY <1>8 DEF Destroy, Control, Next
<1>9. CASE UNCHANGED senderVars
  BY <1>9 DEF senderVars
<1>. QED
  BY <1>1, <1>2, <1>3, <1>4, <1>5, <1>6, <1>7, <1>8, <1>9 DEF SenderNext, SenderStep, CallerStep

-----------------------------------------------------------------------------
(* The step lemmas: what each kind of step leaves of the invariant. *)
StillHolds ==
  /\ SenderTypes' /\ UniqueInv' /\ ComingInv' /\ PlacesInv' /\ PipeInv'
  /\ WaitingInv' /\ WrittenInv'

senderView == <<pushed, handled, pending, opens, live, pipe, waiting, written>>

(* Steps of the thread between tasks, of the readers and of the destructor. *)
LEMMA QuietStep ==
  ASSUME PipeAssumption, SenderInv, UNCHANGED senderView,
         waiting => InHand' /\ got'[WorkerThread] = got[WorkerThread]
  PROVE  StillHolds
<1>1. Done' = Done
  BY DEF Done, senderView
<1>2. SenderTypes' /\ UniqueInv'
  BY DEF SenderInv, SenderTypes, UniqueInv, senderView
<1>3. ComingInv'
  BY <1>1 DEF SenderInv, ComingInv, Alive, senderView
<1>4. PlacesInv'
  BY <1>1 DEF SenderInv, PlacesInv, Alive, LostBy, LastOpen, senderView
<1>5. PipeInv'
  BY <1>1 DEF SenderInv, PipeInv, Alive, LastOpen, senderView
<1>6. WaitingInv' /\ WrittenInv'
  BY DEF SenderInv, WaitingInv, WrittenInv, SentToItsConnection, LastOpen, senderView
<1>. QED
  BY <1>2, <1>3, <1>4, <1>5, <1>6 DEF StillHolds

(* open(), up to worker_.add: an instance that no task has opened before. *)
LEMMA OpenStep ==
  ASSUME PipeAssumption, SenderInv, NEW c \in Clients, NEW name \in Names, Open(c, name)
  PROVE  StillHolds
<1>0. PICK q : q = opens + 1
  OBVIOUS
<1>1. /\ opens' = q /\ live' = live \cup {[of |-> q, name |-> name]} /\ opens < MaxAdds
      /\ pending[c] = NoTask /\ pending' = [pending EXCEPT ![c] = OpenTask(q)]
      /\ UNCHANGED <<pushed, handled, got, pc, tpc, pipe, waiting, written>>
  BY <1>0 DEF Open, Calls, vars, threadVars, queueVars
<1>2. /\ pending \in [Clients -> Tasks \cup {NoTask}] /\ opens \in Nat /\ MaxAdds \in Nat
      /\ Pipes = 0 .. MaxAdds
  BY SenderFacts DEF SenderInv, SenderTypes, Pipes
<1>3. q \in Pipes \ {0} /\ q \in Nat /\ q > opens
  BY <1>0, <1>1, <1>2
<1>4. OpenTask(q) \in Tasks /\ \A p \in Pipes \ {0} : OpenTask(p) = OpenTask(q) => p = q
  BY <1>3, TaskForms
<1>5. /\ pending'[c] = OpenTask(q)
      /\ \A d \in Clients : d # c => pending'[d] = pending[d]
  BY <1>1, <1>2
<1>6. Done' = Done
  BY <1>1 DEF Done
<1>7. Alive(q)' /\ \A p : Alive(p) => Alive(p)'
  <2>1. [of |-> q, name |-> name] \in live' /\ [of |-> q, name |-> name].of = q /\ live \subseteq live'
    BY <1>1
  <2>. QED
    BY <2>1 DEF Alive
<1>8. ASSUME NEW p, Alive(p)'
      PROVE  Alive(p) \/ p = q
  <2>1. PICK i \in live' : i.of = p
    BY <1>8 DEF Alive
  <2>2. CASE i \in live
    BY <2>1, <2>2 DEF Alive
  <2>3. CASE i = [of |-> q, name |-> name]
    BY <2>1, <2>3
  <2>. QED
    BY <1>1, <2>1, <2>2, <2>3
<1>9. SenderTypes'
  BY <1>1, <1>2, <1>3, <1>4 DEF SenderInv, SenderTypes
<1>10. UniqueInv'
  <2>. SUFFICES ASSUME NEW p \in Pipes \ {0}
               PROVE  /\ \A d \in Clients : pending'[d] = OpenTask(p) =>
                           /\ p <= q
                           /\ \A e \in Clients : pending'[e] = OpenTask(p) => e = d
                           /\ \A k \in 1 .. Len(pushed) : pushed[k] # OpenTask(p)
                      /\ \A k \in 1 .. Len(pushed) : pushed[k] = OpenTask(p) =>
                           /\ p <= q
                           /\ \A j \in 1 .. Len(pushed) : pushed[j] = OpenTask(p) => j = k
    BY <1>1 DEF UniqueInv
  <2>1. CASE p = q
    <3>1. ~(p <= opens) /\ p <= q
      BY <1>2, <1>3, <2>1
    <3>2. /\ \A d \in Clients : pending[d] # OpenTask(p)
          /\ \A k \in 1 .. Len(pushed) : pushed[k] # OpenTask(p)
      BY <3>1 DEF SenderInv, UniqueInv
    <3>. QED
      BY <1>5, <3>1, <3>2
  <2>2. CASE p # q
    <3>1. \A d \in Clients : pending'[d] = OpenTask(p) <=> pending[d] = OpenTask(p) /\ d # c
      BY <1>4, <1>5, <2>2
    <3>2. p <= opens => p <= q
      BY <1>1, <1>2, <1>3
    <3>. QED
      BY <3>1, <3>2 DEF SenderInv, UniqueInv
  <2>. QED
    BY <2>1, <2>2
<1>11. ComingInv'
  <2>. SUFFICES ASSUME NEW p \in Pipes \ {0}
               PROVE  /\ \A d \in Clients : pending'[d] = OpenTask(p) => Alive(p)'
                      /\ \A k \in 1 .. Len(pushed) : k > Done /\ pushed[k] = OpenTask(p) => Alive(p)'
    BY <1>1, <1>6 DEF ComingInv
  <2>. QED
    BY <1>4, <1>5, <1>7 DEF SenderInv, ComingInv
<1>12. PlacesInv'
  <2>. SUFFICES ASSUME NEW p \in Pipes \ {0}, Alive(p)'
               PROVE  \/ \E d \in Clients : pending'[d] = OpenTask(p)
                      \/ \E k \in 1 .. Len(pushed) :
                           pushed[k] = OpenTask(p) /\ (k > Done \/ pipe = p \/ LostBy(p, Done))
    BY <1>1, <1>6 DEF PlacesInv, LostBy, LastOpen
  <2>1. CASE p = q
    BY <1>5, <2>1
  <2>2. CASE Alive(p)
    <3>1. ASSUME NEW d \in Clients, pending[d] = OpenTask(p)
          PROVE  pending'[d] = OpenTask(p)
      <4>1. OpenTask(p) # NoTask
        BY TaskForms, SenderFacts
      <4>. QED
        BY <1>1, <1>5, <3>1, <4>1
    <3>. QED
      BY <2>2, <3>1 DEF SenderInv, PlacesInv
  <2>. QED
    BY <1>8, <2>1, <2>2
<1>13. PipeInv'
  BY <1>1, <1>6, <1>7 DEF SenderInv, PipeInv, LastOpen
<1>14. WaitingInv' /\ WrittenInv'
  BY <1>1 DEF SenderInv, WaitingInv, InHand, WrittenInv, SentToItsConnection, LastOpen
<1>. QED
  BY <1>9, <1>10, <1>11, <1>12, <1>13, <1>14 DEF StillHolds

(* close() and send(), up to worker_.add. *)
LEMMA CallStep ==
  ASSUME PipeAssumption, SenderInv, NEW c \in Clients, Close(c) \/ Send(c)
  PROVE  StillHolds
<1>1. PICK task \in Tasks :
        /\ task.kind # "open"
        /\ pending' = [pending EXCEPT ![c] = task] /\ pending[c] = NoTask
  BY TaskForms DEF Close, Send, Calls
<1>2. /\ UNCHANGED <<pushed, handled, got, pc, tpc, opens, live, pipe, waiting, written>>
      /\ pending \in [Clients -> Tasks \cup {NoTask}]
  BY DEF Close, Send, Calls, vars, threadVars, queueVars, pipeVars, SenderInv, SenderTypes
<1>3. \A d \in Clients, p \in Pipes \ {0} : pending'[d] = OpenTask(p) <=> pending[d] = OpenTask(p)
  <2>1. \A p \in Pipes \ {0} : OpenTask(p) # NoTask /\ OpenTask(p) # task
    BY <1>1, TaskForms, SenderFacts
  <2>. QED
    BY <1>1, <1>2, <2>1
<1>4. Done' = Done
  BY <1>2 DEF Done
<1>5. SenderTypes'
  BY <1>1, <1>2 DEF SenderInv, SenderTypes
<1>6. UniqueInv'
  BY <1>2, <1>3 DEF SenderInv, UniqueInv
<1>7. ComingInv'
  BY <1>2, <1>3, <1>4 DEF SenderInv, ComingInv, Alive
<1>8. PlacesInv'
  BY <1>2, <1>3, <1>4 DEF SenderInv, PlacesInv, Alive, LostBy, LastOpen
<1>9. PipeInv'
  BY <1>2, <1>4 DEF SenderInv, PipeInv, Alive, LastOpen
<1>10. WaitingInv' /\ WrittenInv'
  BY <1>2 DEF SenderInv, WaitingInv, InHand, WrittenInv, SentToItsConnection, LastOpen
<1>. QED
  BY <1>5, <1>6, <1>7, <1>8, <1>9, <1>10 DEF StillHolds

(* worker_.add: a task goes from its caller behind all that were queued. *)
LEMMA AddStep ==
  ASSUME PipeAssumption, SenderInv, NEW c \in Clients, AddTask(c)
  PROVE  StillHolds
<1>. DEFINE task == pending[c]
            n == Len(pushed) + 1
<1>1. /\ task \in Tasks
      /\ pushed' = Append(pushed, task)
      /\ pending' = [pending EXCEPT ![c] = NoTask]
      /\ UNCHANGED <<handled, got, tpc, opens, live, pipe, waiting, written>>
      /\ pc' = [pc EXCEPT ![c] = "unlocked"]
  BY DEF AddTask, Add, Queue!Push, threadVars, pipeVars, SenderInv, SenderTypes
<1>2. /\ pending \in [Clients -> Tasks \cup {NoTask}]
      /\ pending'[c] = NoTask
      /\ \A d \in Clients : d # c => pending'[d] = pending[d]
  BY <1>1 DEF SenderInv, SenderTypes
<1>3. /\ Len(pushed') = n /\ n \in Nat /\ Len(pushed) \in Nat
      /\ pushed'[n] = task
      /\ \A k \in 1 .. Len(pushed) : pushed'[k] = pushed[k]
  BY <1>1, SenderFacts, AppendProperties
<1>4. \A k \in 1 .. n : k \in 1 .. Len(pushed) \/ k = n
  BY <1>3
<1>5. Done' = Done /\ Done \in Nat /\ Done <= Len(pushed)
  <2>1. waiting => Len(handled) + 1 \in 1 .. Len(pushed)
    BY SenderFacts DEF SenderInv, WaitingInv
  <2>. QED
    BY <1>1, <1>3, <2>1, SenderFacts DEF Done
<1>6. ASSUME NEW p, NEW j \in 1 .. Len(pushed), NEW m \in 0 .. Len(pushed), LastOpen(p, j, m)
      PROVE  LastOpen(p, j, m)'
  <2>1. \A i \in j + 1 .. m : i \in 1 .. Len(pushed)
    BY <1>3
  <2>. QED
    BY <1>3, <1>6, <2>1 DEF LastOpen
<1>7. \A p \in Pipes \ {0} : OpenTask(p) # NoTask
  BY TaskForms, SenderFacts
<1>8. SenderTypes'
  BY <1>1, <1>2 DEF SenderInv, SenderTypes
<1>9. \A p : Alive(p)' <=> Alive(p)
  BY <1>1 DEF Alive
<1>. HIDE DEF task, n
<1>10. UniqueInv'
  <2>. SUFFICES ASSUME NEW p \in Pipes \ {0}
               PROVE  /\ \A d \in Clients : pending'[d] = OpenTask(p) =>
                           /\ p <= opens
                           /\ \A e \in Clients : pending'[e] = OpenTask(p) => e = d
                           /\ \A k \in 1 .. n : pushed'[k] # OpenTask(p)
                      /\ \A k \in 1 .. n : pushed'[k] = OpenTask(p) =>
                           /\ p <= opens
                           /\ \A j \in 1 .. n : pushed'[j] = OpenTask(p) => j = k
    BY <1>1, <1>3 DEF UniqueInv
  <2>0. /\ \A d \in Clients : pending[d] = OpenTask(p) =>
              /\ p <= opens
              /\ \A e \in Clients : pending[e] = OpenTask(p) => e = d
              /\ \A k \in 1 .. Len(pushed) : pushed[k] # OpenTask(p)
        /\ \A k \in 1 .. Len(pushed) : pushed[k] = OpenTask(p) =>
              /\ p <= opens
              /\ \A j \in 1 .. Len(pushed) : pushed[j] = OpenTask(p) => j = k
    BY DEF SenderInv, UniqueInv
  <2>1. CASE task = OpenTask(p)
    <3>1. \A d \in Clients : pending'[d] # OpenTask(p)
      BY <1>2, <1>7, <2>0, <2>1 DEF task
    <3>2. \A k \in 1 .. n : pushed'[k] = OpenTask(p) => k = n
      BY <1>3, <1>4, <2>0, <2>1 DEF task
    <3>. QED
      BY <2>0, <2>1, <3>1, <3>2 DEF task
  <2>2. CASE task # OpenTask(p)
    <3>1. \A d \in Clients : pending'[d] = OpenTask(p) => pending[d] = OpenTask(p)
      BY <1>2, <1>7
    <3>2. \A k \in 1 .. n : pushed'[k] = OpenTask(p) => k \in 1 .. Len(pushed) /\ pushed[k] = OpenTask(p)
      BY <1>3, <1>4, <2>2
    <3>. QED
      BY <2>0, <3>1, <3>2
  <2>. QED
    BY <2>1, <2>2
<1>11. ComingInv'
  <2>. SUFFICES ASSUME NEW p \in Pipes \ {0}
               PROVE  /\ \A d \in Clients : pending'[d] = OpenTask(p) => Alive(p)
                      /\ \A k \in 1 .. n : k > Done /\ pushed'[k] = OpenTask(p) => Alive(p)
    BY <1>3, <1>5, <1>9 DEF ComingInv
  <2>1. \A d \in Clients : pending[d] = OpenTask(p) => Alive(p)
    BY DEF SenderInv, ComingInv
  <2>2. \A k \in 1 .. Len(pushed) : k > Done /\ pushed[k] = OpenTask(p) => Alive(p)
    BY DEF SenderInv, ComingInv
  <2>3. \A d \in Clients : pending'[d] = OpenTask(p) => pending[d] = OpenTask(p)
    BY <1>2, <1>7
  <2>. QED
    BY <1>3, <1>4, <2>1, <2>2, <2>3 DEF task
<1>12. PlacesInv'
  <2>. SUFFICES ASSUME NEW p \in Pipes \ {0}, Alive(p)
               PROVE  \/ \E d \in Clients : pending'[d] = OpenTask(p)
                      \/ \E k \in 1 .. n :
                           pushed'[k] = OpenTask(p) /\ (k > Done \/ pipe = p \/ LostBy(p, Done)')
    BY <1>1, <1>3, <1>5, <1>9 DEF PlacesInv
  <2>1. ASSUME NEW d \in Clients, pending[d] = OpenTask(p)
        PROVE  \/ pending'[d] = OpenTask(p)
               \/ n \in 1 .. n /\ pushed'[n] = OpenTask(p) /\ n > Done
    BY <1>2, <1>3, <1>5, <2>1 DEF task, n
  <2>2. ASSUME NEW k \in 1 .. Len(pushed), pushed[k] = OpenTask(p), k > Done \/ pipe = p \/ LostBy(p, Done)
        PROVE  k \in 1 .. n /\ pushed'[k] = OpenTask(p) /\ (k > Done \/ pipe = p \/ LostBy(p, Done)')
    <3>1. k \in 1 .. n /\ pushed'[k] = OpenTask(p)
      BY <1>3, <2>2 DEF n
    <3>2. LostBy(p, Done) => LostBy(p, Done)'
      <4>. SUFFICES ASSUME NEW i \in 1 .. Len(pushed), NEW j \in 1 .. Len(pushed), i < j, j <= Done,
                          LastOpen(p, i, j - 1), pushed[j].kind = "open"
                   PROVE  LostBy(p, Done)'
        BY DEF LostBy
      <4>1. j - 1 \in 0 .. Len(pushed) /\ i \in 1 .. n /\ j \in 1 .. n
        BY <1>3 DEF n
      <4>2. LastOpen(p, i, j - 1)' /\ pushed'[j].kind = "open"
        BY <1>3, <1>6, <4>1
      <4>. QED
        BY <1>3, <1>5, <4>1, <4>2 DEF LostBy
    <3>. QED
      BY <2>2, <3>1, <3>2
  <2>. QED
    BY <2>1, <2>2 DEF SenderInv, PlacesInv
<1>13. PipeInv'
  <2>. SUFFICES ASSUME pipe # 0 PROVE Alive(pipe) /\ \E j \in 1 .. Done : LastOpen(pipe, j, Done)'
    BY <1>1, <1>5, <1>9 DEF PipeInv, Alive
  <2>1. PICK j \in 1 .. Done : LastOpen(pipe, j, Done)
    BY DEF SenderInv, PipeInv
  <2>2. LastOpen(pipe, j, Done)'
    <3>1. j \in 1 .. Len(pushed) /\ Done \in 0 .. Len(pushed)
      BY <1>3, <1>5
    <3>2. \A i \in j + 1 .. Done : i \in 1 .. Len(pushed)
      BY <1>3, <1>5
    <3>. QED
      BY <1>1, <1>3, <1>5, <2>1, <3>1, <3>2 DEF LastOpen
  <2>. QED
    BY <2>2 DEF SenderInv, PipeInv
<1>14. WaitingInv'
  <2>1. InHand' <=> InHand
    BY <1>1, SenderFacts DEF InHand
  <2>. QED
    BY <1>1, <2>1 DEF SenderInv, WaitingInv
<1>15. WrittenInv'
  <2>1. \A i \in DOMAIN written : written[i] \in Nat \X Pipes
    BY DEF SenderInv, SenderTypes
  <2>2. ASSUME NEW i \in DOMAIN written
        PROVE  \E j \in 1 .. written[i][1] - 1 : LastOpen(written[i][2], j, written[i][1] - 1)'
    <3>1. written[i][1] \in Nat /\ written[i][1] <= Len(pushed)
      BY <2>1, SenderFacts DEF SenderInv, WrittenInv
    <3>2. PICK j \in 1 .. written[i][1] - 1 : LastOpen(written[i][2], j, written[i][1] - 1)
      BY DEF SenderInv, WrittenInv, SentToItsConnection
    <3>3. j \in 1 .. Len(pushed) /\ written[i][1] - 1 \in 0 .. Len(pushed)
      BY <1>3, <3>1
    <3>4. \A m \in j + 1 .. written[i][1] - 1 : m \in 1 .. Len(pushed)
      BY <1>3, <3>1
    <3>. QED
      BY <1>1, <1>3, <3>2, <3>3, <3>4 DEF LastOpen
  <2>. QED
    BY <1>1, <2>2 DEF SenderInv, WrittenInv, SentToItsConnection, LastOpen
<1>. QED
  BY <1>8, <1>10, <1>11, <1>12, <1>13, <1>14, <1>15 DEF StillHolds

-----------------------------------------------------------------------------
(* What is overwritten stays so. *)
LEMMA LostGrows ==
  ASSUME NEW p, NEW n \in Nat, NEW m \in Nat, n <= m, LostBy(p, n), Len(pushed) \in Nat
  PROVE  LostBy(p, m)
BY DEF LostBy

(* A step of a task: it leaves the queued tasks, closes only what has begun, and *)
(* pipe_ changes as the tasks that have begun say.                           *)
LEMMA TaskMoves ==
  ASSUME PipeAssumption, SenderInv, UNCHANGED <<pushed, pending, opens>>,
         Done' \in {Done, Done + 1}, Done' <= Len(pushed),
         live' \subseteq live,
         \A p \in Pipes \ {0} : Alive(p) /\ ~Alive(p)' =>
           \E k \in 1 .. Len(pushed) : k <= Done' /\ pushed[k] = OpenTask(p),
         \A p \in Pipes \ {0} : Alive(p)' /\ pipe = p /\ pipe' # p =>
           Done' = Done + 1 /\ pushed[Done + 1].kind = "open",
         \A p \in Pipes \ {0} : Done' = Done + 1 /\ pushed[Done + 1] = OpenTask(p) /\ Alive(p)' =>
           pipe' = p
  PROVE  UniqueInv' /\ ComingInv' /\ PlacesInv'
<1>1. Done \in Nat /\ Done' \in Nat /\ Done <= Done' /\ Len(pushed) \in Nat
  BY SenderFacts
<1>2. \A p : Alive(p)' => Alive(p)
  BY DEF Alive
<1>3. UniqueInv'
  BY DEF SenderInv, UniqueInv
<1>4. ComingInv'
  <2>. SUFFICES ASSUME NEW p \in Pipes \ {0}
               PROVE  /\ \A c \in Clients : pending[c] = OpenTask(p) => Alive(p)'
                      /\ \A k \in 1 .. Len(pushed) : k > Done' /\ pushed[k] = OpenTask(p) => Alive(p)'
    BY DEF ComingInv
  <2>1. ASSUME NEW c \in Clients, pending[c] = OpenTask(p)
        PROVE  Alive(p)'
    BY <2>1 DEF SenderInv, UniqueInv, ComingInv
  <2>2. ASSUME NEW k \in 1 .. Len(pushed), k > Done', pushed[k] = OpenTask(p)
        PROVE  Alive(p)'
    <3>1. Alive(p) /\ \A j \in 1 .. Len(pushed) : pushed[j] = OpenTask(p) => j = k
      BY <1>1, <2>2 DEF SenderInv, UniqueInv, ComingInv
    <3>. QED
      BY <1>1, <2>2, <3>1
  <2>. QED
    BY <2>1, <2>2
<1>5. PlacesInv'
  <2>. SUFFICES ASSUME NEW p \in Pipes \ {0}, Alive(p)',
                      NEW k \in 1 .. Len(pushed), pushed[k] = OpenTask(p),
                      k > Done \/ pipe = p \/ LostBy(p, Done)
               PROVE  k > Done' \/ pipe' = p \/ LostBy(p, Done')
    BY <1>2 DEF SenderInv, PlacesInv, LostBy, LastOpen
  <2>1. CASE k > Done
    <3>1. k > Done' \/ (Done' = Done + 1 /\ k = Done + 1)
      BY <1>1, <2>1
    <3>. QED
      BY <3>1
  <2>2. CASE LostBy(p, Done)
    BY <1>1, <2>2, LostGrows
  <2>3. CASE pipe = p /\ pipe' # p
    <3>1. Done' = Done + 1 /\ pushed[Done + 1].kind = "open"
      BY <2>3
    <3>2. PICK j \in 1 .. Done : LastOpen(p, j, Done)
      BY <2>3 DEF SenderInv, PipeInv
    <3>3. j \in 1 .. Len(pushed) /\ Done + 1 \in 1 .. Len(pushed) /\ j < Done + 1 /\ (Done + 1) - 1 = Done
      BY <1>1, <3>1
    <3>. QED
      BY <1>1, <3>1, <3>2, <3>3 DEF LostBy
  <2>. QED
    BY <2>1, <2>2, <2>3
<1>. QED
  BY <1>3, <1>4, <1>5

(* CloseHandle leaves every other instance as it was. *)
LEMMA CloseOne ==
  ASSUME NEW p, CloseHandle(p)
  PROVE  /\ pipe' = 0 /\ live' \subseteq live /\ ~Alive(p)'
         /\ \A q : q # p /\ Alive(q) => Alive(q)'
BY DEF CloseHandle, Alive

(* do_open before it waits: what pipe_ held is overwritten. *)
LEMMA OpenBeginStep ==
  ASSUME PipeAssumption, SenderInv, OpenBegin
  PROVE  StillHolds
<1>0. PICK h : h = Len(handled)
  OBVIOUS
<1>1. /\ InHand /\ got[WorkerThread].kind = "open" /\ ~waiting /\ waiting' = TRUE
      /\ pipe' = got[WorkerThread].of
      /\ UNCHANGED <<pushed, handled, got, pc, tpc, pending, opens, live, written>>
  BY DEF OpenBegin, Running, Blocks, InHand, vars, threadVars, queueVars
<1>2. /\ h \in Nat /\ h + 1 \in 1 .. Len(pushed) /\ Len(pushed) \in Nat
      /\ pushed[h + 1] = got[WorkerThread] /\ got[WorkerThread] \in Tasks
      /\ Done = h /\ h = Len(handled)
  BY <1>0, <1>1, SenderFacts
<1>3. PICK q \in Pipes \ {0} : got[WorkerThread] = OpenTask(q)
  BY <1>1, <1>2, TaskForms
<1>4. pipe' = q /\ pushed[h + 1].kind = "open" /\ \A p \in Pipes \ {0} : pushed[h + 1] = OpenTask(p) => p = q
  BY <1>1, <1>2, <1>3, TaskForms
<1>5. Done' = h + 1
  BY <1>1, <1>2, <1>4 DEF Done
<1>6. Alive(q)
  BY <1>2, <1>3 DEF SenderInv, ComingInv
<1>7. \A p : Alive(p)' <=> Alive(p)
  BY <1>1 DEF Alive
<1>8. UniqueInv' /\ ComingInv' /\ PlacesInv'
  BY <1>1, <1>2, <1>4, <1>5, <1>7, TaskMoves
<1>9. PipeInv'
  <2>1. LastOpen(q, h + 1, h + 1)'
    BY <1>1, <1>2, <1>3 DEF LastOpen
  <2>2. h + 1 \in 1 .. h + 1 /\ Alive(q)'
    BY <1>2, <1>6, <1>7
  <2>. QED
    BY <1>4, <1>5, <2>1, <2>2 DEF PipeInv, Alive, LastOpen
<1>10. SenderTypes'
  BY <1>1, <1>4 DEF SenderInv, SenderTypes
<1>11. WaitingInv'
  <2>1. InHand' /\ pipe' # 0
    BY <1>1, <1>3, <1>4 DEF InHand
  <2>. QED
    BY <1>1, <1>3, <1>4, <2>1 DEF WaitingInv
<1>12. WrittenInv'
  BY <1>1 DEF SenderInv, WrittenInv, SentToItsConnection, LastOpen
<1>. QED
  BY <1>8, <1>9, <1>10, <1>11, <1>12 DEF StillHolds

(* do_close before it waits. *)
LEMMA CloseBeginStep ==
  ASSUME PipeAssumption, SenderInv, CloseBegin
  PROVE  StillHolds
<1>1. /\ InHand /\ got[WorkerThread].kind = "close" /\ ~waiting /\ waiting' = TRUE
      /\ pipe # 0
      /\ UNCHANGED <<pushed, handled, got, pc, tpc, pending, opens, live, pipe, written>>
  BY DEF CloseBegin, Running, Blocks, InHand, vars, threadVars, queueVars
<1>2. Done' = Done
  BY <1>1, SenderFacts DEF Done
<1>3. \A p : Alive(p)' <=> Alive(p)
  BY <1>1 DEF Alive
<1>4. UniqueInv' /\ ComingInv' /\ PlacesInv'
  BY <1>1, <1>2, <1>3, SenderFacts, TaskMoves
<1>5. SenderTypes' /\ WaitingInv' /\ WrittenInv'
  BY <1>1 DEF SenderInv, SenderTypes, WaitingInv, InHand, WrittenInv, SentToItsConnection, LastOpen
<1>6. PipeInv'
  BY <1>1, <1>2, <1>3 DEF SenderInv, PipeInv, LastOpen
<1>. QED
  BY <1>4, <1>5, <1>6 DEF StillHolds

(* A task ends: it is the one handled next, and Done counts it.              *)
LEMMA TaskEnds ==
  ASSUME PipeAssumption, SenderInv, Returns, NEW kind, Running(kind), UNCHANGED <<pending, opens>>
  PROVE  /\ InHand /\ UNCHANGED <<pushed, pending, opens>> /\ waiting' = FALSE
         /\ Len(handled') = Len(handled) + 1 /\ Done' = Len(handled) + 1
         /\ Len(handled) + 1 \in 1 .. Len(pushed) /\ Len(pushed) \in Nat /\ Len(handled) \in Nat
         /\ pushed[Len(handled) + 1] = got[WorkerThread] /\ got[WorkerThread] \in Tasks
         /\ pushed[Len(handled) + 1].kind = kind
         /\ WaitingInv'
         /\ Done = Len(handled) + (IF waiting /\ kind = "open" THEN 1 ELSE 0)
         /\ kind \in {"close", "send"} => Done = Len(handled)
<1>1. /\ InHand /\ UNCHANGED <<pushed, pending, opens>> /\ waiting' = FALSE
      /\ handled' = Append(handled, got[WorkerThread])
      /\ got[WorkerThread].kind = kind
  BY DEF Running, Returns, RunTask, InHand, queueVars
<1>2. /\ handled \in Seq(Tasks) /\ Len(handled) \in Nat /\ Len(pushed) \in Nat
      /\ Len(handled) + 1 <= Len(pushed) /\ pushed[Len(handled) + 1] = got[WorkerThread]
      /\ got[WorkerThread] \in Tasks
  BY <1>1, SenderFacts
<1>3. Len(handled') = Len(handled) + 1
  BY <1>1, <1>2, AppendProperties
<1>4. Done' = Len(handled) + 1 /\ Done = Len(handled) + (IF waiting /\ kind = "open" THEN 1 ELSE 0)
  BY <1>1, <1>2, <1>3 DEF Done
<1>5. WaitingInv'
  BY <1>1 DEF WaitingInv
<1>6. kind \in {"close", "send"} => Done = Len(handled)
  BY <1>2, <1>4
<1>. QED
  BY <1>1, <1>2, <1>3, <1>4, <1>5, <1>6

(* What was written stays where it was written. *)
LEMMA WrittenStays ==
  ASSUME SenderInv, UNCHANGED <<pushed, written>>, Len(handled') = Len(handled) + 1, Len(handled) \in Nat
  PROVE  WrittenInv'
<1>1. \A i \in DOMAIN written : written[i][1] \in Nat
  BY DEF SenderInv, SenderTypes
<1>. QED
  BY <1>1 DEF SenderInv, WrittenInv, SentToItsConnection, LastOpen

(* do_open after it waited, and do_open that found its reader too early. *)
LEMMA OpenEndsStep ==
  ASSUME PipeAssumption, SenderInv, OpenEnd \/ OpenTooLate \/ OpenFails
  PROVE  StillHolds
<1>0. PICK h : h = Len(handled)
  OBVIOUS
<1>1. Returns /\ Running("open") /\ UNCHANGED <<pending, opens, written>>
  BY DEF OpenEnd, OpenTooLate, OpenFails, Unconnected
<1>2. /\ InHand /\ UNCHANGED <<pushed, pending, opens>> /\ waiting' = FALSE
      /\ Len(handled') = h + 1 /\ Done' = h + 1
      /\ h + 1 \in 1 .. Len(pushed) /\ Len(pushed) \in Nat /\ h \in Nat
      /\ pushed[h + 1] = got[WorkerThread] /\ got[WorkerThread] \in Tasks
      /\ pushed[h + 1].kind = "open" /\ WaitingInv'
      /\ Done = h + (IF waiting THEN 1 ELSE 0)
  BY <1>0, <1>1, TaskEnds
<1>3. PICK q \in Pipes \ {0} : got[WorkerThread] = OpenTask(q)
  BY <1>2, TaskForms
<1>4. got[WorkerThread].of = q /\ got[WorkerThread].kind = "open"
      /\ \A p \in Pipes \ {0} : pushed[h + 1] = OpenTask(p) => p = q
  BY <1>2, <1>3, TaskForms
<1>5. WrittenInv'
  BY <1>0, <1>1, <1>2, WrittenStays
<1>6. CASE OpenEnd
  <2>1. waiting /\ UNCHANGED <<live, pipe>>
    BY <1>6 DEF OpenEnd
  <2>2. Done' = Done /\ \A p : Alive(p)' <=> Alive(p)
    BY <1>2, <2>1 DEF Alive
  <2>3. UniqueInv' /\ ComingInv' /\ PlacesInv'
    BY <1>2, <2>1, <2>2, TaskMoves
  <2>4. SenderTypes'
    BY <1>1, <1>2, <2>1 DEF SenderInv, SenderTypes
  <2>5. PipeInv'
    BY <1>2, <2>1, <2>2 DEF SenderInv, PipeInv, LastOpen
  <2>. QED
    BY <1>2, <1>5, <2>3, <2>4, <2>5 DEF StillHolds
<1>7. CASE OpenTooLate \/ OpenFails
  <2>1. CloseHandle(q) /\ (waiting => pipe = q)
    <3>1. CloseHandle(q)
      BY <1>4, <1>7 DEF OpenTooLate, OpenFails, Unconnected
    <3>2. waiting => got[WorkerThread] = OpenTask(pipe) /\ pipe \in Pipes \ {0}
      BY <1>4 DEF SenderInv, WaitingInv, SenderTypes
    <3>. QED
      BY <1>3, <1>4, <3>1, <3>2, TaskForms
  <2>2. /\ pipe' = 0 /\ live' \subseteq live /\ ~Alive(q)'
        /\ \A p : p # q /\ Alive(p) => Alive(p)'
    BY <2>1, CloseOne
  <2>3. Done' \in {Done, Done + 1} /\ Done' <= Len(pushed) /\ (~waiting => Done = h /\ Done' = Done + 1)
    BY <1>2
  <2>4. \A p \in Pipes \ {0} : Alive(p) /\ ~Alive(p)' =>
          \E k \in 1 .. Len(pushed) : k <= Done' /\ pushed[k] = OpenTask(p)
    <3>1. h + 1 <= Done' /\ pushed[h + 1] = OpenTask(q)
      BY <1>2, <1>3
    <3>. QED
      BY <1>2, <2>2, <3>1
  <2>5. \A p \in Pipes \ {0} : Alive(p)' /\ pipe = p /\ pipe' # p =>
          Done' = Done + 1 /\ pushed[Done + 1].kind = "open"
    BY <1>2, <2>1, <2>2, <2>3
  <2>6. \A p \in Pipes \ {0} : Done' = Done + 1 /\ pushed[Done + 1] = OpenTask(p) /\ Alive(p)' => pipe' = p
    <3>1. Done' = Done + 1 => Done + 1 = h + 1
      BY <1>2
    <3>. QED
      BY <1>4, <2>2, <3>1
  <2>7. UniqueInv' /\ ComingInv' /\ PlacesInv'
    BY <1>2, <2>2, <2>3, <2>4, <2>5, <2>6, TaskMoves
  <2>8. SenderTypes'
    BY <1>1, <1>2, <2>2, SenderFacts DEF SenderInv, SenderTypes
  <2>9. PipeInv'
    BY <2>2 DEF PipeInv
  <2>. QED
    BY <1>2, <1>5, <2>7, <2>8, <2>9 DEF StillHolds
<1>. QED
  BY <1>6, <1>7

(* The end of do_close, and do_close without a pipe. *)
LEMMA CloseEndsStep ==
  ASSUME PipeAssumption, SenderInv, CloseEnd \/ CloseNothing
  PROVE  StillHolds
<1>0. PICK h, q : h = Len(handled) /\ q = pipe
  OBVIOUS
<1>1. Returns /\ Running("close") /\ UNCHANGED <<pending, opens, written>>
  BY DEF CloseEnd, CloseNothing
<1>2. /\ InHand /\ UNCHANGED <<pushed, pending, opens>> /\ waiting' = FALSE
      /\ Len(handled') = h + 1 /\ Done' = h + 1
      /\ h + 1 \in 1 .. Len(pushed) /\ Len(pushed) \in Nat /\ h \in Nat
      /\ pushed[h + 1].kind = "close" /\ WaitingInv'
      /\ Done = h
  BY <1>0, <1>1, TaskEnds
<1>3. \A p \in Pipes \ {0} : pushed[Done + 1] # OpenTask(p)
  <2>1. \A p \in Pipes \ {0} : OpenTask(p).kind # "close"
    BY TaskForms
  <2>. QED
    BY <1>2, <2>1
<1>4. WrittenInv'
  BY <1>0, <1>1, <1>2, WrittenStays
<1>5. /\ pipe' = 0 /\ live' \subseteq live
      /\ \A p : p # q /\ Alive(p) => Alive(p)'
      /\ q # 0 => ~Alive(q)'
  <2>1. CASE CloseEnd
    <3>1. CloseHandle(q)
      BY <1>0, <2>1 DEF CloseEnd
    <3>. QED
      BY <3>1, CloseOne
  <2>2. CASE CloseNothing
    BY <1>0, <2>2 DEF CloseNothing, Alive
  <2>. QED
    BY <2>1, <2>2
<1>6. Done' = Done + 1 /\ Done' <= Len(pushed)
  BY <1>2
<1>7. \A p \in Pipes \ {0} : Alive(p) /\ ~Alive(p)' =>
        \E k \in 1 .. Len(pushed) : k <= Done' /\ pushed[k] = OpenTask(p)
  <2>. SUFFICES ASSUME NEW p \in Pipes \ {0}, p = q
               PROVE  \E k \in 1 .. Len(pushed) : k <= Done' /\ pushed[k] = OpenTask(p)
    BY <1>5
  <2>1. PICK k \in 1 .. Done : LastOpen(p, k, Done)
    BY <1>0 DEF SenderInv, PipeInv
  <2>. QED
    BY <1>2, <2>1 DEF LastOpen
<1>8. \A p \in Pipes \ {0} : ~(Alive(p)' /\ pipe = p)
  BY <1>0, <1>5
<1>9. UniqueInv' /\ ComingInv' /\ PlacesInv'
  BY <1>2, <1>3, <1>5, <1>6, <1>7, <1>8, TaskMoves
<1>10. SenderTypes'
  BY <1>1, <1>2, <1>5, SenderFacts DEF SenderInv, SenderTypes
<1>11. PipeInv'
  BY <1>5 DEF PipeInv
<1>. QED
  BY <1>2, <1>4, <1>9, <1>10, <1>11 DEF StillHolds

(* do_send writes to the pipe of the last open, if it has not been closed since. *)
LEMMA DoSendStep ==
  ASSUME PipeAssumption, SenderInv, DoSend
  PROVE  StillHolds
<1>0. PICK h, q : h = Len(handled) /\ q = pipe
  OBVIOUS
<1>1. Returns /\ Running("send") /\ UNCHANGED <<pending, opens, live, pipe>>
  BY DEF DoSend
<1>2. /\ InHand /\ UNCHANGED <<pushed, pending, opens>> /\ waiting' = FALSE
      /\ Len(handled') = h + 1 /\ Done' = h + 1
      /\ h + 1 \in 1 .. Len(pushed) /\ Len(pushed) \in Nat /\ h \in Nat
      /\ pushed[h + 1].kind = "send" /\ WaitingInv'
      /\ Done = h
  BY <1>0, <1>1, TaskEnds
<1>3. \A p \in Pipes \ {0} : pushed[Done + 1] # OpenTask(p)
  <2>1. \A p \in Pipes \ {0} : OpenTask(p).kind # "send"
    BY TaskForms
  <2>. QED
    BY <1>2, <2>1
<1>4. \A p : Alive(p)' <=> Alive(p)
  BY <1>1 DEF Alive
<1>5. UniqueInv' /\ ComingInv' /\ PlacesInv'
  BY <1>1, <1>2, <1>3, <1>4, TaskMoves
<1>6. q # 0 => Alive(q) /\ \E j \in 1 .. h : LastOpen(q, j, h)
  BY <1>0, <1>2 DEF SenderInv, PipeInv
<1>7. PipeInv'
  <2>. SUFFICES ASSUME q # 0 PROVE Alive(q)' /\ \E j \in 1 .. h + 1 : LastOpen(q, j, h + 1)'
    BY <1>0, <1>1, <1>2 DEF PipeInv, Alive, LastOpen
  <2>1. PICK j \in 1 .. h : LastOpen(q, j, h)
    BY <1>6
  <2>2. LastOpen(q, j, h + 1)'
    BY <1>2, <2>1 DEF LastOpen
  <2>. QED
    BY <1>2, <1>4, <1>6, <2>2
<1>8. /\ written \in Seq(Nat \X Pipes) /\ pipe \in Pipes
      /\ \A i \in DOMAIN written : written[i] \in Nat \X Pipes /\ written[i][1] <= h
      /\ SentToItsConnection
  BY <1>0 DEF SenderInv, SenderTypes, WrittenInv
<1>9. written' = written \/ (q # 0 /\ written' = Append(written, <<h + 1, q>>))
  BY <1>0 DEF DoSend
<1>10. written' \in Seq(Nat \X Pipes) /\ WrittenInv'
  <2>1. CASE written' = written
    BY <1>0, <1>2, <1>8, <2>1, WrittenStays
  <2>2. CASE q # 0 /\ written' = Append(written, <<h + 1, q>>)
    <3>0. <<h + 1, q>> \in Nat \X Pipes
      BY <1>0, <1>2, <1>8
    <3>1. /\ written' \in Seq(Nat \X Pipes)
          /\ \A i \in 1 .. Len(written) : written'[i] = written[i]
          /\ written'[Len(written) + 1] = <<h + 1, q>>
          /\ DOMAIN written' = 1 .. Len(written) + 1 /\ DOMAIN written = 1 .. Len(written)
          /\ Len(written) \in Nat
      BY <1>8, <2>2, <3>0, AppendProperties, LenProperties
    <3>2. ASSUME NEW i \in DOMAIN written'
          PROVE  /\ written'[i][1] <= h + 1
                 /\ \E j \in 1 .. written'[i][1] - 1 : LastOpen(written'[i][2], j, written'[i][1] - 1)
      <4>1. CASE i \in DOMAIN written
        <5>1. written'[i] = written[i] /\ written[i][1] <= h + 1
          BY <1>2, <1>8, <3>1, <4>1
        <5>. QED
          BY <1>8, <4>1, <5>1 DEF SentToItsConnection
      <4>2. CASE i = Len(written) + 1
        <5>1. written'[i][1] = h + 1 /\ written'[i][2] = q /\ (h + 1) - 1 = h
          BY <1>2, <3>1, <4>2
        <5>2. written'[i][1] - 1 = h /\ \E j \in 1 .. h : LastOpen(q, j, h)
          BY <1>2, <1>6, <2>2, <5>1
        <5>. QED
          BY <1>2, <5>1, <5>2
      <4>. QED
        BY <3>1, <4>1, <4>2
    <3>. QED
      BY <1>2, <3>1, <3>2 DEF WrittenInv, SentToItsConnection, LastOpen
  <2>. QED
    BY <1>9, <2>1, <2>2
<1>11. SenderTypes'
  BY <1>1, <1>2, <1>10 DEF SenderInv, SenderTypes
<1>. QED
  BY <1>2, <1>5, <1>7, <1>10, <1>11 DEF StillHolds

-----------------------------------------------------------------------------
(* The constructor establishes the invariant. *)
LEMMA SenderInitInv == PipeAssumption /\ SenderInit => SenderInv
<1>. SUFFICES ASSUME PipeAssumption, SenderInit PROVE SenderInv
  OBVIOUS
<1>1. IInv
  BY InitInv DEF PipeAssumption, SenderInit
<1>2. /\ pushed = <<>> /\ pending = [c \in Clients |-> NoTask]
      /\ opens = 0 /\ live = {} /\ pipe = 0 /\ waiting = FALSE /\ written = <<>>
  BY DEF SenderInit, Init, Queue!Init
<1>3. NoTask \notin Tasks /\ 0 \in Pipes /\ Len(pushed) = 0 /\ 1 .. Len(pushed) = {} /\ DOMAIN written = {}
  BY <1>2, EmptySeq DEF PipeAssumption, WorkerAssumption, Pipes
<1>4. \A p \in Pipes \ {0} : OpenTask(p) # NoTask
  BY <1>3, TaskForms
<1>5. SenderTypes
  BY <1>2, <1>3, EmptySeq DEF SenderTypes
<1>6. UniqueInv /\ ComingInv
  BY <1>2, <1>3, <1>4 DEF UniqueInv, ComingInv
<1>7. PlacesInv /\ PipeInv
  BY <1>2 DEF PlacesInv, PipeInv, Alive
<1>8. WaitingInv /\ WrittenInv
  BY <1>2, <1>3 DEF WaitingInv, WrittenInv, SentToItsConnection
<1>9. CalmInv
  BY DEF SenderInit, Init, Thread!Init, CalmInv
<1>. QED
  BY <1>1, <1>5, <1>6, <1>7, <1>8, <1>9 DEF SenderInv

(* The thread's own steps between two tasks: none while a task waits. *)
LEMMA IdleStep ==
  ASSUME PipeAssumption, SenderInv, ThreadIdle \/ ThreadWoken
  PROVE  StillHolds
<1>1. UNCHANGED <<handled, pending, pipeVars>>
  BY DEF ThreadIdle, ThreadWoken, LoopTest, BeginPop, InPop, Finish, WokenInPop
<1>2. UNCHANGED pushed
  BY DEF ThreadIdle, ThreadWoken, LoopTest, BeginPop, InPop, Finish, WokenInPop, queueVars,
         Queue!PopCall, Queue!PopBegin, Queue!PopWait, Queue!PopResume, Queue!SpuriousWakeup,
         Queue!TakeFront, Queue!FindEmpty, Queue!GiveUp
<1>3. ~InHand
  <2>1. CASE LoopTest \/ BeginPop \/ Finish
    BY <2>1 DEF LoopTest, BeginPop, Finish, InHand, Thread!LoopTest, Thread!BeginWork, Thread!Finish
  <2>2. CASE InPop \/ WokenInPop
    BY <2>2 DEF InPop, WokenInPop, InHand, Queue!PopBegin, Queue!PopWait, Queue!PopResume, Queue!SpuriousWakeup
  <2>. QED
    BY <2>1, <2>2 DEF ThreadIdle, ThreadWoken
<1>4. ~waiting
  BY <1>3 DEF SenderInv, WaitingInv
<1>. QED
  BY <1>1, <1>2, <1>4, QuietStep DEF senderView, pipeVars

(* No step kills the thread. *)
LEMMA CalmStep ==
  ASSUME PipeAssumption, SenderInv, [SenderNext]_senderVars
  PROVE  CalmInv'
<1>. USE DEF SenderInv, CalmInv
<1>1. CASE Construct \/ \E p \in Pipes : Reader(p)
  BY <1>1 DEF Construct, SetOnTask, Reader, vars, threadVars
<1>2. ASSUME NEW c \in Clients,
             (\E name \in Names : Open(c, name)) \/ Close(c) \/ Send(c) \/ AddTask(c) \/ NotifyTask(c)
      PROVE  CalmInv'
  BY <1>2 DEF Open, Close, Send, Calls, AddTask, Add, NotifyTask, AddNotify, vars, threadVars
<1>3. CASE ThreadIdle \/ ThreadWoken
  BY <1>3 DEF ThreadIdle, ThreadWoken, LoopTest, BeginPop, InPop, Finish, WokenInPop, threadVars,
              Thread!LoopTest, Thread!BeginWork, Thread!Finish, Thread!ThreadGoes
<1>4. CASE OpenBegin \/ CloseBegin
  BY <1>4 DEF OpenBegin, CloseBegin, Blocks, vars, threadVars
<1>5. CASE OpenEnd \/ OpenTooLate \/ OpenFails \/ CloseEnd \/ CloseNothing \/ DoSend
  <2>1. Thread!EndWork
    BY <1>5 DEF OpenEnd, OpenTooLate, OpenFails, Unconnected, CloseEnd, CloseNothing, DoSend, Returns, RunTask
  <2>. QED
    BY <2>1 DEF Thread!EndWork, Thread!ThreadGoes
<1>6. CASE Destroy
  BY <1>6 DEF Destroy, Thread!TerminateAndWait, Thread!WakeToJoin, Thread!Join, Thread!Woken, Thread!Asleep
<1>7. CASE UNCHANGED senderVars
  BY <1>7 DEF senderVars, vars, threadVars
<1>. QED
  BY <1>1, <1>2, <1>3, <1>4, <1>5, <1>6, <1>7 DEF SenderNext, SenderStep, CallerStep

(* Every step keeps the invariant. *)
LEMMA SenderStepInv == PipeAssumption /\ SenderInv /\ [SenderNext]_senderVars => SenderInv'
<1>. SUFFICES ASSUME PipeAssumption, SenderInv, [SenderNext]_senderVars PROVE SenderInv'
  OBVIOUS
<1>1. IInv'
  BY WorkerMoves, StepInv DEF PipeAssumption, SenderInv
<1>2. pc \in [Clients \cup {WorkerThread} -> {"idle", "unlocked", "entering", "mustWait", "waiting", "woken"}]
      /\ WorkerThread \notin Clients
  BY SenderFacts
<1>. SUFFICES StillHolds
  BY <1>1, CalmStep DEF SenderInv, StillHolds
<1>3. ASSUME NEW c \in Clients,
             (\E name \in Names : Open(c, name)) \/ Close(c) \/ Send(c) \/ AddTask(c)
      PROVE  StillHolds
  BY <1>3, OpenStep, CallStep, AddStep
<1>4. ASSUME NEW c \in Clients, NotifyTask(c)
      PROVE  StillHolds
  <2>1. UNCHANGED <<pushed, handled, got, tpc, pending, pipeVars>>
    BY <1>4 DEF NotifyTask, AddNotify, Queue!PushNotify, threadVars
  <2>2. pc'[WorkerThread] = "idle" <=> pc[WorkerThread] = "idle"
    BY <1>2, <1>4 DEF NotifyTask, AddNotify, Queue!PushNotify, Queue!NotifyAll
  <2>3. waiting => InHand'
    BY <2>1, <2>2 DEF InHand, SenderInv, WaitingInv
  <2>. QED
    BY <2>1, <2>3, QuietStep DEF senderView, pipeVars
<1>5. CASE ThreadIdle \/ ThreadWoken
  BY <1>5, IdleStep
<1>6. CASE OpenBegin \/ OpenEnd \/ OpenTooLate \/ OpenFails \/ CloseBegin \/ CloseEnd \/ CloseNothing \/ DoSend
  BY <1>6, OpenBeginStep, OpenEndsStep, CloseBeginStep, CloseEndsStep, DoSendStep
<1>7. CASE Construct \/ (\E p \in Pipes : Reader(p)) \/ UNCHANGED senderVars
  <2>1. UNCHANGED senderView /\ UNCHANGED <<tpc, pc, got>>
    BY <1>7 DEF Construct, SetOnTask, Reader, senderVars, senderView, vars, threadVars, queueVars, pipeVars
  <2>2. waiting => InHand'
    BY <2>1 DEF InHand, SenderInv, WaitingInv
  <2>. QED
    BY <2>1, <2>2, QuietStep
<1>8. CASE Destroy
  <2>1. UNCHANGED <<pushed, handled, got, pc, pending, pipeVars>>
    BY <1>8 DEF Destroy, queueVars
  <2>2. tpc = "work" => tpc' = "work"
    BY <1>8 DEF Destroy, Thread!TerminateAndWait, Thread!WakeToJoin, Thread!Join, Thread!Woken, Thread!Asleep
  <2>3. waiting => InHand'
    BY <2>1, <2>2 DEF InHand, SenderInv, WaitingInv
  <2>. QED
    BY <2>1, <2>3, QuietStep DEF senderView, pipeVars
<1>. QED
  BY <1>3, <1>4, <1>5, <1>6, <1>7, <1>8 DEF SenderNext, SenderStep, CallerStep

(* The strengthened invariant of the pipe sender holds. *)
LEMMA SenderInvHolds == ASSUME PipeAssumption PROVE SenderSafeSpec => []SenderInv
BY SenderInitInv, SenderStepInv, PTL DEF SenderSafeSpec

(* Seen from its worker, PipeSender is one more user of it: every behaviour of *)
(* the pipe sender is one of the worker (PipeSender.hpp:19-60 reaches it       *)
(* through setOnTask, add and terminateAndWait alone).                       *)
THEOREM SenderUsesWorker == ASSUME PipeAssumption PROVE SenderSafeSpec => SafeSpec
<1>1. SenderInit => Init
  BY DEF SenderInit
<1>2. SenderInv /\ [SenderNext]_senderVars => [Next]_vars
  BY WorkerMoves
<1>. QED
  BY <1>1, <1>2, SenderInvHolds, PTL DEF SenderSafeSpec, SafeSpec

(* So tasks are handled in the order of the add calls, each at most once, for  *)
(* any number of callers and calls (Worker.hpp:92-101 under PipeSender).       *)
THEOREM SenderOrderIsKept == ASSUME PipeAssumption PROVE SenderSafeSpec => []TasksHandledInOrder
<1>1. SafeSpec => []TasksHandledInOrder
  BY OrderIsKept DEF PipeAssumption
<1>. QED
  BY <1>1, SenderUsesWorker, PTL

(* The tasks of a pipe sender too are a mailbox's, do_open and do_close, where *)
(* the thread blocks, included.                                              *)
THEOREM SenderIsMailbox == ASSUME PipeAssumption PROVE SenderSafeSpec => MailboxSafe
<1>1. WorkerAssumption
  BY DEF PipeAssumption
<1>. QED
  BY <1>1, SenderUsesWorker, WorkerIsMailbox

-----------------------------------------------------------------------------
(* Overwritten is what the first Done tasks did.                             *)
LEMMA OverwrittenIsLost ==
  ASSUME PipeAssumption, SenderInv, NEW p
  PROVE  Overwritten(p) <=> LostBy(p, Done)
<1>1. Len(handled) \in Nat /\ Done \in Nat /\ Len(pushed) \in Nat
  BY SenderFacts
<1>2. \A j \in 1 .. Len(pushed) : pushed[j].kind = "open" => (Begun(j) <=> j <= Done)
  BY <1>1 DEF Begun, Done
<1>. QED
  BY <1>2 DEF Overwritten, LostBy

(* The task in hand was popped. *)
LEMMA HandIsPopped ==
  ASSUME PipeAssumption, SenderInv, InHand
  PROVE  Len(handled) + 1 <= Len(popped)
<1>1. HandInv /\ Len(Append(handled, got[WorkerThread])) = Len(handled) + 1 /\ Len(handled) \in Nat
  BY SenderFacts DEF SenderInv, IInv
<1>. QED
  BY <1>1 DEF HandInv, InHand

(* Where an open task that is not in its caller's hands can be. *)
LEMMA OpenTaskIsAt ==
  ASSUME PipeAssumption, SenderInv, NEW p \in Pipes \ {0}
  PROVE  /\ \A i \in 1 .. Len(queue) : queue[i] = OpenTask(p) =>
              Len(popped) + i \in 1 .. Len(pushed) /\ pushed[Len(popped) + i] = OpenTask(p) /\ Len(popped) + i > Done
         /\ \A k \in 1 .. Len(pushed) : pushed[k] = OpenTask(p) /\ k > Done =>
              \/ k - Len(popped) \in 1 .. Len(queue) /\ queue[k - Len(popped)] = OpenTask(p)
              \/ k = Len(handled) + 1 /\ InHand /\ got[WorkerThread] = OpenTask(p) /\ ~waiting
<1>1. /\ Len(popped) \in Nat /\ Len(queue) \in Nat /\ Len(handled) \in Nat
      /\ Len(pushed) = Len(popped) + Len(queue)
      /\ \A i \in 1 .. Len(queue) : pushed[Len(popped) + i] = queue[i]
  <2>1. popped \in Seq(Tasks) /\ queue \in Seq(Tasks) /\ handled \in Seq(Tasks) /\ popped \o queue = pushed
    BY DEF SenderInv, IInv, HandInv, QueueInv, QueueProofs!TypeOK, QueueProofs!FifoNoLoss
  <2>. QED
    BY <2>1, ConcatProperties, LenProperties
<1>2. \/ Len(popped) = Len(handled)
      \/ Len(popped) = Len(handled) + 1 /\ InHand
  <2>1. HandInv /\ CalmInv /\ Len(Append(handled, got[WorkerThread])) = Len(handled) + 1
    BY SenderFacts DEF SenderInv, IInv
  <2>. QED
    BY <2>1 DEF HandInv, CalmInv, InHand
<1>3. Len(handled) <= Done /\ Done <= Len(popped) /\ Done \in Nat
  <2>1. waiting => InHand
    BY DEF SenderInv, WaitingInv
  <2>2. InHand => Len(popped) = Len(handled) + 1
    <3>1. HandInv /\ Len(Append(handled, got[WorkerThread])) = Len(handled) + 1
      BY SenderFacts DEF SenderInv, IInv
    <3>. QED
      BY <3>1 DEF HandInv, InHand
  <2>. QED
    BY <1>1, <1>2, <2>1, <2>2, SenderFacts
<1>4. ASSUME NEW i \in 1 .. Len(queue), queue[i] = OpenTask(p)
      PROVE  Len(popped) + i \in 1 .. Len(pushed) /\ pushed[Len(popped) + i] = OpenTask(p) /\ Len(popped) + i > Done
  BY <1>1, <1>3, <1>4
<1>5. ASSUME NEW k \in 1 .. Len(pushed), pushed[k] = OpenTask(p), k > Done
      PROVE  \/ k - Len(popped) \in 1 .. Len(queue) /\ queue[k - Len(popped)] = OpenTask(p)
             \/ k = Len(handled) + 1 /\ InHand /\ got[WorkerThread] = OpenTask(p) /\ ~waiting
  <2>1. CASE k > Len(popped)
    <3>1. k - Len(popped) \in 1 .. Len(queue) /\ Len(popped) + (k - Len(popped)) = k
      BY <1>1, <2>1
    <3>. QED
      BY <1>1, <1>5, <3>1
  <2>2. CASE k <= Len(popped)
    <3>1. k = Len(handled) + 1 /\ InHand
      BY <1>1, <1>2, <1>3, <1>5, <2>2
    <3>2. got[WorkerThread] = OpenTask(p) /\ pushed[k].kind = "open"
      BY <1>5, <3>1, SenderFacts, TaskForms
    <3>3. ~waiting
      BY <1>1, <1>5, <3>1, <3>2 DEF Done
    <3>. QED
      BY <3>1, <3>2, <3>3
  <2>. QED
    BY <1>1, <2>1, <2>2
<1>. QED
  BY <1>4, <1>5

(* Every instance is where the property says. *)
LEMMA InvGivesPlaces == PipeAssumption /\ SenderInv => PipeIsAccountedFor
<1>. SUFFICES ASSUME PipeAssumption, SenderInv PROVE PipeIsAccountedFor
  OBVIOUS
<1>1. ASSUME NEW i \in live
      PROVE  LET opening == OpenTask(i.of)
                 places == Cardinality({c \in Clients : pending[c] = opening})
                           + Cardinality({k \in DOMAIN queue : queue[k] = opening})
                           + (IF Running("open") /\ ~waiting /\ got[WorkerThread] = opening THEN 1 ELSE 0)
                           + (IF pipe = i.of THEN 1 ELSE 0)
             IN places = IF Overwritten(i.of) THEN 0 ELSE 1
  <2>. DEFINE p == i.of
              callers == {c \in Clients : pending[c] = OpenTask(p)}
              queued == {k \in DOMAIN queue : queue[k] = OpenTask(p)}
              Hand1 == Running("open") /\ ~waiting /\ got[WorkerThread] = OpenTask(p)
  <2>0. p \in Pipes \ {0} /\ Alive(p)
    BY DEF SenderInv, SenderTypes, Alive
  <2>1. Overwritten(p) <=> LostBy(p, Done)
    BY OverwrittenIsLost
  <2>2. DOMAIN queue = 1 .. Len(queue) /\ Len(queue) \in Nat
    BY DEF SenderInv, IInv, QueueInv, QueueProofs!TypeOK
  <2>3. Hand1 <=> InHand /\ ~waiting /\ got[WorkerThread] = OpenTask(p)
    BY <2>0, TaskForms DEF Running, InHand
  <2>4. Len(pushed) \in Nat /\ Done \in Nat /\ Len(handled) \in Nat
    BY SenderFacts
  <2>5. /\ \A c \in Clients : pending[c] = OpenTask(p) =>
             /\ \A d \in Clients : pending[d] = OpenTask(p) => d = c
             /\ \A k \in 1 .. Len(pushed) : pushed[k] # OpenTask(p)
        /\ \A k, j \in 1 .. Len(pushed) : pushed[k] = OpenTask(p) /\ pushed[j] = OpenTask(p) => j = k
    BY <2>0 DEF SenderInv, UniqueInv
  <2>6. \A k \in 1 .. Len(queue) : queue[k] = OpenTask(p) =>
          Len(popped) + k \in 1 .. Len(pushed) /\ pushed[Len(popped) + k] = OpenTask(p) /\ Len(popped) + k > Done
    BY <2>0, OpenTaskIsAt
  <2>7. Hand1 => /\ Len(handled) + 1 \in 1 .. Len(pushed) /\ pushed[Len(handled) + 1] = OpenTask(p)
                 /\ Len(handled) + 1 > Done
    BY <2>3, <2>4, SenderFacts
  <2>8. pipe = p => \E j \in 1 .. Len(pushed) :
          j <= Done /\ pushed[j] = OpenTask(p) /\ \A m \in j + 1 .. Done : pushed[m].kind = "send"
    <3>. SUFFICES ASSUME pipe = p
                 PROVE  \E j \in 1 .. Len(pushed) :
                          j <= Done /\ pushed[j] = OpenTask(p) /\ \A m \in j + 1 .. Done : pushed[m].kind = "send"
      OBVIOUS
    <3>1. PICK j \in 1 .. Done : LastOpen(p, j, Done)
      BY <2>0 DEF SenderInv, PipeInv
    <3>. QED
      BY <2>4, <3>1, SenderFacts DEF LastOpen
  <2>9. LostBy(p, Done) => \E k, j \in 1 .. Len(pushed) :
          k < j /\ j <= Done /\ pushed[k] = OpenTask(p) /\ pushed[j].kind = "open"
    BY DEF LostBy, LastOpen
  <2>10. Cardinality({}) = 0 /\ (\A c \in Clients : Cardinality({c}) = 1) /\ \A k \in 1 .. Len(queue) : Cardinality({k}) = 1
    BY FS_EmptySet, FS_Singleton
  <2>11. Len(popped) \in Nat
    BY LenProperties DEF SenderInv, IInv, QueueInv, QueueProofs!TypeOK
  <2>. HIDE DEF p, Hand1
  <2>12. ASSUME NEW c \in Clients, pending[c] = OpenTask(p)
         PROVE  callers = {c} /\ queued = {} /\ ~Hand1 /\ pipe # p /\ ~LostBy(p, Done)
    <3>1. \A k \in 1 .. Len(pushed) : pushed[k] # OpenTask(p)
      BY <2>5, <2>12
    <3>. QED
      BY <2>2, <2>5, <2>6, <2>7, <2>8, <2>9, <2>12, <3>1
  <2>13. ASSUME NEW k \in 1 .. Len(pushed), pushed[k] = OpenTask(p)
         PROVE  /\ callers = {}
                /\ k <= Done => queued = {} /\ ~Hand1
                /\ k > Done => pipe # p /\ ~LostBy(p, Done)
                /\ LostBy(p, Done) => pipe # p
                /\ \A j \in 1 .. Len(queue) : queue[j] = OpenTask(p) => k = Len(popped) + j
                /\ Hand1 => k = Len(handled) + 1
    <3>1. callers = {}
      BY <2>5, <2>13
    <3>2. \A j \in 1 .. Len(queue) : queue[j] = OpenTask(p) => k = Len(popped) + j /\ k > Done
      BY <2>5, <2>6, <2>13
    <3>3. Hand1 => k = Len(handled) + 1 /\ k > Done
      BY <2>5, <2>7, <2>13
    <3>4. k <= Done => queued = {} /\ ~Hand1
      BY <2>2, <2>4, <3>2, <3>3
    <3>5. pipe = p => k <= Done /\ \A m \in k + 1 .. Done : pushed[m].kind = "send"
      BY <2>5, <2>8, <2>13
    <3>6. LostBy(p, Done) => \E j \in 1 .. Len(pushed) : k < j /\ j <= Done /\ pushed[j].kind = "open"
      BY <2>5, <2>9, <2>13
    <3>7. ~(LostBy(p, Done) /\ pipe = p)
      <4>. SUFFICES ASSUME LostBy(p, Done), pipe = p PROVE FALSE
        OBVIOUS
      <4>1. PICK j \in 1 .. Len(pushed) : k < j /\ j <= Done /\ pushed[j].kind = "open"
        BY <3>6
      <4>2. pushed[j].kind = "send"
        BY <2>4, <3>5, <4>1
      <4>. QED
        BY <4>1, <4>2
    <3>8. k > Done => pipe # p /\ ~LostBy(p, Done)
      BY <2>4, <3>5, <3>6
    <3>. QED
      BY <3>1, <3>2, <3>3, <3>4, <3>7, <3>8
  <2>14. ASSUME NEW k \in 1 .. Len(pushed), pushed[k] = OpenTask(p), k > Done
         PROVE  Cardinality(queued) + (IF Hand1 THEN 1 ELSE 0) = 1
    <3>1. CASE Hand1
      <4>1. \A j \in 1 .. Len(queue) : queue[j] # OpenTask(p)
        <5>. SUFFICES ASSUME NEW j \in 1 .. Len(queue), queue[j] = OpenTask(p) PROVE FALSE
          OBVIOUS
        <5>1. k = Len(popped) + j /\ k = Len(handled) + 1
          BY <2>13, <2>14, <3>1
        <5>2. Len(handled) + 1 <= Len(popped)
          BY <2>3, <3>1, HandIsPopped
        <5>. QED
          BY <2>2, <2>4, <2>11, <5>1, <5>2
      <4>2. queued = {}
        BY <2>2, <4>1
      <4>. HIDE DEF queued
      <4>. QED
        BY <2>10, <3>1, <4>2
    <3>2. CASE ~Hand1
      <4>1. k - Len(popped) \in 1 .. Len(queue) /\ queue[k - Len(popped)] = OpenTask(p)
        BY <2>0, <2>3, <2>14, <3>2, OpenTaskIsAt
      <4>2. \A j \in 1 .. Len(queue) : queue[j] = OpenTask(p) => j = k - Len(popped)
        BY <2>2, <2>11, <2>13, <2>14
      <4>3. queued = {k - Len(popped)}
        BY <2>2, <4>1, <4>2
      <4>. QED
        BY <2>10, <3>2, <4>1, <4>3
    <3>. QED
      BY <3>1, <3>2
  <2>15. \/ \E c \in Clients : pending[c] = OpenTask(p)
         \/ \E k \in 1 .. Len(pushed) :
              pushed[k] = OpenTask(p) /\ (k > Done \/ pipe = p \/ LostBy(p, Done))
    BY <2>0 DEF SenderInv, PlacesInv
  <2>. HIDE DEF callers, queued
  <2>16. Cardinality(callers) + Cardinality(queued) + (IF Hand1 THEN 1 ELSE 0) + (IF pipe = p THEN 1 ELSE 0)
           = IF LostBy(p, Done) THEN 0 ELSE 1
    <3>1. CASE \E c \in Clients : pending[c] = OpenTask(p)
      BY <2>10, <2>12, <3>1
    <3>2. ASSUME NEW k \in 1 .. Len(pushed), pushed[k] = OpenTask(p), k > Done
          PROVE  Cardinality(callers) + Cardinality(queued) + (IF Hand1 THEN 1 ELSE 0) + (IF pipe = p THEN 1 ELSE 0)
                   = IF LostBy(p, Done) THEN 0 ELSE 1
      <4>1. Cardinality(callers) = 0 /\ pipe # p /\ ~LostBy(p, Done)
        BY <2>10, <2>13, <3>2
      <4>2. Cardinality(queued) \in Nat /\ Cardinality(queued) + (IF Hand1 THEN 1 ELSE 0) = 1
        <5>1. IsFiniteSet(1 .. Len(queue)) /\ queued \subseteq 1 .. Len(queue)
          BY <2>2, FS_Interval DEF queued
        <5>2. IsFiniteSet(queued)
          BY <5>1, FS_Subset
        <5>. QED
          BY <2>14, <3>2, <5>2, FS_CardinalityType
      <4>. QED
        BY <4>1, <4>2
    <3>3. ASSUME NEW k \in 1 .. Len(pushed), pushed[k] = OpenTask(p), k <= Done, pipe = p \/ LostBy(p, Done)
          PROVE  Cardinality(callers) + Cardinality(queued) + (IF Hand1 THEN 1 ELSE 0) + (IF pipe = p THEN 1 ELSE 0)
                   = IF LostBy(p, Done) THEN 0 ELSE 1
      <4>1. callers = {} /\ queued = {} /\ ~Hand1
        BY <2>13, <3>3
      <4>2. LostBy(p, Done) <=> pipe # p
        BY <2>13, <3>3
      <4>3. Cardinality(callers) = 0 /\ Cardinality(queued) = 0
        BY <2>10, <4>1
      <4>. QED
        BY <4>1, <4>2, <4>3
    <3>. QED
      BY <2>4, <2>15, <3>1, <3>2, <3>3
  <2>. QED
    BY <2>1, <2>16 DEF p, callers, queued, Hand1
<1>2. pipe # 0 => \E i \in live : i.of = pipe
  BY DEF SenderInv, PipeInv, Alive
<1>. QED
  BY <1>1, <1>2 DEF PipeIsAccountedFor

(* For any callers, names and number of calls: an instance that open() created *)
(* is on its way to do_open in exactly one task, or it is pipe_, or an open()  *)
(* with no close() before it has overwritten it, and pipe_ is never a handle   *)
(* that was closed (PipeSender.hpp:35-55, 73-95).                              *)
THEOREM InstanceIsAccountedFor == ASSUME PipeAssumption PROVE SenderSafeSpec => []PipeIsAccountedFor
BY InvGivesPlaces, SenderInvHolds, PTL

(* For any callers, names and number of calls: what send() hands over goes to  *)
(* the pipe of the last open queued before it, and to none if a close was      *)
(* queued since (PipeSender.hpp:57-60, 97-104).                                *)
THEOREM SentWhereMeant == ASSUME PipeAssumption PROVE SenderSafeSpec => []SentToItsConnection
<1>1. SenderInv => SentToItsConnection
  BY DEF SenderInv, WrittenInv
<1>. QED
  BY <1>1, SenderInvHolds, PTL
=============================================================================
