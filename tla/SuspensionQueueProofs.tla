------------------------ MODULE SuspensionQueueProofs ------------------------
(***************************************************************************)
(* Proofs about SuspensionQueue, for any sets of producers, consumers and  *)
(* items and any bound on the pushes.                                      *)
(***************************************************************************)
EXTENDS SuspensionQueue, SequenceTheorems, TLAPS

(* TypeCorrect begins and goes on, for the modules that compose the queue. *)
LEMMA TypeInit == Init => TypeOK
BY QueueAssumption, EmptySeq DEF Init, TypeOK, ProducerStates, ConsumerStates

(* The step of TypeCorrect. *)
LEMMA TypeStep == TypeOK /\ [Next]_vars => TypeOK'
<1> SUFFICES ASSUME TypeOK, [Next]_vars PROVE TypeOK'
  OBVIOUS
<1> USE QueueAssumption DEF TypeOK, ProducerStates, ConsumerStates
<1>a. NotifyAll \in [Producers \cup Consumers -> ProducerStates \cup ConsumerStates]
  BY DEF NotifyAll
<1>b. /\ \A p \in Producers : NotifyAll[p] \in ProducerStates
      /\ \A c \in Consumers : NotifyAll[c] \in ConsumerStates
  BY DEF NotifyAll
<1>1. ASSUME NEW p \in Producers, NEW item \in Items, Push(p, item) PROVE TypeOK'
  BY <1>1 DEF Push
<1>2. ASSUME NEW p \in Producers, PushNotify(p) PROVE TypeOK'
  BY <1>2, <1>a, <1>b DEF PushNotify
<1>3. ASSUME NEW c \in Consumers, PopCall(c) PROVE TypeOK'
  BY <1>3 DEF PopCall
<1>4. ASSUME NEW c \in Consumers, TakeFront(c) PROVE TypeOK'
  <2>1. Head(queue) \in Items /\ Tail(queue) \in Seq(Items)
    BY <1>4, HeadTailProperties DEF TakeFront
  <2>2. QED
    BY <1>4, <2>1 DEF TakeFront
<1>5. ASSUME NEW c \in Consumers, FindEmpty(c) PROVE TypeOK'
  BY <1>5 DEF FindEmpty
<1>6. ASSUME NEW c \in Consumers, GiveUp(c) PROVE TypeOK'
  BY <1>6 DEF GiveUp
<1>7. ASSUME NEW c \in Consumers, PopWait(c) PROVE TypeOK'
  BY <1>7 DEF PopWait
<1>8. ASSUME NEW c \in Consumers, SpuriousWakeup(c) PROVE TypeOK'
  BY <1>8 DEF SpuriousWakeup
<1>9. CASE TerminateFlag
  BY <1>9 DEF TerminateFlag
<1>10. CASE TerminateNotify
  BY <1>10, <1>a, <1>b DEF TerminateNotify
<1>11. CASE UNCHANGED vars
  BY <1>11 DEF vars
<1>12. QED
  BY <1>1, <1>2, <1>3, <1>4, <1>5, <1>6, <1>7, <1>8, <1>9, <1>10, <1>11
     DEF Next, PopBegin, PopResume

(* Every state of the queue has its type: what push, pop and terminate of   *)
(* SuspensionQueue.hpp:25-66 may assign.                                     *)
THEOREM TypeCorrect == SafeSpec => []TypeOK
BY TypeInit, TypeStep, PTL DEF SafeSpec

-----------------------------------------------------------------------------
(***************************************************************************)
(* The wake-up invariant.  NoMissedWakeup alone is not inductive: that a   *)
(* consumer falls asleep only on an empty queue needs WaitsOnlyOnEmpty,    *)
(* and that needs the mutual exclusion of mutex_.                          *)
(***************************************************************************)
WakeupInv == NoMissedWakeup /\ WaitsOnlyOnEmpty

LEMMA WakeupInvInit == Init => WakeupInv
BY DEF Init, WakeupInv, NoMissedWakeup, WaitsOnlyOnEmpty

LEMMA WakeupInvStep == TypeOK /\ WakeupInv /\ [Next]_vars => WakeupInv'
<1> SUFFICES ASSUME TypeOK, WakeupInv, [Next]_vars PROVE WakeupInv'
  OBVIOUS
<1> USE QueueAssumption DEF TypeOK, WakeupInv, NoMissedWakeup, WaitsOnlyOnEmpty,
                            ProducerStates, ConsumerStates
<1>1. ASSUME NEW p \in Producers, NEW item \in Items, Push(p, item) PROVE WakeupInv'
  BY <1>1 DEF Push, MutexFree
<1>2. ASSUME NEW p \in Producers, PushNotify(p) PROVE WakeupInv'
  BY <1>2 DEF PushNotify, NotifyAll
<1>3. ASSUME NEW c \in Consumers, PopCall(c) PROVE WakeupInv'
  BY <1>3 DEF PopCall
<1>4. ASSUME NEW c \in Consumers, PopBegin(c) PROVE WakeupInv'
  <2>1. CASE TakeFront(c)
    BY <1>4, <2>1 DEF PopBegin, TakeFront, MutexFree
  <2>2. CASE FindEmpty(c)
    BY <1>4, <2>2 DEF PopBegin, FindEmpty, MutexFree
  <2>3. QED
    BY <1>4, <2>1, <2>2 DEF PopBegin
<1>5. ASSUME NEW c \in Consumers, PopWait(c) PROVE WakeupInv'
  BY <1>5 DEF PopWait
<1>6. ASSUME NEW c \in Consumers, SpuriousWakeup(c) PROVE WakeupInv'
  BY <1>6 DEF SpuriousWakeup
<1>7. ASSUME NEW c \in Consumers, PopResume(c) PROVE WakeupInv'
  <2>1. CASE TakeFront(c)
    BY <1>7, <2>1 DEF PopResume, TakeFront, MutexFree
  <2>2. CASE FindEmpty(c)
    BY <1>7, <2>2 DEF PopResume, FindEmpty, MutexFree
  <2>3. CASE GiveUp(c)
    BY <1>7, <2>3 DEF PopResume, GiveUp, MutexFree
  <2>4. QED
    BY <1>7, <2>1, <2>2, <2>3 DEF PopResume
<1>8. CASE TerminateFlag
  BY <1>8 DEF TerminateFlag
<1>9. CASE TerminateNotify
  BY <1>9 DEF TerminateNotify, NotifyAll
<1>10. CASE UNCHANGED vars
  BY <1>10 DEF vars
<1>11. QED
  BY <1>1, <1>2, <1>3, <1>4, <1>5, <1>6, <1>7, <1>8, <1>9, <1>10 DEF Next

(* A sleeping consumer and a non-empty queue mean that a producer is still   *)
(* on its way to notify_all (SuspensionQueue.hpp:29-31), however many threads *)
(* use the queue.                                                            *)
THEOREM NoWakeupIsMissed == SafeSpec => []NoMissedWakeup
<1>1. WakeupInv => NoMissedWakeup
  BY DEF WakeupInv
<1>2. QED
  BY WakeupInvInit, WakeupInvStep, TypeCorrect, <1>1, PTL DEF SafeSpec

(* Whoever goes to sleep holds mutex_ alone and has seen an empty queue.     *)
THEOREM SleepersSawEmpty == SafeSpec => []WaitsOnlyOnEmpty
<1>1. WakeupInv => WaitsOnlyOnEmpty
  BY DEF WakeupInv
<1>2. QED
  BY WakeupInvInit, WakeupInvStep, TypeCorrect, <1>1, PTL DEF SafeSpec

-----------------------------------------------------------------------------
(* Moving the head of t to the end of s does not change what they spell.     *)
LEMMA ShiftHead ==
  ASSUME NEW S, NEW s \in Seq(S), NEW t \in Seq(S), t # <<>>
  PROVE  Append(s, Head(t)) \o Tail(t) = s \o t
<1>1. Head(t) \in S /\ Tail(t) \in Seq(S) /\ Len(Tail(t)) = Len(t) - 1
  BY HeadTailProperties
<1>2. Append(s, Head(t)) \in Seq(S) /\ Len(Append(s, Head(t))) = Len(s) + 1
  BY <1>1
<1>3. /\ Append(s, Head(t)) \o Tail(t) \in Seq(S)
      /\ Len(Append(s, Head(t)) \o Tail(t)) = Len(s) + Len(t)
  BY <1>1, <1>2, ConcatProperties
<1>4. s \o t \in Seq(S) /\ Len(s \o t) = Len(s) + Len(t)
  BY ConcatProperties
<1>5. ASSUME NEW i \in 1 .. Len(s) + Len(t)
      PROVE (Append(s, Head(t)) \o Tail(t))[i] = (s \o t)[i]
  BY <1>1, <1>2, HeadTailProperties, ConcatProperties
<1>6. QED
  BY <1>3, <1>4, <1>5, SeqEqual

(* An item appended to the second of two sequences ends up last.             *)
LEMMA AppendToSecond ==
  ASSUME NEW S, NEW s \in Seq(S), NEW t \in Seq(S), NEW e \in S
  PROVE  s \o Append(t, e) = Append(s \o t, e)
<1>1. Append(t, e) \in Seq(S) /\ Len(Append(t, e)) = Len(t) + 1
  OBVIOUS
<1>2. s \o t \in Seq(S) /\ Len(s \o t) = Len(s) + Len(t)
  BY ConcatProperties
<1>3. /\ s \o Append(t, e) \in Seq(S)
      /\ Len(s \o Append(t, e)) = Len(s) + Len(t) + 1
  BY <1>1, ConcatProperties
<1>4. /\ Append(s \o t, e) \in Seq(S)
      /\ Len(Append(s \o t, e)) = Len(s) + Len(t) + 1
  BY <1>2
<1>5. ASSUME NEW i \in 1 .. Len(s) + Len(t) + 1
      PROVE (s \o Append(t, e))[i] = Append(s \o t, e)[i]
  <2>1. (s \o Append(t, e))[i] = IF i <= Len(s) THEN s[i] ELSE Append(t, e)[i - Len(s)]
    BY <1>1, ConcatProperties
  <2>2. Append(s \o t, e)[i] = IF i <= Len(s \o t) THEN (s \o t)[i] ELSE e
    BY <1>2
  <2>3. i <= Len(s) + Len(t) => (s \o t)[i] = IF i <= Len(s) THEN s[i] ELSE t[i - Len(s)]
    BY ConcatProperties
  <2>4. i > Len(s) => Append(t, e)[i - Len(s)]
                        = IF i <= Len(s) + Len(t) THEN t[i - Len(s)] ELSE e
    OBVIOUS
  <2>5. QED
    BY <1>2, <2>1, <2>2, <2>3, <2>4
<1>6. QED
  BY <1>3, <1>4, <1>5, SeqEqual

(* The step of NothingLostOrReordered, for the same use. *)
LEMMA FifoStep == TypeOK /\ FifoNoLoss /\ [Next]_vars => FifoNoLoss'
<1> SUFFICES ASSUME TypeOK, FifoNoLoss, [Next]_vars PROVE FifoNoLoss'
  OBVIOUS
<1> USE DEF FifoNoLoss
<1>1. ASSUME NEW p \in Producers, NEW item \in Items, Push(p, item) PROVE FifoNoLoss'
  <2>1. popped \o Append(queue, item) = Append(popped \o queue, item)
    BY AppendToSecond DEF TypeOK
  <2>2. QED
    BY <1>1, <2>1 DEF Push
<1>2. ASSUME NEW c \in Consumers, TakeFront(c) PROVE FifoNoLoss'
  BY <1>2, ShiftHead DEF TakeFront, TypeOK
<1>3. ASSUME UNCHANGED <<queue, pushed, popped>> PROVE FifoNoLoss'
  BY <1>3
<1>4. QED
  BY <1>1, <1>2, <1>3
     DEF Next, vars, PushNotify, PopCall, PopBegin, FindEmpty, PopWait,
         SpuriousWakeup, PopResume, GiveUp, TerminateFlag, TerminateNotify

(* For any number of threads, what was popped followed by what is queued is  *)
(* exactly what was pushed: push and pop of SuspensionQueue.hpp:25-60 lose,   *)
(* duplicate and reorder nothing.                                            *)
THEOREM NothingLostOrReordered == SafeSpec => []FifoNoLoss
<1>1. Init => FifoNoLoss
  BY DEF Init, FifoNoLoss
<1>. QED
  BY <1>1, FifoStep, TypeCorrect, PTL DEF SafeSpec

-----------------------------------------------------------------------------
(* A step in which no consumer enters or leaves pop and the queue, results    *)
(* and flag stay is invisible to the callers.                                *)
LEMMA InvisibleStep ==
  ASSUME TypeOK, UNCHANGED <<queue, got, isTerminated>>,
         \A c \in Consumers : pc'[c] = "idle" <=> pc[c] = "idle"
  PROVE  UNCHANGED Fifo!vars
BY DEF Fifo!vars

(* The queue implements the abstract blocking queue: each step of a push, pop *)
(* or terminate is a Put, Call, Take, Abandon or Close, or stutters.          *)
THEOREM ImplementsFifo == SafeSpec => FifoSafe
<1>1. Init => Fifo!Init
  BY QueueAssumption DEF Init, Fifo!Init
<1>2. TypeOK /\ [Next]_vars => [Fifo!Next]_(Fifo!vars)
  <2> SUFFICES ASSUME TypeOK, [Next]_vars PROVE [Fifo!Next]_(Fifo!vars)
    OBVIOUS
  <2> USE QueueAssumption DEF TypeOK, ProducerStates, ConsumerStates
  <2>1. ASSUME NEW p \in Producers, NEW item \in Items, Push(p, item)
        PROVE Fifo!Put(item)
    BY <2>1 DEF Push, Fifo!Put
  <2>2. ASSUME NEW p \in Producers, PushNotify(p) PROVE UNCHANGED Fifo!vars
    BY <2>2, InvisibleStep DEF PushNotify, NotifyAll
  <2>3. ASSUME NEW c \in Consumers, PopCall(c) PROVE Fifo!Call(c)
    BY <2>3 DEF PopCall, Fifo!Call
  <2>4. ASSUME NEW c \in Consumers, TakeFront(c), pc[c] # "idle" PROVE Fifo!Take(c)
    BY <2>4 DEF TakeFront, Fifo!Take
  <2>5. ASSUME NEW c \in Consumers, FindEmpty(c), pc[c] # "idle" PROVE UNCHANGED Fifo!vars
    BY <2>5, InvisibleStep DEF FindEmpty
  <2>6. ASSUME NEW c \in Consumers, GiveUp(c), isTerminated, pc[c] # "idle"
        PROVE Fifo!Abandon(c)
    BY <2>6 DEF GiveUp, Fifo!Abandon
  <2>7. ASSUME NEW c \in Consumers, PopWait(c) \/ SpuriousWakeup(c)
        PROVE UNCHANGED Fifo!vars
    BY <2>7, InvisibleStep DEF PopWait, SpuriousWakeup
  <2>8. ASSUME TerminateFlag PROVE Fifo!Close
    BY <2>8 DEF TerminateFlag, Fifo!Close
  <2>9. ASSUME TerminateNotify PROVE UNCHANGED Fifo!vars
    BY <2>9, InvisibleStep DEF TerminateNotify, NotifyAll
  <2>10. ASSUME UNCHANGED vars PROVE UNCHANGED Fifo!vars
    BY <2>10, InvisibleStep DEF vars
  <2>11. ASSUME NEW c \in Consumers, PopBegin(c) PROVE [Fifo!Next]_(Fifo!vars)
    BY <2>11, <2>4, <2>5 DEF PopBegin, Fifo!Next
  <2>12. ASSUME NEW c \in Consumers, PopResume(c) PROVE [Fifo!Next]_(Fifo!vars)
    BY <2>12, <2>4, <2>5, <2>6 DEF PopResume, Fifo!Next
  <2>13. QED
    BY <2>1, <2>2, <2>3, <2>7, <2>8, <2>9, <2>10, <2>11, <2>12 DEF Next, Fifo!Next
<1>3. QED
  BY <1>1, <1>2, TypeCorrect, PTL DEF SafeSpec, FifoSafe, Fifo!SafeSpec

-----------------------------------------------------------------------------
(* pop returns without an item only when terminate() has set the flag: of all *)
(* the steps of all the threads only the consumer's own take it out of pop,   *)
(* and those that find an item append it to what was popped.                  *)
THEOREM OnlyTerminateGivesUp == SafeSpec => EmptyHandedOnlyIfTerminated
<1>1. ASSUME TypeOK, [Next]_vars, NEW c \in Consumers,
             pc[c] = "woken", pc'[c] = "idle", popped' = popped
      PROVE  isTerminated
  <2> USE QueueAssumption
  <2>0. /\ pc \in [Producers \cup Consumers -> ProducerStates \cup ConsumerStates]
        /\ popped \in Seq(Items) /\ queue \in Seq(Items) /\ c \in Producers \cup Consumers
    BY <1>1 DEF TypeOK
  <2>1. ASSUME NEW p \in Producers, NEW item \in Items, Push(p, item) PROVE FALSE
    BY <1>1, <2>0, <2>1 DEF Push
  <2>2. ASSUME NEW p \in Producers, PushNotify(p) PROVE FALSE
    BY <1>1, <2>0, <2>2 DEF PushNotify, NotifyAll
  <2>3. ASSUME NEW d \in Consumers, PopCall(d) \/ PopWait(d) \/ SpuriousWakeup(d) PROVE FALSE
    BY <1>1, <2>0, <2>3 DEF PopCall, PopWait, SpuriousWakeup
  <2>4. ASSUME NEW d \in Consumers, TakeFront(d) PROVE FALSE
    <3>1. Head(queue) \in Items
      BY <2>0, <2>4, HeadTailProperties DEF TakeFront
    <3>2. Len(popped') = Len(popped) + 1 /\ Len(popped) \in Nat
      BY <2>0, <2>4, <3>1, AppendProperties DEF TakeFront
    <3>. QED
      BY <1>1, <3>2
  <2>5. ASSUME NEW d \in Consumers, FindEmpty(d) PROVE FALSE
    BY <1>1, <2>0, <2>5 DEF FindEmpty
  <2>6. ASSUME NEW d \in Consumers, PopBegin(d) \/ PopResume(d) PROVE isTerminated
    BY <2>4, <2>5, <2>6 DEF PopBegin, PopResume
  <2>7. ASSUME TerminateFlag \/ TerminateNotify PROVE FALSE
    BY <1>1, <2>0, <2>7 DEF TerminateFlag, TerminateNotify, NotifyAll
  <2>8. ASSUME UNCHANGED vars PROVE FALSE
    BY <1>1, <2>8 DEF vars
  <2>. QED
    BY <1>1, <2>1, <2>2, <2>3, <2>6, <2>7, <2>8 DEF Next
<1>2. TypeOK /\ [Next]_vars =>
        [\A c \in Consumers :
           (pc[c] = "woken" /\ pc'[c] = "idle" /\ popped' = popped) => isTerminated]_vars
  BY <1>1
<1>. QED
  BY <1>2, TypeCorrect, PTL DEF SafeSpec, EmptyHandedOnlyIfTerminated
=============================================================================
