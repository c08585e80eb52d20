----------------------------- MODULE AudioProofs -----------------------------
(***************************************************************************)
(* The two ends of the sound, for any sizes, limits and numbers of calls.  *)
(*                                                                         *)
(* AudioPlayback: each step of the decoder's threads is a step of its      *)
(* queue, or leaves that alone, so that the queue's invariants carry over  *)
(* from SuspensionQueueProofs.  Added to them is where a packet can be     *)
(* once it was popped: dropped, decoded, or in the hand of one thread.     *)
(*                                                                         *)
(* AudioCapture: QuietAfterStop needs that a destroyed capture has no      *)
(* owner left who could begin anything.  KeepsUp needs how much the buffer *)
(* may hold at each point of the thread: one packet comes in for the one   *)
(* frame that goes out.  SafeUntilStopped needs how far the first  *)
(* start() has come, FreshUnlessUnderway where the bytes of an earlier     *)
(* session may still be, and that nobody looks there.                      *)
(***************************************************************************)
EXTENDS AudioCapture, AudioPlayback, SequenceTheorems, FiniteSetTheorems, TLAPS

DecoderQueue == INSTANCE SuspensionQueueProofs WITH
                  Producers <- {PushSide(a) : a \in Adders},
                  Consumers <- {PopSide(a) : a \in Adders} \cup {PopSide(Decoder)},
                  Items <- Packets, NoItem <- NoPacket, MaxPushes <- MaxAdds,
                  isTerminated <- queueTerminated

(* the threads that pop *)
Poppers == Adders \cup {Decoder}

(* nobody terminates the queue, and the packets in it carry their numbers *)
DecoderQueueInv ==
  /\ DecoderQueue!TypeOK /\ DecoderQueue!FifoNoLoss /\ ~queueTerminated
  /\ \A i \in 1 .. Len(pushed) : pushed[i] = i

AddingTypes ==
  /\ adding \in [Adders -> {"out", "trim", "pop", "push", "notify"}]
  /\ decoding \in BOOLEAN

(* a packet that was popped is dropped, decoded, or in one thread's hand *)
Popped == 1 .. Len(popped)
AdderHolds(a) == adding[a] = "pop" /\ pc[PopSide(a)] = "idle"
DecoderHolds == decoding /\ pc[PopSide(Decoder)] = "idle"

HeldApart ==
  /\ decoded \in Seq(Popped) /\ dropped \subseteq Popped
  /\ \A a \in Adders : AdderHolds(a) =>
       /\ got[PopSide(a)] \in Popped \ dropped
       /\ \A i \in 1 .. Len(decoded) : decoded[i] # got[PopSide(a)]
       /\ DecoderHolds => got[PopSide(a)] # got[PopSide(Decoder)]
       /\ \A b \in Adders : AdderHolds(b) /\ b # a => got[PopSide(a)] # got[PopSide(b)]
  /\ DecoderHolds =>
       /\ got[PopSide(Decoder)] \in Popped \ dropped
       /\ \A i \in 1 .. Len(decoded) : decoded[i] < got[PopSide(Decoder)]
  /\ \A i, j \in 1 .. Len(decoded) : i < j => decoded[i] < decoded[j]
  /\ \A i \in 1 .. Len(decoded) : decoded[i] \notin dropped

DecoderInv == DecoderQueueInv /\ AddingTypes /\ HeldApart

-----------------------------------------------------------------------------
(* Each adder has two names in the queue, and nobody else has them.           *)
LEMMA Sides ==
  /\ \A a, b : PopSide(a) = PopSide(b) <=> a = b
  /\ \A a, b : PushSide(a) = PushSide(b) <=> a = b
  /\ \A a, b : PushSide(a) # PopSide(b)
BY DEF PopSide, PushSide

LEMMA DecoderQueueAssumption == DecoderQueue!QueueAssumption
BY DecoderAssumption, Sides DEF DecoderQueue!QueueAssumption, Packets

(* Every step of the decoder and its callers is one of the queue, or leaves   *)
(* it alone; none of them terminates it.                                      *)
LEMMA DecoderMovesQueue ==
  ASSUME [DecoderNext]_decoderVars, DecoderQueueInv
  PROVE  [DecoderQueue!Next]_queueVars /\ UNCHANGED queueTerminated
<1>. USE DEF queueVars
<1>1. ASSUME NEW a \in Adders, AddCall(a) \/ TrimDelete(a)
      PROVE  UNCHANGED queueVars
  BY <1>1 DEF AddCall, TrimDelete
<1>2. ASSUME NEW a \in Adders, TrimTest(a)
      PROVE  (DecoderQueue!PopCall(PopSide(a)) /\ UNCHANGED queueTerminated) \/ UNCHANGED queueVars
  BY <1>2 DEF TrimTest, Queue!PopCall, DecoderQueue!PopCall
<1>3. ASSUME NEW t \in Poppers,
             Queue!PopBegin(PopSide(t)) \/ Queue!PopWait(PopSide(t)) \/ Queue!PopResume(PopSide(t))
      PROVE  /\ \/ DecoderQueue!PopBegin(PopSide(t)) \/ DecoderQueue!PopWait(PopSide(t))
                \/ DecoderQueue!PopResume(PopSide(t))
             /\ UNCHANGED queueTerminated
  <2>. USE DEF Queue!MutexFree, DecoderQueue!MutexFree, Queue!TakeFront, DecoderQueue!TakeFront,
               Queue!FindEmpty, DecoderQueue!FindEmpty, Queue!GiveUp, DecoderQueue!GiveUp
  <2>1. CASE Queue!PopBegin(PopSide(t))
    BY <2>1 DEF Queue!PopBegin, DecoderQueue!PopBegin
  <2>2. CASE Queue!PopWait(PopSide(t))
    BY <2>2 DEF Queue!PopWait, DecoderQueue!PopWait
  <2>3. CASE Queue!PopResume(PopSide(t))
    BY <2>3 DEF Queue!PopResume, DecoderQueue!PopResume
  <2>. QED
    BY <1>3, <2>1, <2>2, <2>3
<1>4. ASSUME NEW a \in Adders, AddPush(a)
      PROVE  /\ \E n \in Packets : DecoderQueue!Push(PushSide(a), n)
             /\ UNCHANGED queueTerminated
  <2>1. Len(pushed) \in Nat
    BY DEF DecoderQueueInv, DecoderQueue!TypeOK
  <2>2. Len(pushed) + 1 \in Packets
    BY <1>4, <2>1, DecoderAssumption DEF AddPush, Queue!Push, Packets
  <2>3. DecoderQueue!Push(PushSide(a), Len(pushed) + 1) /\ UNCHANGED queueTerminated
    BY <1>4 DEF AddPush, Queue!Push, DecoderQueue!Push, Queue!MutexFree, DecoderQueue!MutexFree
  <2>. QED
    BY <2>2, <2>3
<1>5. ASSUME NEW a \in Adders, AddNotify(a)
      PROVE  DecoderQueue!PushNotify(PushSide(a)) /\ UNCHANGED queueTerminated
  BY <1>5 DEF AddNotify, Queue!PushNotify, DecoderQueue!PushNotify, Queue!NotifyAll, DecoderQueue!NotifyAll
<1>6. CASE DecoderCall
  BY <1>6 DEF DecoderCall, Queue!PopCall, DecoderQueue!PopCall, DecoderQueue!Next
<1>7. CASE Decode
  BY <1>7 DEF Decode
<1>8. ASSUME NEW t \in Poppers, Queue!SpuriousWakeup(PopSide(t))
      PROVE  DecoderQueue!SpuriousWakeup(PopSide(t)) /\ UNCHANGED queueTerminated
  BY <1>8 DEF Queue!SpuriousWakeup, DecoderQueue!SpuriousWakeup
<1>9. CASE DecoderPop
  BY <1>9, <1>3 DEF DecoderPop, DecoderQueue!Next, Poppers
<1>10. CASE SpuriousWakeup
  <2>1. PICK t \in Poppers : Queue!SpuriousWakeup(PopSide(t))
    BY <1>10 DEF SpuriousWakeup, Poppers
  <2>. QED
    BY <2>1, <1>8 DEF DecoderQueue!Next, Poppers
<1>11. ASSUME NEW a \in Adders, TrimPop(a)
       PROVE  [DecoderQueue!Next]_queueVars /\ UNCHANGED queueTerminated
  BY <1>11, <1>3 DEF TrimPop, DecoderQueue!Next, Poppers
<1>. QED
  BY <1>1, <1>2, <1>4, <1>5, <1>6, <1>7, <1>9, <1>10, <1>11
     DEF DecoderNext, AdderStep, DecoderStep, decoderVars, DecoderQueue!Next

-----------------------------------------------------------------------------
(* What is queued continues what was popped, so that the head is the next.    *)
LEMMA HeadIsNext ==
  ASSUME DecoderQueueInv, queue # <<>>
  PROVE  Head(queue) = Len(popped) + 1 /\ Head(queue) \in Packets
<1>1. /\ queue \in Seq(Packets) /\ popped \in Seq(Packets) /\ pushed = popped \o queue
  BY DEF DecoderQueueInv, DecoderQueue!TypeOK, DecoderQueue!FifoNoLoss
<1>2. Head(queue) = queue[1] /\ Len(queue) \in Nat /\ Len(queue) > 0 /\ Head(queue) \in Packets
  BY <1>1, HeadTailProperties, EmptySeq
<1>3. Len(popped) \in Nat
  BY <1>1
<1>4. Len(pushed) = Len(popped) + Len(queue)
  BY <1>1, ConcatProperties
<1>5. pushed[Len(popped) + 1] = queue[1]
  BY <1>1, <1>2, <1>3, ConcatProperties
<1>6. pushed[Len(popped) + 1] = Len(popped) + 1
  BY <1>2, <1>3, <1>4 DEF DecoderQueueInv
<1>. QED
  BY <1>2, <1>5, <1>6

(* The packets of a step that pops nothing, seen from a thread's hand.        *)
HandsStay ==
  /\ UNCHANGED <<got, popped>>
  /\ \A t \in Poppers : pc'[PopSide(t)] = "idle" <=> pc[PopSide(t)] = "idle"

(* t takes the next packet *)
TakesNext(t) ==
  /\ pc[PopSide(t)] # "idle"
  /\ pc' = [pc EXCEPT ![PopSide(t)] = "idle"]
  /\ got' = [got EXCEPT ![PopSide(t)] = Len(popped) + 1]
  /\ Len(popped') = Len(popped) + 1
  /\ Len(queue') = Len(queue) - 1

(* A thread inside pop takes the next packet, or goes on waiting.             *)
LEMMA PopEffect ==
  ASSUME DecoderQueueInv, NEW t \in Poppers,
         Queue!PopBegin(PopSide(t)) \/ Queue!PopWait(PopSide(t)) \/ Queue!PopResume(PopSide(t))
  PROVE  (HandsStay /\ queue' = queue) \/ TakesNext(t)
<1>1. /\ queue \in Seq(Packets) /\ popped \in Seq(Packets) /\ ~queueTerminated
      /\ pc \in [{PushSide(a) : a \in Adders} \cup ({PopSide(a) : a \in Adders} \cup {PopSide(Decoder)})
                  -> {"idle", "unlocked", "entering", "mustWait", "waiting", "woken"}]
  BY DEF DecoderQueueInv, DecoderQueue!TypeOK, DecoderQueue!ProducerStates, DecoderQueue!ConsumerStates
<1>2. ASSUME Queue!TakeFront(PopSide(t)), pc[PopSide(t)] # "idle" PROVE TakesNext(t)
  <2>1. Head(queue) = Len(popped) + 1 /\ Len(Tail(queue)) = Len(queue) - 1
    BY <1>1, <1>2, HeadIsNext, HeadTailProperties DEF Queue!TakeFront
  <2>2. Len(Append(popped, Head(queue))) = Len(popped) + 1
    BY <1>1
  <2>. QED
    BY <1>2, <2>1, <2>2 DEF Queue!TakeFront, TakesNext
<1>3. ASSUME Queue!FindEmpty(PopSide(t)), pc[PopSide(t)] # "idle" PROVE HandsStay /\ queue' = queue
  BY <1>1, <1>3, Sides DEF Queue!FindEmpty, HandsStay, Poppers
<1>4. ASSUME Queue!PopWait(PopSide(t)) PROVE HandsStay /\ queue' = queue
  BY <1>1, <1>4, Sides DEF Queue!PopWait, HandsStay, Poppers
<1>. QED
  BY <1>1, <1>2, <1>3, <1>4 DEF Queue!PopBegin, Queue!PopResume

-----------------------------------------------------------------------------
(* The queue of the decoder stays one, and the packets in it numbered.        *)
LEMMA DecoderQueueStep == DecoderQueueInv /\ [DecoderNext]_decoderVars => DecoderQueueInv'
<1> SUFFICES ASSUME DecoderQueueInv, [DecoderNext]_decoderVars PROVE DecoderQueueInv'
  OBVIOUS
<1>1. [DecoderQueue!Next]_queueVars /\ UNCHANGED queueTerminated
  BY DecoderMovesQueue
<1>2. [DecoderQueue!Next]_(DecoderQueue!vars)
  BY <1>1 DEF queueVars, DecoderQueue!vars
<1>3. DecoderQueue!TypeOK' /\ DecoderQueue!FifoNoLoss' /\ ~queueTerminated'
  BY <1>1, <1>2, DecoderQueueAssumption, DecoderQueue!TypeStep, DecoderQueue!FifoStep DEF DecoderQueueInv
<1>4. \/ \E a \in Adders : AddPush(a)
      \/ UNCHANGED pushed
  BY DEF DecoderNext, AdderStep, DecoderStep, decoderVars, queueVars, AddCall, TrimTest, TrimPop, TrimDelete,
         AddNotify, DecoderCall, DecoderPop, Decode, SpuriousWakeup, Queue!PushNotify, Queue!PopCall,
         Queue!PopBegin, Queue!PopWait, Queue!PopResume, Queue!SpuriousWakeup, Queue!TakeFront,
         Queue!FindEmpty, Queue!GiveUp
<1>5. \A i \in 1 .. Len(pushed') : pushed'[i] = i
  <2>1. pushed \in Seq(Packets) /\ \A i \in 1 .. Len(pushed) : pushed[i] = i
    BY DEF DecoderQueueInv, DecoderQueue!TypeOK
  <2>2. CASE UNCHANGED pushed
    BY <2>1, <2>2
  <2>3. CASE \E a \in Adders : AddPush(a)
    <3>1. pushed' = Append(pushed, Len(pushed) + 1)
      BY <2>3 DEF AddPush, Queue!Push
    <3>. QED
      BY <2>1, <3>1
  <2>. QED
    BY <1>4, <2>2, <2>3
<1>. QED
  BY <1>3, <1>5 DEF DecoderQueueInv

LEMMA AddingTypesStep == AddingTypes /\ [DecoderNext]_decoderVars => AddingTypes'
<1> SUFFICES ASSUME AddingTypes, [DecoderNext]_decoderVars PROVE AddingTypes'
  OBVIOUS
<1>. USE DEF AddingTypes, AdderGoes
<1>1. ASSUME NEW a \in Adders, AddCall(a) \/ AdderStep(a) PROVE AddingTypes'
  BY <1>1 DEF AdderStep, AddCall, TrimTest, TrimPop, TrimDelete, AddPush, AddNotify
<1>2. CASE DecoderStep \/ SpuriousWakeup \/ UNCHANGED decoderVars
  BY <1>2 DEF DecoderStep, DecoderCall, DecoderPop, Decode, SpuriousWakeup, decoderVars
<1>. QED
  BY <1>1, <1>2 DEF DecoderNext

(* What nobody takes or lets go of stays apart.                               *)
LEMMA NothingTaken ==
  ASSUME HeldApart, UNCHANGED <<got, popped, dropped, decoded>>,
         \A a \in Adders : AdderHolds(a)' => AdderHolds(a),
         DecoderHolds' => DecoderHolds
  PROVE  HeldApart'
<1>1. Popped' = Popped
  BY DEF Popped
<1>. QED
  BY <1>1, Zenon DEF HeldApart

(* The packet a thread takes next is in nobody's hand and greater than all    *)
(* that were decoded.                                                         *)
LEMMA NextTaken ==
  ASSUME DecoderInv, NEW t \in Poppers, TakesNext(t), UNCHANGED <<adding, decoding, dropped, decoded>>
  PROVE  HeldApart'
<1>. DEFINE n == Len(popped) + 1
<1>1. /\ popped \in Seq(Packets) /\ Len(popped) \in Nat
      /\ \A u \in Poppers : PopSide(u) \in DOMAIN pc /\ PopSide(u) \in DOMAIN got
  BY DEF DecoderInv, DecoderQueueInv, DecoderQueue!TypeOK, Poppers
<1>2. Popped' = Popped \cup {n} /\ n \notin Popped /\ \A m \in Popped : m < n
  BY <1>1 DEF Popped, TakesNext
<1>3. /\ decoded \in Seq(Popped)
      /\ \A i \in 1 .. Len(decoded) : decoded[i] \in Popped
  BY DEF DecoderInv, HeldApart
<1>4. decoded' \in Seq(Popped')
  BY <1>2, <1>3
<1>5. \A u \in Poppers : IF u = t THEN got'[PopSide(u)] = n /\ pc[PopSide(u)] # "idle"
                                  ELSE /\ got'[PopSide(u)] = got[PopSide(u)]
                                       /\ pc'[PopSide(u)] = pc[PopSide(u)]
  BY <1>1, Sides DEF TakesNext, Poppers
<1>6. ASSUME NEW a \in Adders, AdderHolds(a)', a # t
      PROVE  AdderHolds(a) /\ got'[PopSide(a)] = got[PopSide(a)]
  BY <1>5, <1>6 DEF AdderHolds, Poppers
<1>7. ASSUME DecoderHolds', Decoder # t
      PROVE  DecoderHolds /\ got'[PopSide(Decoder)] = got[PopSide(Decoder)]
  BY <1>5, <1>7 DEF DecoderHolds, Poppers
<1>8. t \in Adders => got'[PopSide(t)] = n
  BY <1>5 DEF Poppers
<1>9. Decoder = t => got'[PopSide(Decoder)] = n
  BY <1>5 DEF Poppers
<1>. HIDE DEF n
<1>10. ASSUME NEW a \in Adders, AdderHolds(a)'
       PROVE  /\ got'[PopSide(a)] \in Popped' \ dropped'
              /\ \A i \in 1 .. Len(decoded') : decoded'[i] # got'[PopSide(a)]
              /\ DecoderHolds' => got'[PopSide(a)] # got'[PopSide(Decoder)]
              /\ \A b \in Adders : AdderHolds(b)' /\ b # a => got'[PopSide(a)] # got'[PopSide(b)]
  <2>1. dropped \subseteq Popped /\ Decoder \notin Adders
    BY DecoderAssumption DEF DecoderInv, HeldApart
  <2>2. CASE a = t
    <3>1. got'[PopSide(a)] = n
      BY <1>8, <2>2
    <3>2. n \in Popped' \ dropped' /\ \A i \in 1 .. Len(decoded') : decoded'[i] # n
      BY <1>2, <1>3, <2>1
    <3>3. DecoderHolds' => got'[PopSide(Decoder)] \in Popped
      BY <1>7, <2>1, <2>2 DEF DecoderInv, HeldApart
    <3>4. \A b \in Adders : AdderHolds(b)' /\ b # a => got'[PopSide(b)] \in Popped
      BY <1>6, <2>2 DEF DecoderInv, HeldApart
    <3>. QED
      BY <1>2, <3>1, <3>2, <3>3, <3>4
  <2>3. CASE a # t
    <3>1. AdderHolds(a) /\ got'[PopSide(a)] = got[PopSide(a)]
      BY <1>6, <1>10, <2>3
    <3>2. /\ got[PopSide(a)] \in Popped \ dropped
          /\ \A i \in 1 .. Len(decoded) : decoded[i] # got[PopSide(a)]
          /\ DecoderHolds => got[PopSide(a)] # got[PopSide(Decoder)]
          /\ \A b \in Adders : AdderHolds(b) /\ b # a => got[PopSide(a)] # got[PopSide(b)]
      BY <3>1 DEF DecoderInv, HeldApart
    <3>3. DecoderHolds' => got[PopSide(a)] # got'[PopSide(Decoder)]
      BY <1>2, <1>7, <1>9, <3>2
    <3>4. \A b \in Adders : AdderHolds(b)' /\ b # a => got[PopSide(a)] # got'[PopSide(b)]
      BY <1>2, <1>6, <1>8, <3>2
    <3>. QED
      BY <1>2, <3>1, <3>2, <3>3, <3>4
  <2>. QED
    BY <2>2, <2>3
<1>11. ASSUME DecoderHolds'
       PROVE  /\ got'[PopSide(Decoder)] \in Popped' \ dropped'
              /\ \A i \in 1 .. Len(decoded') : decoded'[i] < got'[PopSide(Decoder)]
  <2>1. dropped \subseteq Popped
    BY DEF DecoderInv, HeldApart
  <2>2. CASE Decoder = t
    BY <1>2, <1>3, <1>9, <2>1, <2>2
  <2>3. CASE Decoder # t
    BY <1>2, <1>7, <1>11, <2>3 DEF DecoderInv, HeldApart
  <2>. QED
    BY <2>2, <2>3
<1>12. /\ dropped' \subseteq Popped'
       /\ \A i, j \in 1 .. Len(decoded') : i < j => decoded'[i] < decoded'[j]
       /\ \A i \in 1 .. Len(decoded') : decoded'[i] \notin dropped'
  BY <1>2 DEF DecoderInv, HeldApart
<1>. QED
  BY <1>4, <1>10, <1>11, <1>12 DEF HeldApart

-----------------------------------------------------------------------------
(* A thread that deletes or decodes what it took lets go of it.               *)
LEMMA TrimmedApart ==
  ASSUME DecoderInv, NEW a \in Adders, TrimDelete(a)
  PROVE  HeldApart'
<1>1. AdderHolds(a) /\ UNCHANGED <<pc, got, popped, decoding, decoded>> /\ dropped' = dropped \cup {got[PopSide(a)]}
  BY DEF TrimDelete, AdderHolds, queueVars
<1>2. \A b \in Adders : AdderHolds(b)' => AdderHolds(b) /\ b # a
  BY <1>1 DEF TrimDelete, AdderGoes, AdderHolds, DecoderInv, AddingTypes
<1>3. DecoderHolds' => DecoderHolds
  BY <1>1 DEF DecoderHolds
<1>4. Popped' = Popped
  BY <1>1 DEF Popped
<1>5. got[PopSide(a)] \in Popped
  BY <1>1 DEF DecoderInv, HeldApart
<1>6. \A b \in Adders : AdderHolds(b)' =>
       /\ got'[PopSide(b)] \in Popped' \ dropped'
       /\ \A i \in 1 .. Len(decoded') : decoded'[i] # got'[PopSide(b)]
       /\ DecoderHolds' => got'[PopSide(b)] # got'[PopSide(Decoder)]
       /\ \A d \in Adders : AdderHolds(d)' /\ d # b => got'[PopSide(b)] # got'[PopSide(d)]
  BY <1>1, <1>2, <1>3, <1>4 DEF DecoderInv, HeldApart
<1>7. DecoderHolds' =>
       /\ got'[PopSide(Decoder)] \in Popped' \ dropped'
       /\ \A i \in 1 .. Len(decoded') : decoded'[i] < got'[PopSide(Decoder)]
  BY <1>1, <1>3, <1>4 DEF DecoderInv, HeldApart
<1>8. \A i \in 1 .. Len(decoded') : decoded'[i] \notin dropped'
  BY <1>1 DEF DecoderInv, HeldApart
<1>. QED
  BY <1>1, <1>4, <1>5, <1>6, <1>7, <1>8 DEF DecoderInv, HeldApart

LEMMA DecodedApart ==
  ASSUME DecoderInv, Decode
  PROVE  HeldApart'
<1>. DEFINE n == got[PopSide(Decoder)]
<1>1. /\ DecoderHolds /\ ~DecoderHolds'
      /\ UNCHANGED <<pc, got, popped, adding, dropped>> /\ decoded' = Append(decoded, n)
  BY DEF Decode, DecoderHolds, queueVars
<1>2. Popped' = Popped /\ \A b \in Adders : AdderHolds(b)' => AdderHolds(b)
  BY <1>1 DEF Popped, AdderHolds
<1>3. /\ n \in Popped \ dropped /\ decoded \in Seq(Popped)
      /\ \A i \in 1 .. Len(decoded) : decoded[i] < n
  BY <1>1 DEF DecoderInv, HeldApart
<1>4. /\ decoded' \in Seq(Popped) /\ Len(decoded') = Len(decoded) + 1 /\ Len(decoded) \in Nat
      /\ decoded'[Len(decoded) + 1] = n
      /\ \A i \in 1 .. Len(decoded) : decoded'[i] = decoded[i]
  BY <1>1, <1>3
<1>5. \A b \in Adders : AdderHolds(b) => got[PopSide(b)] # n
  BY <1>1 DEF DecoderInv, HeldApart
<1>. HIDE DEF n
<1>6. \A i \in 1 .. Len(decoded') : \/ i = Len(decoded) + 1 /\ decoded'[i] = n
                                    \/ i \in 1 .. Len(decoded) /\ decoded'[i] = decoded[i]
  BY <1>4
<1>7. \A b \in Adders : AdderHolds(b)' =>
       /\ got'[PopSide(b)] \in Popped' \ dropped'
       /\ \A i \in 1 .. Len(decoded') : decoded'[i] # got'[PopSide(b)]
       /\ \A d \in Adders : AdderHolds(d)' /\ d # b => got'[PopSide(b)] # got'[PopSide(d)]
  BY <1>1, <1>2, <1>5, <1>6 DEF DecoderInv, HeldApart
<1>8. \A i \in 1 .. Len(decoded') : decoded'[i] \notin dropped'
  BY <1>1, <1>3, <1>6 DEF DecoderInv, HeldApart
<1>9. \A i, j \in 1 .. Len(decoded') : i < j => decoded'[i] < decoded'[j]
  BY <1>3, <1>4, <1>6 DEF DecoderInv, HeldApart
<1>10. dropped' \subseteq Popped'
  BY <1>1, <1>2 DEF DecoderInv, HeldApart
<1>. QED
  BY <1>1, <1>2, <1>4, <1>7, <1>8, <1>9, <1>10 DEF HeldApart

LEMMA HeldApartStep ==
  ASSUME DecoderInv, [DecoderNext]_decoderVars
  PROVE  HeldApart'
<1>1. /\ adding \in [Adders -> {"out", "trim", "pop", "push", "notify"}] /\ Decoder \notin Adders
      /\ pc \in [{PushSide(a) : a \in Adders} \cup ({PopSide(a) : a \in Adders} \cup {PopSide(Decoder)})
                  -> {"idle", "unlocked", "entering", "mustWait", "waiting", "woken"}]
  BY DecoderAssumption DEF DecoderInv, AddingTypes, DecoderQueueInv, DecoderQueue!TypeOK,
     DecoderQueue!ProducerStates, DecoderQueue!ConsumerStates
<1>2. HeldApart
  BY DEF DecoderInv
<1>3. ASSUME NEW a \in Adders, AddCall(a) PROVE HeldApart'
  <2>1. \A b \in Adders : AdderHolds(b)' => AdderHolds(b)
    BY <1>1, <1>3 DEF AddCall, AdderGoes, AdderHolds, queueVars
  <2>2. DecoderHolds' => DecoderHolds
    BY <1>3 DEF AddCall, DecoderHolds, queueVars
  <2>. QED
    BY <1>2, <1>3, <2>1, <2>2, NothingTaken DEF AddCall, queueVars
<1>4. ASSUME NEW a \in Adders, TrimTest(a) PROVE HeldApart'
  <2>1. \A b \in Adders : AdderHolds(b)' => AdderHolds(b)
    BY <1>1, <1>4, Sides DEF TrimTest, AdderGoes, AdderHolds, queueVars, Queue!PopCall
  <2>2. DecoderHolds' => DecoderHolds
    BY <1>1, <1>4, Sides DEF TrimTest, DecoderHolds, queueVars, Queue!PopCall
  <2>. QED
    BY <1>2, <1>4, <2>1, <2>2, NothingTaken DEF TrimTest, queueVars, Queue!PopCall
<1>5. ASSUME HandsStay, UNCHANGED <<adding, decoding, dropped, decoded>> PROVE HeldApart'
  <2>1. \A b \in Adders : AdderHolds(b)' => AdderHolds(b)
    BY <1>5 DEF HandsStay, AdderHolds, Poppers
  <2>2. DecoderHolds' => DecoderHolds
    BY <1>5 DEF HandsStay, DecoderHolds, Poppers
  <2>. QED
    BY <1>2, <1>5, <2>1, <2>2, NothingTaken DEF HandsStay
<1>6. ASSUME NEW t \in Poppers,
             Queue!PopBegin(PopSide(t)) \/ Queue!PopWait(PopSide(t)) \/ Queue!PopResume(PopSide(t)),
             UNCHANGED <<adding, decoding, dropped, decoded>>
      PROVE  HeldApart'
  <2>1. HandsStay \/ TakesNext(t)
    BY <1>6, PopEffect DEF DecoderInv
  <2>. QED
    BY <1>5, <1>6, <2>1, NextTaken
<1>7. ASSUME NEW a \in Adders, TrimPop(a) PROVE HeldApart'
  BY <1>6, <1>7 DEF TrimPop, Poppers
<1>8. CASE DecoderPop
  BY <1>6, <1>8 DEF DecoderPop, Poppers
<1>9. ASSUME NEW a \in Adders, AddPush(a) PROVE HeldApart'
  <2>1. \A t \in Poppers : pc'[PopSide(t)] = pc[PopSide(t)]
    BY <1>1, <1>9, Sides DEF AddPush, Queue!Push, Poppers
  <2>2. \A b \in Adders : AdderHolds(b)' => AdderHolds(b)
    BY <1>1, <1>9, <2>1 DEF AddPush, AdderGoes, AdderHolds, Poppers
  <2>3. DecoderHolds' => DecoderHolds
    BY <1>9, <2>1 DEF AddPush, DecoderHolds, Poppers
  <2>. QED
    BY <1>2, <1>9, <2>2, <2>3, NothingTaken DEF AddPush, Queue!Push
<1>10. ASSUME NEW a \in Adders, AddNotify(a) PROVE HeldApart'
  <2>1. \A t \in Poppers : pc'[PopSide(t)] = "idle" => pc[PopSide(t)] = "idle"
    BY <1>1, <1>10, Sides DEF AddNotify, Queue!PushNotify, Queue!NotifyAll, Poppers
  <2>2. \A b \in Adders : AdderHolds(b)' => AdderHolds(b)
    BY <1>1, <1>10, <2>1 DEF AddNotify, AdderGoes, AdderHolds, Poppers
  <2>3. DecoderHolds' => DecoderHolds
    BY <1>10, <2>1 DEF AddNotify, DecoderHolds, Poppers
  <2>. QED
    BY <1>2, <1>10, <2>2, <2>3, NothingTaken DEF AddNotify, Queue!PushNotify
<1>11. CASE DecoderCall
  <2>1. \A t \in Poppers : pc'[PopSide(t)] = "idle" => pc[PopSide(t)] = "idle" /\ t # Decoder
    BY <1>1, <1>11, Sides DEF DecoderCall, Queue!PopCall, Poppers
  <2>2. \A b \in Adders : AdderHolds(b)' => AdderHolds(b)
    BY <1>11, <2>1 DEF DecoderCall, AdderHolds, Poppers
  <2>3. ~DecoderHolds'
    BY <2>1 DEF DecoderHolds, Poppers
  <2>. QED
    BY <1>2, <1>11, <2>2, <2>3, NothingTaken DEF DecoderCall, Queue!PopCall
<1>12. CASE SpuriousWakeup
  <2>1. PICK t \in Poppers : Queue!SpuriousWakeup(PopSide(t))
    BY <1>12 DEF SpuriousWakeup, Poppers
  <2>2. HandsStay
    BY <1>1, <2>1, Sides DEF Queue!SpuriousWakeup, HandsStay, Poppers
  <2>. QED
    BY <1>5, <1>12, <2>2 DEF SpuriousWakeup
<1>13. CASE UNCHANGED decoderVars
  <2>1. HandsStay
    BY <1>13 DEF HandsStay, decoderVars, queueVars
  <2>. QED
    BY <1>5, <1>13, <2>1 DEF decoderVars
<1>. QED
  BY <1>3, <1>4, <1>7, <1>8, <1>9, <1>10, <1>11, <1>12, <1>13, TrimmedApart, DecodedApart
     DEF DecoderNext, AdderStep, DecoderStep

(* What DecoderInv says holds at first and in every step.                     *)
LEMMA DecoderInvInit == DecoderInit => DecoderInv
<1> SUFFICES ASSUME DecoderInit PROVE DecoderInv
  OBVIOUS
<1>1. DecoderQueue!Init /\ pushed = <<>> /\ ~queueTerminated
  BY DEF DecoderInit, Queue!Init, DecoderQueue!Init
<1>2. DecoderQueue!TypeOK
  BY <1>1, DecoderQueueAssumption, DecoderQueue!TypeInit
<1>3. DecoderQueue!FifoNoLoss
  BY <1>1 DEF DecoderQueue!Init, DecoderQueue!FifoNoLoss
<1>4. DecoderQueueInv
  BY <1>1, <1>2, <1>3 DEF DecoderQueueInv
<1>5. AddingTypes /\ \A a \in Adders : adding[a] = "out"
  BY DEF DecoderInit, AddingTypes
<1>6. decoded = <<>> /\ dropped = {} /\ decoding = FALSE
  BY DEF DecoderInit
<1>7. HeldApart
  BY <1>5, <1>6 DEF HeldApart, AdderHolds, DecoderHolds
<1>. QED
  BY <1>4, <1>5, <1>7 DEF DecoderInv

LEMMA DecoderInvStep == DecoderInv /\ [DecoderNext]_decoderVars => DecoderInv'
BY DecoderQueueStep, AddingTypesStep, HeldApartStep DEF DecoderInv

-----------------------------------------------------------------------------
(* An adder on its way to push has seen a queue within the limit.             *)
Pushers == {a \in Adders : adding[a] = "push"}
DelayInv == Len(queue) + Cardinality(Pushers) <= DelayLimit + Cardinality(Adders)

(* The adders on their way to push are no more than the adders.               *)
LEMMA PushersAreFew ==
  /\ IsFiniteSet(Pushers) /\ Cardinality(Pushers) \in Nat
  /\ Cardinality(Adders) \in Nat
  /\ Cardinality(Pushers) <= Cardinality(Adders)
<1>1. IsFiniteSet(Adders) /\ Pushers \subseteq Adders
  BY DecoderAssumption DEF Pushers
<1>. QED
  BY <1>1, FS_Subset, FS_CardinalityType

LEMMA DelayInvStep ==
  ASSUME DecoderInv, DelayInv, [DecoderNext]_decoderVars
  PROVE  DelayInv'
<1>1. /\ adding \in [Adders -> {"out", "trim", "pop", "push", "notify"}]
      /\ queue \in Seq(Packets) /\ Len(queue) \in Nat
      /\ DelayLimit \in Nat /\ Keep \in Nat /\ Keep <= DelayLimit /\ IsFiniteSet(Adders)
  BY DecoderAssumption DEF DecoderInv, AddingTypes, DecoderQueueInv, DecoderQueue!TypeOK
<1>2. /\ Cardinality(Pushers) \in Nat /\ Cardinality(Pushers') \in Nat
      /\ Cardinality(Adders) \in Nat
      /\ IsFiniteSet(Pushers) /\ IsFiniteSet(Pushers')
      /\ Cardinality(Pushers') <= Cardinality(Adders)
  <2>1. IsFiniteSet(Pushers') /\ Cardinality(Pushers') \in Nat /\ Cardinality(Pushers') <= Cardinality(Adders)
    <3>1. Pushers' \subseteq Adders
      BY DEF Pushers
    <3>. QED
      BY <1>1, <3>1, FS_Subset, FS_CardinalityType
  <2>. QED
    BY <2>1, PushersAreFew
<1>3. ASSUME Pushers' = Pushers, queue' = queue \/ Len(queue') = Len(queue) - 1 PROVE DelayInv'
  BY <1>1, <1>2, <1>3 DEF DelayInv
<1>4. ASSUME queue' = queue, Len(queue) <= DelayLimit PROVE DelayInv'
  BY <1>1, <1>2, <1>4 DEF DelayInv
<1>5. ASSUME NEW a \in Adders, AddCall(a) PROVE DelayInv'
  <2>1. queue' = queue
    BY <1>5 DEF AddCall, queueVars
  <2>2. CASE Len(queue) <= DelayLimit
    BY <1>4, <2>1, <2>2
  <2>3. CASE ~(Len(queue) <= DelayLimit)
    <3>. DEFINE long == Len(queue) > DelayLimit
    <3>0. long
      BY <1>1, <2>3
    <3>1. adding[a] = "out" /\ adding' = [adding EXCEPT ![a] = "trim"]
      <4>1. adding[a] = "out" /\ adding' = [adding EXCEPT ![a] = IF long THEN "trim" ELSE "push"]
        BY <1>5 DEF AddCall, AdderGoes
      <4>. HIDE DEF long
      <4>. QED
        BY <3>0, <4>1
    <3>2. Pushers' = Pushers
      BY <1>1, <3>1 DEF Pushers
    <3>. QED
      BY <1>3, <2>1, <3>2
  <2>. QED
    BY <2>2, <2>3
<1>6. ASSUME NEW a \in Adders, TrimTest(a) PROVE DelayInv'
  <2>1. queue' = queue
    BY <1>6 DEF TrimTest, queueVars, Queue!PopCall
  <2>2. CASE Len(queue) <= DelayLimit
    BY <1>4, <2>1, <2>2
  <2>3. CASE ~(Len(queue) <= DelayLimit)
    <3>0. Len(queue) > Keep
      BY <1>1, <2>3
    <3>1. adding[a] = "trim" /\ adding' = [adding EXCEPT ![a] = "pop"]
      BY <1>6, <3>0 DEF TrimTest, AdderGoes
    <3>2. Pushers' = Pushers
      BY <1>1, <3>1 DEF Pushers
    <3>. QED
      BY <1>3, <2>1, <3>2
  <2>. QED
    BY <2>2, <2>3
<1>7. ASSUME NEW t \in Poppers, UNCHANGED adding,
             Queue!PopBegin(PopSide(t)) \/ Queue!PopWait(PopSide(t)) \/ Queue!PopResume(PopSide(t))
      PROVE  DelayInv'
  <2>1. Pushers' = Pushers
    BY <1>7 DEF Pushers
  <2>. QED
    BY <1>3, <1>7, <2>1, PopEffect DEF DecoderInv, TakesNext
<1>8. ASSUME NEW a \in Adders, TrimPop(a) PROVE DelayInv'
  BY <1>7, <1>8 DEF TrimPop, Poppers
<1>9. CASE DecoderPop
  BY <1>7, <1>9 DEF DecoderPop, Poppers
<1>10. ASSUME NEW a \in Adders, TrimDelete(a) \/ AddNotify(a) PROVE DelayInv'
  <2>1. queue' = queue /\ adding[a] \in {"pop", "notify"} /\ \E to \in {"trim", "out"} : adding' = [adding EXCEPT ![a] = to]
    BY <1>10 DEF TrimDelete, AddNotify, AdderGoes, queueVars, Queue!PushNotify
  <2>2. Pushers' = Pushers
    BY <1>1, <2>1 DEF Pushers
  <2>. QED
    BY <1>3, <2>1, <2>2
<1>11. ASSUME NEW a \in Adders, AddPush(a) PROVE DelayInv'
  <2>1. Len(queue') = Len(queue) + 1
    BY <1>1, <1>11 DEF AddPush, Queue!Push
  <2>2. a \in Pushers /\ Pushers' = Pushers \ {a}
    BY <1>1, <1>11 DEF AddPush, AdderGoes, Pushers
  <2>3. Cardinality(Pushers') = Cardinality(Pushers) - 1
    BY <1>2, <2>2, FS_RemoveElement
  <2>. QED
    BY <1>1, <1>2, <2>1, <2>3 DEF DelayInv
<1>12. CASE DecoderCall \/ Decode \/ SpuriousWakeup \/ UNCHANGED decoderVars
  <2>1. queue' = queue /\ adding' = adding
    BY <1>12 DEF DecoderCall, Decode, SpuriousWakeup, decoderVars, queueVars, Queue!PopCall, Queue!SpuriousWakeup
  <2>2. Pushers' = Pushers
    BY <2>1 DEF Pushers
  <2>. QED
    BY <1>3, <2>1, <2>2
<1>. QED
  BY <1>5, <1>6, <1>8, <1>9, <1>10, <1>11, <1>12 DEF DecoderNext, AdderStep, DecoderStep

LEMMA DelayInvInit == DecoderInit => DelayInv
<1> SUFFICES ASSUME DecoderInit PROVE DelayInv
  OBVIOUS
<1>1. Len(queue) = 0
  BY DEF DecoderInit, Queue!Init
<1>. QED
  BY <1>1, PushersAreFew, DecoderAssumption DEF DelayInv

(* Playing adds to the decoder, or leaves it alone.                           *)
LEMMA PlaybackMovesDecoder == [PlaybackNext]_allVars => [DecoderNext]_decoderVars
BY DEF PlaybackNext, allVars, OpenOutput, Play, PlayStep, DecoderThreadStep, DecodeAndPlay, PlayCallback, Skip,
       SkipPop, DestroyUnZip, DecoderNext, DecoderStep

LEMMA PlaybackKeepsDecoder == PlaybackSpec => [](DecoderInv /\ DelayInv)
<1>1. PlaybackInit => DecoderInv /\ DelayInv
  BY DecoderInvInit, DelayInvInit DEF PlaybackInit
<1>2. DecoderInv /\ DelayInv /\ [PlaybackNext]_allVars => (DecoderInv /\ DelayInv)'
  BY DecoderInvStep, DelayInvStep, PlaybackMovesDecoder
<1>. QED
  BY <1>1, <1>2, PTL DEF PlaybackSpec

(* However many callers add at once, between the test of the size and the     *)
(* push of AudioDecoder.hpp:32-40 the queue exceeds MAX_DELAY_LIMIT_COUNT by  *)
(* one packet for each of them at most.                                      *)
THEOREM DelayIsBounded == PlaybackSpec => []DelayBounded
<1>1. DecoderInv /\ DelayInv => DelayBounded
  BY PushersAreFew, DecoderAssumption DEF DelayInv, DelayBounded, DecoderInv, DecoderQueueInv, DecoderQueue!TypeOK
<1>. QED
  BY <1>1, PlaybackKeepsDecoder, PTL

-----------------------------------------------------------------------------
(* What was decoded is in order in the output, behind what was played.        *)
OutputInv ==
  /\ output \in Seq(Packets) /\ played \in Seq(Packets)
  /\ \A i, j \in 1 .. Len(output) : i < j => output[i] < output[j]
  /\ \A i, j \in 1 .. Len(played) : i < j => played[i] < played[j]
  /\ \A i \in 1 .. Len(played), j \in 1 .. Len(output) : played[i] < output[j]
  /\ Elements(output) \cap skipped = {}
  /\ Elements(played) \cap skipped = {}
  /\ Elements(decoded) = Elements(played) \cup skipped \cup Elements(output)

LEMMA ElementsOfAppend ==
  ASSUME NEW S, NEW s \in Seq(S), NEW e \in S
  PROVE  Elements(Append(s, e)) = Elements(s) \cup {e}
<1>1. /\ DOMAIN s = 1 .. Len(s) /\ Len(s) \in Nat
      /\ DOMAIN Append(s, e) = 1 .. Len(s) + 1
      /\ Append(s, e)[Len(s) + 1] = e
      /\ \A i \in 1 .. Len(s) : Append(s, e)[i] = s[i]
  OBVIOUS
<1>2. 1 .. Len(s) + 1 = (1 .. Len(s)) \cup {Len(s) + 1}
  BY <1>1
<1>. QED
  BY <1>1, <1>2 DEF Elements

LEMMA ElementsOfTail ==
  ASSUME NEW S, NEW s \in Seq(S), s # <<>>
  PROVE  Elements(s) = {Head(s)} \cup Elements(Tail(s))
<1>. DEFINE first == Head(s)
            rest == Tail(s)
<1>1. /\ DOMAIN s = 1 .. Len(s) /\ Len(s) \in Nat \ {0} /\ first = s[1]
      /\ rest \in Seq(S) /\ Len(rest) = Len(s) - 1
      /\ \A i \in 1 .. Len(s) - 1 : rest[i] = s[i + 1]
  BY HeadTailProperties, EmptySeq
<1>. HIDE DEF first, rest
<1>2. DOMAIN rest = 1 .. Len(rest)
  BY <1>1
<1>3. \A i \in 1 .. Len(s) : s[i] = first \/ \E j \in 1 .. Len(rest) : s[i] = rest[j]
  <2>. TAKE i \in 1 .. Len(s)
  <2>1. i # 1 => i - 1 \in 1 .. Len(rest) /\ s[i] = rest[i - 1]
    BY <1>1
  <2>. QED
    BY <1>1, <2>1
<1>4. 1 \in 1 .. Len(s) /\ \A j \in 1 .. Len(rest) : j + 1 \in 1 .. Len(s) /\ rest[j] = s[j + 1]
  BY <1>1
<1>5. Elements(s) = {first} \cup Elements(rest)
  <2>1. /\ \A e : e \in Elements(s) <=> \E i \in 1 .. Len(s) : e = s[i]
        /\ \A e : e \in Elements(rest) <=> \E i \in 1 .. Len(rest) : e = rest[i]
    BY <1>1, <1>2, Zenon DEF Elements
  <2>2. ASSUME NEW e \in Elements(s) PROVE e \in {first} \cup Elements(rest)
    BY <1>3, <2>1
  <2>3. ASSUME NEW e \in {first} \cup Elements(rest) PROVE e \in Elements(s)
    BY <1>1, <1>4, <2>1
  <2>. QED
    BY <2>2, <2>3
<1>. QED
  BY <1>5 DEF first, rest

(* A packet that is popped from the output comes before what is left there,   *)
(* and after what was played.                                                 *)
LEMMA OutputPopped ==
  ASSUME OutputInv, output # <<>>
  PROVE  /\ Head(output) \in Packets /\ Tail(output) \in Seq(Packets)
         /\ \A j \in 1 .. Len(Tail(output)) : Head(output) < Tail(output)[j]
         /\ \A i \in 1 .. Len(played) : played[i] < Head(output)
         /\ \A i, j \in 1 .. Len(Tail(output)) : i < j => Tail(output)[i] < Tail(output)[j]
         /\ \A i \in 1 .. Len(played), j \in 1 .. Len(Tail(output)) : played[i] < Tail(output)[j]
         /\ Head(output) \notin skipped
<1>1. /\ Head(output) = output[1] /\ Len(output) \in Nat \ {0}
      /\ Head(output) \in Packets /\ Tail(output) \in Seq(Packets)
      /\ Len(Tail(output)) = Len(output) - 1
      /\ \A i \in 1 .. Len(output) - 1 : Tail(output)[i] = output[i + 1]
  BY HeadTailProperties, EmptySeq DEF OutputInv
<1>2. 1 \in 1 .. Len(output) /\ \A i \in 1 .. Len(output) - 1 : i + 1 \in 1 .. Len(output)
  BY <1>1
<1>3. \A i \in 1 .. Len(Tail(output)) :
         i + 1 \in 1 .. Len(output) /\ Tail(output)[i] = output[i + 1] /\ 1 < i + 1
  BY <1>1, <1>2
<1>4. \A i, j \in 1 .. Len(Tail(output)) : i < j => i + 1 < j + 1
  BY <1>1
<1>5. Head(output) \in Elements(output)
  BY <1>1, <1>2 DEF Elements, OutputInv
<1>. QED
  BY <1>1, <1>2, <1>3, <1>4, <1>5 DEF OutputInv

LEMMA OutputStep ==
  ASSUME DecoderInv, OutputInv, [PlaybackNext]_allVars
  PROVE  OutputInv'
<1>1. ASSUME UNCHANGED <<decoded, output, played, skipped>> PROVE OutputInv'
  BY <1>1 DEF OutputInv
<1>2. CASE DecodeAndPlay
  <2>. DEFINE n == got[PopSide(Decoder)]
  <2>1. /\ decoded' = Append(decoded, n) /\ output' = Append(output, n)
        /\ UNCHANGED <<played, skipped>> /\ DecoderHolds
    BY <1>2 DEF DecodeAndPlay, Decode, Out!Push, DecoderHolds
  <2>2. /\ decoded \in Seq(Popped) /\ n \in Popped
        /\ \A i \in 1 .. Len(decoded) : decoded[i] < n
    BY <2>1 DEF DecoderInv, HeldApart
  <2>3. n \in Packets /\ popped \in Seq(Packets)
    <3>1. got[PopSide(Decoder)] \in Packets \cup {NoPacket} /\ popped \in Seq(Packets)
      BY DEF DecoderInv, DecoderQueueInv, DecoderQueue!TypeOK
    <3>2. n # NoPacket
      BY <2>2, <3>1, DecoderAssumption DEF Popped
    <3>. QED
      BY <3>1, <3>2
  <2>. HIDE DEF n
  <2>4. \A m \in Elements(decoded) : m < n
    BY <2>2 DEF Elements
  <2>5. /\ Elements(played) \subseteq Elements(decoded) /\ skipped \subseteq Elements(decoded)
        /\ Elements(output) \subseteq Elements(decoded)
    BY DEF OutputInv
  <2>6. n \notin Elements(decoded)
    BY <2>2, <2>3, <2>4 DEF Popped
  <2>7. /\ output \in Seq(Packets) /\ played \in Seq(Packets)
        /\ output' \in Seq(Packets) /\ Len(output') = Len(output) + 1 /\ Len(output) \in Nat
        /\ output'[Len(output) + 1] = n
        /\ \A i \in 1 .. Len(output) : output'[i] = output[i]
    BY <2>1, <2>3 DEF OutputInv
  <2>8. \A i \in 1 .. Len(output') : \/ i = Len(output) + 1 /\ output'[i] = n
                                     \/ i \in 1 .. Len(output) /\ output'[i] = output[i]
    BY <2>7
  <2>9. /\ \A i \in 1 .. Len(output) : output[i] < n
        /\ \A i \in 1 .. Len(played) : played[i] < n
    <3>1. /\ \A i \in 1 .. Len(output) : output[i] \in Elements(output)
          /\ \A i \in 1 .. Len(played) : played[i] \in Elements(played)
      BY <2>7 DEF Elements
    <3>. QED
      BY <2>4, <2>5, <3>1
  <2>10. \A i, j \in 1 .. Len(output') : i < j => output'[i] < output'[j]
    BY <2>7, <2>8, <2>9 DEF OutputInv
  <2>11. \A i \in 1 .. Len(played'), j \in 1 .. Len(output') : played'[i] < output'[j]
    BY <2>1, <2>8, <2>9 DEF OutputInv
  <2>12. Elements(decoded') = Elements(decoded) \cup {n} /\ Elements(output') = Elements(output) \cup {n}
    BY <2>1, <2>2, <2>3, <2>7, ElementsOfAppend
  <2>13. /\ Elements(output') \cap skipped' = {} /\ Elements(played') \cap skipped' = {}
         /\ Elements(decoded') = Elements(played') \cup skipped' \cup Elements(output')
    BY <2>1, <2>5, <2>6, <2>12 DEF OutputInv
  <2>. QED
    BY <2>1, <2>7, <2>10, <2>11, <2>13 DEF OutputInv
<1>3. ASSUME NEW packet \in Packets \cup {NoPacket}, Out!Pop(packet), decoded' = decoded,
             IF packet = NoPacket THEN UNCHANGED <<played, skipped>>
             ELSE \/ played' = Append(played, packet) /\ skipped' = skipped
                  \/ played' = played /\ skipped' = skipped \cup {packet}
      PROVE  OutputInv'
  <2>1. CASE output = <<>>
    <3>1. packet = NoPacket /\ output' = output
      BY <1>3, <2>1 DEF Out!Pop, Out!Front
    <3>. QED
      BY <1>1, <1>3, <3>1
  <2>2. CASE output # <<>>
    <3>1. packet = Head(output) /\ output' = Tail(output)
      BY <1>3, <2>2 DEF Out!Pop, Out!Front
    <3>2. /\ packet \in Packets /\ output' \in Seq(Packets)
          /\ \A j \in 1 .. Len(output') : packet < output'[j]
          /\ \A i \in 1 .. Len(played) : played[i] < packet
          /\ \A i, j \in 1 .. Len(output') : i < j => output'[i] < output'[j]
          /\ \A i \in 1 .. Len(played), j \in 1 .. Len(output') : played[i] < output'[j]
          /\ packet \notin skipped
      BY <2>2, <3>1, OutputPopped
    <3>3. Elements(output) = {packet} \cup Elements(output')
      BY <2>2, <3>1, ElementsOfTail DEF OutputInv
    <3>4. packet # NoPacket
      BY <3>2, DecoderAssumption DEF Packets
    <3>5. packet \notin Elements(output')
      BY <3>2, DecoderAssumption DEF Elements, Packets
    <3>6. CASE played' = Append(played, packet) /\ skipped' = skipped
      <4>1. /\ played \in Seq(Packets) /\ played' \in Seq(Packets)
            /\ Len(played') = Len(played) + 1 /\ Len(played) \in Nat
            /\ played'[Len(played) + 1] = packet
            /\ \A i \in 1 .. Len(played) : played'[i] = played[i]
        BY <3>2, <3>6 DEF OutputInv
      <4>2. \A i \in 1 .. Len(played') : \/ i = Len(played) + 1 /\ played'[i] = packet
                                         \/ i \in 1 .. Len(played) /\ played'[i] = played[i]
        BY <4>1
      <4>3. Elements(played') = Elements(played) \cup {packet}
        BY <3>2, <3>6, <4>1, ElementsOfAppend
      <4>4. /\ \A i, j \in 1 .. Len(played') : i < j => played'[i] < played'[j]
            /\ \A i \in 1 .. Len(played'), j \in 1 .. Len(output') : played'[i] < output'[j]
        <5>1. \A i, j \in 1 .. Len(played) : i < j => played[i] < played[j]
          BY DEF OutputInv
        <5>. QED
          BY <3>2, <4>1, <4>2, <5>1
      <4>5. /\ Elements(output') \cap skipped' = {} /\ Elements(played') \cap skipped' = {}
            /\ Elements(decoded') = Elements(played') \cup skipped' \cup Elements(output')
        BY <1>3, <3>2, <3>3, <3>6, <4>3 DEF OutputInv
      <4>. QED
        BY <3>2, <4>1, <4>4, <4>5 DEF OutputInv
    <3>7. CASE played' = played /\ skipped' = skipped \cup {packet}
      <4>1. packet \notin Elements(played)
        <5>1. played \in Seq(Packets) /\ DOMAIN played = 1 .. Len(played)
          BY DEF OutputInv
        <5>2. packet \in Nat
          BY <3>2, DecoderAssumption DEF Packets
        <5>3. \A i \in 1 .. Len(played) : played[i] # packet
          BY <3>2, <5>2
        <5>. QED
          BY <5>1, <5>3 DEF Elements
      <4>2. /\ Elements(output') \cap skipped' = {} /\ Elements(played') \cap skipped' = {}
            /\ Elements(decoded') = Elements(played') \cup skipped' \cup Elements(output')
        BY <1>3, <3>3, <3>5, <3>7, <4>1 DEF OutputInv
      <4>. QED
        BY <3>2, <3>7, <4>2 DEF OutputInv
    <3>. QED
      BY <1>3, <3>4, <3>6, <3>7
  <2>. QED
    BY <2>1, <2>2
<1>4. CASE PlayCallback
  BY <1>3, <1>4 DEF PlayCallback, decoderVars
<1>5. CASE SkipPop
  BY <1>3, <1>5 DEF SkipPop, decoderVars
<1>6. CASE OpenOutput \/ DestroyUnZip \/ UNCHANGED allVars
  BY <1>1, <1>6 DEF OpenOutput, DestroyUnZip, allVars, outputVars, decoderVars
<1>7. ASSUME NEW count \in 1 .. MaxSkip, Skip(count) PROVE OutputInv'
  BY <1>1, <1>7 DEF Skip, decoderVars
<1>8. ASSUME NEW a \in Adders, Play(a) PROVE OutputInv'
  BY <1>1, <1>8 DEF Play, AddCall, outputVars
<1>9. CASE PlayStep
  BY <1>1, <1>9 DEF PlayStep, AdderStep, TrimTest, TrimPop, TrimDelete, AddPush, AddNotify, outputVars
<1>10. CASE (DecoderCall \/ DecoderPop \/ SpuriousWakeup) /\ UNCHANGED outputVars
  BY <1>1, <1>10 DEF DecoderCall, DecoderPop, SpuriousWakeup, outputVars
<1>. QED
  BY <1>2, <1>4, <1>5, <1>6, <1>7, <1>8, <1>9, <1>10 DEF PlaybackNext, DecoderThreadStep

(* For any number of callers, packets and skips: what the sound card gets is  *)
(* in the order of the adds, nothing twice, nothing that was trimmed or       *)
(* skipped, and nothing that was decoded is lost, although skip() and the     *)
(* callback (AudioIO.hpp:274-281, 311-335) pop from one queue.                *)
THEOREM HeardInOrder == PlaybackSpec => []PlayedInOrder
<1>1. PlaybackInit => OutputInv
  BY DEF PlaybackInit, DecoderInit, OutputInv, Elements
<1>2. DecoderInv /\ OutputInv => PlayedInOrder
  <2> SUFFICES ASSUME DecoderInv, OutputInv PROVE PlayedInOrder
    OBVIOUS
  <2>1. /\ decoded \in Seq(Popped)
        /\ \A i, j \in 1 .. Len(decoded) : i < j => decoded[i] < decoded[j]
        /\ \A i \in 1 .. Len(decoded) : decoded[i] \notin dropped
        /\ DecoderHolds => got[PopSide(Decoder)] \in Popped
    BY DEF DecoderInv, HeldApart
  <2>2. popped \in Seq(Packets)
    BY DEF DecoderInv, DecoderQueueInv, DecoderQueue!TypeOK
  <2>3. DecodedInOrder
    BY <2>1, <2>2, DecoderAssumption DEF DecodedInOrder, DecoderHolds, Popped
  <2>. QED
    BY <2>3 DEF PlayedInOrder, OutputInv
<1>. QED
  BY <1>1, <1>2, OutputStep, PlaybackKeepsDecoder, PTL DEF PlaybackSpec

-----------------------------------------------------------------------------
(* AudioCapture *)

(* a destroyed capture that calls back was destroyed while it was started *)
Quiet ==
  /\ "destroyed" \in events => call = "idle"
  /\ "destroyed" \in events /\ (recording \/ capturing) => "unstopped" \in events
  /\ recording => mic
  /\ "destroyed" \in broken => "destroyed" \in events /\ "unstopped" \in events

(* what the thread works on are sequences of sessions *)
ThreadTypeOK ==
  /\ session \in Nat
  /\ doing \in {"pop", "write", "read", "test", "convert"}
  /\ queueIn \in Seq(Seq(Nat))
  /\ hand \in Seq(Nat) /\ buffer \in Seq(Nat) /\ resampled \in Seq(Nat)
  /\ overIn \in Nat /\ overOut \in Nat

(* what each place may hold, at each point of the thread *)
RoomLeft ==
  /\ doing \in {"test", "convert"} => Len(hand) = SrcSize
  /\ doing # "read" => Len(buffer) < SrcSize + overIn
  /\ doing = "read" => Len(buffer) < 2 * SrcSize + overIn
  /\ Len(resampled) < DstSize + overOut

(* nothing has been captured, nor anything opened that it needs *)
Untouched == ~capturing /\ queueIn = <<>> /\ doing = "pop" /\ resampler = "unset"

(* a capture that was neither stopped nor destroyed, and whose device opened,  *)
(* is on its first start() or has come through it                            *)
FirstStart ==
  events = {} =>
    \/ session = 0 /\ call \in {"idle", "closeSystem"} /\ ~mic /\ Untouched
    \/ /\ session = 1 /\ call \in {"clearBuffer", "clearIn", "clearOut", "openSystem"}
       /\ ~mic /\ Untouched
    \/ /\ session = 1 /\ call = "openResampling" /\ ~mic
       /\ format = "live" /\ resampler = "unset"
       /\ broken = {} => doing \in {"pop", "write", "read"}
    \/ session = 1 /\ call = "openConverter" /\ ~mic /\ resampler = "bare"
    \/ session = 1 /\ call = "openMic" /\ resampler \in {"live", "null"}
    \/ session = 1 /\ call \in {"idle", "closeSystem"} /\ mic /\ resampler \in {"live", "null"}

(* the format of a device that is running was not freed *)
FormatInv == capturing => format = "live" \/ "failed" \in events

SafeInv == SafeUntilStopped /\ FirstStart /\ FormatInv

(* where the owner is tells what is there *)
OwnerAt ==
  /\ recording => mic
  /\ call \in {"clearBuffer", "clearIn", "clearOut", "openSystem", "openResampling", "openConverter",
              "openMic"} => ~mic
  /\ call \in {"closeMic", "clearBuffer", "clearIn", "clearOut", "openSystem", "openResampling"} => ~HasContext
  /\ call = "idle" /\ ~mic => ~HasContext
  /\ call = "openConverter" => resampler = "bare"

(* these bytes, or frames, are all of session n *)
AllOf(n, bytes) == \A i \in 1 .. Len(bytes) : bytes[i] = n

(* all that is on its way to the microphone is of this session, if nothing     *)
(* was underway when do_clear began: a resampler that is not there keeps what *)
(* it holds from being heard, until opening it empties that                   *)
OnTheWay ==
  ~underway /\ call # "clearBuffer" =>
    /\ \A i \in 1 .. Len(queueIn) : AllOf(session, queueIn[i])
    /\ doing # "pop" => AllOf(session, hand)
    /\ AllOf(session, buffer)
    /\ HasContext => AllOf(session, resampled)
    /\ call \notin {"clearIn", "clearOut"} => AllOf(session, queueOut)

FreshInv ==
  /\ queueOut \in Seq(Nat)
  /\ OwnerAt
  /\ broken = {} /\ doing = "convert" => HasContext
  /\ OnTheWay
  /\ FreshUnlessUnderway

-----------------------------------------------------------------------------
(* Nobody calls back into a capture that was stopped before it was destroyed. *)
THEOREM QuietIsInductive == Spec => []Quiet
<1>1. Init => Quiet
  BY DEF Init, Quiet
<1>2. Quiet /\ [Next]_vars => Quiet'
  <2>. SUFFICES ASSUME Quiet, [Next]_vars PROVE Quiet'
    OBVIOUS
  <2>. USE DEF Quiet
  <2>1. CASE Start
    BY <2>1 DEF Start, Begin, Goes, deviceVars
  <2>2. CASE Stop
    BY <2>2 DEF Stop, Begin, Goes, deviceVars
  <2>3. CASE Destroy
    BY <2>3 DEF Destroy, Begin, Goes, deviceVars
  <2>4. CASE OwnerStep
    <3>1. "destroyed" \notin events
      BY <2>4 DEF OwnerStep, CloseSystem, CloseResampling, CloseMic, ClearBuffer, ClearIn, ClearOut,
        OpenSystem, OpenSystemFails, OpenResampling, OpenConverter, OpenMic, Goes
    <3>2. "destroyed" \notin events' /\ "destroyed" \notin broken'
      BY <2>4, <3>1 DEF OwnerStep, CloseSystem, CloseResampling, CloseMic, ClearBuffer, ClearIn, ClearOut,
        OpenSystem, OpenSystemFails, OpenResampling, OpenConverter, OpenMic, Goes, Breaks
    <3>3. recording' => mic'
      BY <2>4 DEF OwnerStep, CloseSystem, CloseResampling, CloseMic, ClearBuffer, ClearIn, ClearOut,
        OpenSystem, OpenSystemFails, OpenResampling, OpenConverter, OpenMic, deviceVars
    <3>. QED BY <3>2, <3>3
  <2>5. ASSUME NEW size \in PacketSizes, Capture(size) PROVE Quiet'
    BY <2>5 DEF Capture, Breaks, deviceVars, ownerVars
  <2>6. CASE MicCallback
    BY <2>6 DEF MicCallback, Breaks, deviceVars, ownerVars
  <2>7. CASE ThreadStep
    BY <2>7 DEF ThreadStep, ThreadPop, ThreadWrite, ThreadRead, ThreadTest, ThreadConvert, ThreadGoes, Breaks, ownerVars
  <2>8. CASE UNCHANGED vars
    BY <2>8 DEF vars, deviceVars, ownerVars
  <2>. QED BY <2>1, <2>2, <2>3, <2>4, <2>5, <2>6, <2>7, <2>8 DEF Next
<1>. QED BY <1>1, <1>2, PTL DEF Spec

(* The callbacks of a capture that was stopped before its destructor are over. *)
THEOREM StoppedIsQuiet == Spec => []QuietAfterStop
<1>1. Quiet => QuietAfterStop
  BY DEF Quiet, QuietAfterStop
<1>. QED BY <1>1, QuietIsInductive, PTL

-----------------------------------------------------------------------------
(* Lengths and types of what the thread does with its sequences. *)
LEMMA SequenceFacts ==
  ASSUME NEW s \in Seq(Nat), NEW t \in Seq(Nat), NEW n \in Nat, NEW a \in Nat
  PROVE  /\ s \o t \in Seq(Nat) /\ Len(s \o t) = Len(s) + Len(t)
         /\ Bytes(a, n) \in Seq(Nat) /\ Len(Bytes(a, n)) = n
         /\ n <= Len(s) => /\ SubSeq(s, 1, n) \in Seq(Nat) /\ Len(SubSeq(s, 1, n)) = n
                           /\ Rest(s, n) \in Seq(Nat) /\ Len(Rest(s, n)) = Len(s) - n
<1>1. s \o t \in Seq(Nat) /\ Len(s \o t) = Len(s) + Len(t)
  BY ConcatProperties
<1>2. Bytes(a, n) \in Seq(Nat) /\ Len(Bytes(a, n)) = n
  BY IsASeq DEF Bytes
<1>3. ASSUME n <= Len(s)
      PROVE  /\ SubSeq(s, 1, n) \in Seq(Nat) /\ Len(SubSeq(s, 1, n)) = n
             /\ Rest(s, n) \in Seq(Nat) /\ Len(Rest(s, n)) = Len(s) - n
  <2>1. Len(s) \in Nat /\ \A i \in 1 .. Len(s) : s[i] \in Nat
    BY LenProperties, ElementOfSeq
  <2>2. SubSeq(s, 1, n) \in Seq(Nat) /\ Len(SubSeq(s, 1, n)) = n
    BY <1>3, <2>1, SubSeqProperties
  <2>3. Rest(s, n) \in Seq(Nat) /\ Len(Rest(s, n)) = Len(s) - n
    BY <1>3, <2>1, SubSeqProperties DEF Rest
  <2>. QED BY <2>2, <2>3
<1>. QED BY <1>1, <1>2, <1>3

(* One read for each write keeps up but for what is longer than it, whatever *)
(* the sizes of packets, frames and results.                                 *)
THEOREM RoomIsInductive == Spec => [](ThreadTypeOK /\ RoomLeft)
<1>. USE CaptureAssumption
<1>1. Init => ThreadTypeOK /\ RoomLeft
  BY DEF Init, ThreadTypeOK, RoomLeft
<1>e. <<>> \in Seq(Nat) /\ Len(<<>>) = 0 /\ <<>> \in Seq(Seq(Nat))
  BY EmptySeq
<1>2. ThreadTypeOK /\ RoomLeft /\ [Next]_vars => (ThreadTypeOK /\ RoomLeft)'
  <2>. SUFFICES ASSUME ThreadTypeOK, RoomLeft, [Next]_vars PROVE (ThreadTypeOK /\ RoomLeft)'
    OBVIOUS
  <2>. USE DEF ThreadTypeOK, RoomLeft
  <2>1. CASE Start
    BY <2>1 DEF Start, Begin, deviceVars, threadVars
  <2>2. CASE Stop
    BY <2>2 DEF Stop, deviceVars, threadVars
  <2>3. CASE Destroy
    BY <2>3 DEF Destroy, deviceVars, threadVars
  <2>4. CASE OwnerStep
    <3>1. CASE CloseSystem \/ CloseResampling \/ CloseMic
      BY <3>1 DEF CloseSystem, CloseResampling, CloseMic, threadVars
    <3>2. CASE ClearBuffer
      <4>1. buffer' \in Seq(Nat) /\ Len(buffer') = 0 /\ overIn' = 0
        BY <3>2, <1>e DEF ClearBuffer
      <4>2. UNCHANGED <<queueIn, doing, hand, session, resampled, overOut>>
        BY <3>2 DEF ClearBuffer, deviceVars
      <4>. QED BY <4>1, <4>2
    <3>4. CASE ClearIn \/ ClearOut
      <4>1. queueIn' \in Seq(Seq(Nat))
        BY <3>4, <1>e DEF ClearIn, ClearOut
      <4>2. UNCHANGED <<doing, hand, buffer, session, resampled, overIn, overOut>>
        BY <3>4 DEF ClearIn, ClearOut, deviceVars
      <4>. QED BY <4>1, <4>2
    <3>3. CASE OpenResampling
      <4>1. resampled' \in Seq(Nat) /\ Len(resampled') = 0 /\ overOut' = 0
        BY <3>3, <1>e DEF OpenResampling
      <4>2. UNCHANGED <<queueIn, doing, hand, buffer, session, overIn>>
        BY <3>3 DEF OpenResampling, threadVars
      <4>. QED BY <4>1, <4>2
    <3>5. CASE OpenSystem \/ OpenSystemFails \/ OpenConverter \/ OpenMic
      BY <3>5 DEF OpenSystem, OpenSystemFails, OpenConverter, OpenMic, threadVars
    <3>. QED BY <2>4, <3>1, <3>2, <3>3, <3>4, <3>5 DEF OwnerStep
  <2>5. ASSUME NEW size \in PacketSizes, Capture(size) PROVE (ThreadTypeOK /\ RoomLeft)'
    <3>1. size \in Nat
      OBVIOUS
    <3>2. Bytes(session, size) \in Seq(Nat) /\ Len(Bytes(session, size)) = size
      BY <3>1, SequenceFacts
    <3>3. queueIn' \in Seq(Seq(Nat))
      BY <2>5, <3>1, <3>2, AppendProperties DEF Capture
    <3>. QED BY <2>5, <3>3 DEF Capture, deviceVars, ownerVars
  <2>6. CASE MicCallback
    BY <2>6 DEF MicCallback, deviceVars, ownerVars
  <2>7. CASE ThreadPop
    <3>1. Head(queueIn) \in Seq(Nat) /\ Tail(queueIn) \in Seq(Seq(Nat))
      BY <2>7, HeadTailProperties DEF ThreadPop
    <3>. QED BY <2>7, <3>1 DEF ThreadPop, ThreadGoes, ownerVars
  <2>8. CASE ThreadWrite
    <3>1. buffer \o hand \in Seq(Nat) /\ Len(buffer \o hand) = Len(buffer) + Len(hand)
      BY SequenceFacts
    <3>2. Len(buffer) \in Nat /\ Len(hand) \in Nat
      BY LenProperties
    <3>3. /\ doing = "write" /\ doing' = "read" /\ buffer' = buffer \o hand
          /\ overIn' = overIn + Beyond(Len(hand), SrcSize)
          /\ UNCHANGED <<session, queueIn, hand, resampled, overOut>>
      BY <2>8 DEF ThreadWrite, ThreadGoes, ownerVars
    <3>4. Beyond(Len(hand), SrcSize) \in Nat /\ Len(hand) <= SrcSize + Beyond(Len(hand), SrcSize)
      BY <3>2 DEF Beyond
    <3>. QED BY <3>1, <3>2, <3>3, <3>4
  <2>9. CASE ThreadRead
    <3>1. Len(buffer) >= SrcSize =>
            /\ SubSeq(buffer, 1, SrcSize) \in Seq(Nat) /\ Len(SubSeq(buffer, 1, SrcSize)) = SrcSize
            /\ Rest(buffer, SrcSize) \in Seq(Nat) /\ Len(Rest(buffer, SrcSize)) = Len(buffer) - SrcSize
      BY SequenceFacts
    <3>2. Len(buffer) \in Nat
      BY LenProperties
    <3>3. doing = "read" /\ UNCHANGED <<session, queueIn, resampled, overIn, overOut>>
      BY <2>9 DEF ThreadRead, ThreadGoes, ownerVars
    <3>4. CASE Len(buffer) >= SrcSize
      <4>1. doing' = "test" /\ hand' = SubSeq(buffer, 1, SrcSize) /\ buffer' = Rest(buffer, SrcSize)
        BY <2>9, <3>4 DEF ThreadRead, ThreadGoes
      <4>. QED BY <3>1, <3>2, <3>3, <3>4, <4>1
    <3>5. CASE ~(Len(buffer) >= SrcSize)
      <4>1. doing' = "pop" /\ hand' = <<>> /\ buffer' = buffer
        BY <2>9, <3>5 DEF ThreadRead, ThreadGoes
      <4>2. hand' \in Seq(Nat)
        BY <4>1, <1>e
      <4>. QED BY <3>2, <3>3, <3>5, <4>1, <4>2
    <3>. QED BY <3>4, <3>5
  <2>10. CASE ThreadTest
    BY <2>10 DEF ThreadTest, ThreadGoes, ownerVars
  <2>11. CASE ThreadConvert
    <3>1. doing = "convert" /\ doing' = "pop" /\ hand' = <<>>
          /\ UNCHANGED <<session, queueIn, buffer, overIn>>
      BY <2>11 DEF ThreadConvert, ThreadGoes, ownerVars
    <3>2. Oldest(hand) \in Nat
      BY <3>1, ElementOfSeq DEF Oldest
    <3>3. ASSUME NEW n \in Conversions, overOut' = overOut + Beyond(n, DstSize),
                 LET all == resampled \o Bytes(Oldest(hand), n) IN
                 IF Len(all) < DstSize THEN resampled' = all ELSE resampled' = Rest(all, DstSize)
          PROVE  resampled' \in Seq(Nat) /\ overOut' \in Nat /\ Len(resampled') < DstSize + overOut'
      <4>. DEFINE all == resampled \o Bytes(Oldest(hand), n)
      <4>1. n \in Nat /\ Len(resampled) \in Nat
        BY LenProperties
      <4>2. Bytes(Oldest(hand), n) \in Seq(Nat) /\ Len(Bytes(Oldest(hand), n)) = n
        BY <3>2, <4>1, SequenceFacts
      <4>3. all \in Seq(Nat) /\ Len(all) = Len(resampled) + n
        BY <4>2, ConcatProperties
      <4>4. Len(all) >= DstSize => Rest(all, DstSize) \in Seq(Nat) /\ Len(Rest(all, DstSize)) = Len(all) - DstSize
        BY <4>3, SequenceFacts
      <4>6. Beyond(n, DstSize) \in Nat /\ n <= DstSize + Beyond(n, DstSize)
        BY <4>1 DEF Beyond
      <4>. HIDE DEF all
      <4>5. IF Len(all) < DstSize THEN resampled' = all ELSE resampled' = Rest(all, DstSize)
        BY <3>3 DEF all
      <4>7. overOut' = overOut + Beyond(n, DstSize)
        BY <3>3
      <4>8. overOut \in Nat /\ overOut' \in Nat /\ DstSize \in Nat /\ DstSize > 0
        BY <4>6, <4>7
      <4>9. CASE Len(all) < DstSize
        BY <4>3, <4>5, <4>6, <4>7, <4>8, <4>9
      <4>10. CASE ~(Len(all) < DstSize)
        <5>1. Len(all) >= DstSize /\ Len(all) \in Nat
          BY <4>1, <4>3, <4>8, <4>10
        <5>2. resampled' = Rest(all, DstSize) /\ resampled' \in Seq(Nat)
          BY <4>4, <4>5, <4>10, <5>1
        <5>3. Len(resampled') = Len(resampled) + n - DstSize
          BY <4>3, <4>4, <5>1, <5>2
        <5>4. Len(resampled) < DstSize + overOut
          BY DEF RoomLeft
        <5>5. Len(resampled') < DstSize + overOut'
          BY <4>1, <4>6, <4>7, <4>8, <5>3, <5>4
        <5>. QED BY <4>8, <5>2, <5>5
      <4>. QED BY <4>9, <4>10
    <3>4. resampled' \in Seq(Nat) /\ overOut' \in Nat /\ Len(resampled') < DstSize + overOut'
      <4>1. CASE UNCHANGED <<resampled, overOut>>
        BY <4>1
      <4>2. CASE ~UNCHANGED <<resampled, overOut>>
        BY <2>11, <3>3, <4>2 DEF ThreadConvert
      <4>. QED BY <4>1, <4>2
    <3>. QED BY <3>1, <3>4
  <2>12. CASE UNCHANGED vars
    BY <2>12 DEF vars, deviceVars, threadVars, ownerVars
  <2>. QED BY <2>1, <2>2, <2>3, <2>4, <2>5, <2>6, <2>7, <2>8, <2>9, <2>10, <2>11, <2>12 DEF Next, ThreadStep
<1>. QED BY <1>1, <1>2, PTL DEF Spec

(* Between two packets less than a frame waits to be resampled, and what longer *)
(* packets brought beyond a frame; and so with the results.                    *)
THEOREM OneReadKeepsUp == Spec => []KeepsUp
<1>1. RoomLeft => KeepsUp
  BY DEF RoomLeft, KeepsUp
<1>. QED BY <1>1, RoomIsInductive, PTL

-----------------------------------------------------------------------------
(* Undefined behaviour ends a behaviour, so every step starts without it. *)
LEMMA SafeStep == SafeInv /\ [Next]_vars => SafeInv'
<1>. SUFFICES ASSUME SafeInv, [Next]_vars PROVE SafeInv'
  OBVIOUS
<1>. USE DEF SafeInv, SafeUntilStopped, FirstStart, FormatInv, Untouched
<1>1. CASE UNCHANGED vars
  BY <1>1 DEF vars, deviceVars, threadVars, ownerVars
<1>2. CASE Next
  <2>. broken = {}
    BY <1>2 DEF Next
  <2>1. CASE Start
    BY <2>1 DEF Start, Begin, Goes, deviceVars, threadVars
  <2>2. CASE Stop
    BY <2>2 DEF Stop, Begin, Goes, deviceVars, threadVars
  <2>3. CASE Destroy
    BY <2>3 DEF Destroy, deviceVars, threadVars
  <2>4. CASE CloseSystem
    <3>1. events' # {} /\ capturing' = FALSE /\ ("failed" \in events => "failed" \in events')
      BY <2>4 DEF CloseSystem
    <3>2. "doubleFree" \in broken' => "failed" \in events
      BY <2>4 DEF CloseSystem, Breaks
    <3>. QED BY <3>1, <3>2
  <2>5. CASE CloseResampling \/ CloseMic
    <3>1. /\ events # {} /\ events' = events /\ "doubleFree" \notin broken'
          /\ UNCHANGED <<capturing, format>>
      BY <2>5 DEF CloseResampling, CloseMic, Goes, Breaks
    <3>. QED BY <3>1
  <2>6. CASE ClearBuffer
    BY <2>6 DEF ClearBuffer, Goes, Breaks, deviceVars
  <2>7. CASE ClearIn \/ ClearOut
    BY <2>7 DEF ClearIn, ClearOut, Goes, deviceVars
  <2>8. CASE OpenSystem
    BY <2>8 DEF OpenSystem, Goes, threadVars
  <2>9. CASE OpenSystemFails
    BY <2>9 DEF OpenSystemFails, Breaks
  <2>10. CASE OpenResampling
    <3>1. /\ UNCHANGED <<events, capturing, format, session, mic>> /\ call = "openResampling"
          /\ \/ call' = "openConverter" /\ resampler' = "bare"
             \/ call' = "openMic" /\ resampler' = "null"
      BY <2>10 DEF OpenResampling, Goes
    <3>2. "doubleFree" \notin broken' /\ (events = {} => broken' = {})
      BY <2>10 DEF OpenResampling, Goes
    <3>. QED BY <3>1, <3>2
  <2>15. CASE OpenConverter
    <3>1. /\ UNCHANGED <<capturing, format, session, mic>> /\ call = "openConverter" /\ call' = "openMic"
          /\ \/ resampler' \in {"live", "null"} /\ events' = events
             \/ events' = events \cup {"unbuffered"}
          /\ broken' \in {{}, {"freedResampler"}}
      BY <2>15 DEF OpenConverter, Goes, Breaks
    <3>. QED BY <3>1
  <2>11. CASE OpenMic
    BY <2>11 DEF OpenMic, Goes, threadVars
  <2>12. ASSUME NEW size \in PacketSizes, Capture(size) PROVE SafeInv'
    BY <2>12 DEF Capture, Breaks, deviceVars, ownerVars
  <2>13. CASE MicCallback
    BY <2>13 DEF MicCallback, Breaks, deviceVars, ownerVars
  <2>14. CASE ThreadStep
    <3>1. CASE ThreadPop
      BY <3>1 DEF ThreadPop, ThreadGoes, ownerVars
    <3>2. CASE ThreadWrite
      BY <3>2 DEF ThreadWrite, ThreadGoes, ownerVars
    <3>3. CASE ThreadRead
      BY <3>3 DEF ThreadRead, ThreadGoes, Breaks, ownerVars
    <3>4. CASE ThreadTest
      BY <3>4 DEF ThreadTest, ThreadGoes, HasContext, ownerVars
    <3>5. CASE ThreadConvert
      <4>1. /\ UNCHANGED <<events, call, session, mic, capturing, format, resampler>>
            /\ doing = "convert" /\ doing' = "pop"
            /\ broken' = {} \/ (broken' = {"noBuffer"} /\ resampler = "bare")
        BY <3>5 DEF ThreadConvert, ThreadGoes, Breaks, ownerVars
      <4>. QED BY <4>1
    <3>. QED BY <3>5, <2>14, <3>1, <3>2, <3>3, <3>4 DEF ThreadStep
  <2>. QED BY <1>2, <2>1, <2>2, <2>3, <2>4, <2>5, <2>6, <2>7, <2>8, <2>9, <2>10, <2>11, <2>12, <2>13, <2>14, <2>15
           DEF Next, OwnerStep
<1>. QED BY <1>1, <1>2

(* Until it is stopped a capture whose device opened, and whose resampler got  *)
(* its buffers, touches only what is there, the opening of the resampler in   *)
(* the first start() excepted, and no format is freed twice unless a device   *)
(* did not open (SystemAudio.hpp and AudioResampling.hpp, close and open).    *)
THEOREM SafeWhileStarted == Spec => []SafeUntilStopped
<1>1. Init => SafeInv
  BY DEF Init, SafeInv, SafeUntilStopped, FirstStart, FormatInv, Untouched
<1>2. SafeInv => SafeUntilStopped
  BY DEF SafeInv
<1>. QED BY <1>1, <1>2, SafeStep, PTL DEF Spec

-----------------------------------------------------------------------------
(* Where the owner is, and what the resampler may be there. *)
LEMMA OwnerAtStep == OwnerAt /\ [Next]_vars => OwnerAt'
<1>. SUFFICES ASSUME OwnerAt, [Next]_vars PROVE OwnerAt'
  OBVIOUS
<1>. USE DEF OwnerAt, HasContext
<1>1. CASE Start \/ Stop \/ Destroy
  BY <1>1 DEF Start, Stop, Destroy, Begin, Goes, deviceVars
<1>2. CASE OwnerStep
  BY <1>2 DEF OwnerStep, CloseSystem, CloseResampling, CloseMic, ClearBuffer, ClearIn, ClearOut,
     OpenSystem, OpenSystemFails, OpenResampling, OpenConverter, OpenMic, Goes, deviceVars
<1>3. CASE (\E size \in PacketSizes : Capture(size)) \/ MicCallback
  BY <1>3 DEF Capture, MicCallback, deviceVars, ownerVars
<1>4. CASE ThreadStep
  <2>1. UNCHANGED <<recording, mic, call, resampler>>
    BY <1>4 DEF ThreadStep, ThreadPop, ThreadWrite, ThreadRead, ThreadTest, ThreadConvert, ThreadGoes, ownerVars
  <2>. QED BY <2>1
<1>5. CASE UNCHANGED vars
  BY <1>5 DEF vars, deviceVars, ownerVars
<1>. QED BY <1>1, <1>2, <1>3, <1>4, <1>5 DEF Next

(* What the thread does with its sequences leaves bytes of one session alone. *)
LEMMA AllOfKept ==
  ASSUME NEW a \in Nat, NEW s \in Seq(Nat), NEW t \in Seq(Nat), NEW n \in Nat,
         AllOf(a, s), AllOf(a, t)
  PROVE  /\ AllOf(a, s \o t)
         /\ AllOf(a, Bytes(a, n))
         /\ AllOf(a, Append(s, a))
         /\ s # <<>> => AllOf(a, Tail(s)) /\ Head(s) = a
         /\ n <= Len(s) => AllOf(a, SubSeq(s, 1, n)) /\ AllOf(a, Rest(s, n))
<1>. USE DEF AllOf
<1>0. Len(s) \in Nat /\ Len(t) \in Nat
  BY LenProperties
<1>1. AllOf(a, s \o t)
  BY <1>0, ConcatProperties
<1>2. AllOf(a, Bytes(a, n))
  BY DEF Bytes
<1>3. AllOf(a, Append(s, a))
  BY <1>0, AppendProperties
<1>4. ASSUME s # <<>> PROVE AllOf(a, Tail(s)) /\ Head(s) = a
  <2>1. /\ Len(s) > 0 /\ Head(s) = s[1]
        /\ Len(Tail(s)) = Len(s) - 1
        /\ \A i \in 1 .. Len(Tail(s)) : Tail(s)[i] = s[i + 1]
    BY <1>0, <1>4, HeadTailProperties, EmptySeq
  <2>. QED BY <1>0, <2>1
<1>5. ASSUME n <= Len(s) PROVE AllOf(a, SubSeq(s, 1, n)) /\ AllOf(a, Rest(s, n))
  <2>1. \A i \in 1 .. Len(s) : s[i] \in Nat
    BY ElementOfSeq
  <2>2. /\ Len(SubSeq(s, 1, n)) = n
        /\ \A i \in 1 .. n : SubSeq(s, 1, n)[i] = s[i]
    BY <1>0, <1>5, <2>1, SubSeqProperties
  <2>3. /\ Len(Rest(s, n)) = Len(s) - n
        /\ \A i \in 1 .. Len(s) - n : Rest(s, n)[i] = s[n + i]
    BY <1>0, <1>5, <2>1, SubSeqProperties DEF Rest
  <2>4. AllOf(a, SubSeq(s, 1, n))
    BY <1>0, <1>5, <2>2
  <2>5. AllOf(a, Rest(s, n))
    BY <1>0, <1>5, <2>3
  <2>. QED BY <2>4, <2>5
<1>. QED BY <1>1, <1>2, <1>3, <1>4, <1>5

(* A step of the thread hands on what is of this session. *)
LEMMA ThreadFresh ==
  ASSUME ThreadTypeOK, RoomLeft, FreshInv, broken = {}, ThreadStep
  PROVE  queueOut' \in Seq(Nat) /\ OnTheWay'
<1>. USE DEF ThreadTypeOK, OnTheWay, ThreadGoes, HasContext, ownerVars
<1>0. /\ queueOut \in Seq(Nat) /\ UNCHANGED <<call, session, underway, resampler>>
      /\ session \in Nat /\ DstSize \in Nat \ {0} /\ SrcSize \in Nat \ {0}
  BY CaptureAssumption DEF FreshInv, ThreadStep, ThreadPop, ThreadWrite, ThreadRead, ThreadTest, ThreadConvert
<1>a. OnTheWay
  BY DEF FreshInv
<1>1. CASE ThreadPop
  <2>1. /\ Len(queueIn) \in Nat /\ Len(queueIn) > 0 /\ Head(queueIn) = queueIn[1]
        /\ Len(Tail(queueIn)) = Len(queueIn) - 1
        /\ \A i \in 1 .. Len(Tail(queueIn)) : Tail(queueIn)[i] = queueIn[i + 1]
    BY <1>1, HeadTailProperties, EmptySeq, LenProperties DEF ThreadPop
  <2>2. (\A i \in 1 .. Len(queueIn) : AllOf(session, queueIn[i])) =>
          /\ AllOf(session, hand')
          /\ \A i \in 1 .. Len(queueIn') : AllOf(session, queueIn'[i])
    BY <1>1, <2>1 DEF ThreadPop
  <2>. QED BY <1>0, <1>1, <1>a, <2>2 DEF ThreadPop
<1>2. CASE ThreadWrite
  <2>1. AllOf(session, buffer) /\ AllOf(session, hand) => AllOf(session, buffer \o hand)
    BY <1>0, AllOfKept
  <2>. QED BY <1>0, <1>2, <1>a, <2>1 DEF ThreadWrite
<1>3. CASE ThreadRead
  <2>1. AllOf(session, buffer) /\ SrcSize <= Len(buffer) =>
          AllOf(session, SubSeq(buffer, 1, SrcSize)) /\ AllOf(session, Rest(buffer, SrcSize))
    BY <1>0, AllOfKept
  <2>2. CASE Len(buffer) >= SrcSize
    <3>1. doing' = "test" /\ hand' = SubSeq(buffer, 1, SrcSize) /\ buffer' = Rest(buffer, SrcSize)
      BY <1>3, <2>2 DEF ThreadRead
    <3>2. SrcSize <= Len(buffer)
      BY <1>0, <2>2, LenProperties
    <3>. QED BY <1>0, <1>3, <1>a, <2>1, <3>1, <3>2 DEF ThreadRead
  <2>3. CASE ~(Len(buffer) >= SrcSize)
    BY <1>0, <1>3, <1>a, <2>3 DEF ThreadRead
  <2>. QED BY <2>2, <2>3
<1>4. CASE ThreadTest
  BY <1>0, <1>4, <1>a DEF ThreadTest
<1>5. CASE ThreadConvert
  <2>1. doing = "convert" /\ doing' = "pop" /\ UNCHANGED <<queueIn, buffer>> /\ HasContext
    BY <1>5 DEF ThreadConvert, FreshInv
  <2>2. CASE UNCHANGED <<resampled, queueOut>>
    BY <1>0, <1>a, <2>1, <2>2
  <2>3. CASE ~UNCHANGED <<resampled, queueOut>>
    <3>. PICK n \in Conversions :
           LET all == resampled \o Bytes(Oldest(hand), n) IN
           IF Len(all) < DstSize
           THEN resampled' = all /\ UNCHANGED queueOut
           ELSE /\ resampled' = Rest(all, DstSize)
                /\ queueOut' = Append(queueOut, Oldest(SubSeq(all, 1, DstSize)))
      BY <1>5, <2>3 DEF ThreadConvert
    <3>. DEFINE all == resampled \o Bytes(Oldest(hand), n)
    <3>a. n \in Nat /\ SrcSize \in Nat \ {0}
      BY CaptureAssumption
    <3>b. Len(hand) = SrcSize /\ hand \in Seq(Nat)
      BY <1>0, <2>1 DEF RoomLeft
    <3>1. n \in Nat /\ Len(hand) = SrcSize /\ Oldest(hand) \in Nat
      BY <3>a, <3>b, ElementOfSeq DEF Oldest
    <3>2. Bytes(Oldest(hand), n) \in Seq(Nat) /\ all \in Seq(Nat)
      BY <3>1, SequenceFacts
    <3>3. AllOf(session, hand) => Oldest(hand) = session
      BY <1>0, <3>1 DEF AllOf, Oldest
    <3>4. AllOf(session, hand) /\ AllOf(session, resampled) => AllOf(session, all)
      BY <1>0, <3>1, <3>2, <3>3, AllOfKept
    <3>. HIDE DEF all
    <3>5. IF Len(all) < DstSize
          THEN resampled' = all /\ UNCHANGED queueOut
          ELSE /\ resampled' = Rest(all, DstSize)
               /\ queueOut' = Append(queueOut, Oldest(SubSeq(all, 1, DstSize)))
      BY DEF all
    <3>6. CASE Len(all) < DstSize
      BY <1>0, <1>a, <2>1, <3>4, <3>5, <3>6
    <3>7. CASE ~(Len(all) < DstSize)
      <4>. DEFINE heard == SubSeq(all, 1, DstSize)
      <4>1. DstSize <= Len(all)
        BY <1>0, <3>2, <3>7, LenProperties
      <4>2. heard \in Seq(Nat) /\ Len(heard) = DstSize
        BY <1>0, <3>2, <4>1, SequenceFacts
      <4>3. Oldest(heard) \in Nat /\ (AllOf(session, heard) => Oldest(heard) = session)
        BY <1>0, <4>2, ElementOfSeq DEF AllOf, Oldest
      <4>4. AllOf(session, all) => AllOf(session, heard) /\ AllOf(session, Rest(all, DstSize))
        BY <1>0, <3>2, <4>1, AllOfKept
      <4>. HIDE DEF heard
      <4>5. queueOut' = Append(queueOut, Oldest(heard)) /\ resampled' = Rest(all, DstSize)
        BY <3>5, <3>7 DEF heard
      <4>6. queueOut' \in Seq(Nat)
        BY <1>0, <4>3, <4>5
      <4>7. AllOf(session, all) /\ AllOf(session, queueOut) => AllOf(session, queueOut')
        BY <1>0, <4>3, <4>4, <4>5, AllOfKept
      <4>. QED BY <1>0, <1>a, <2>1, <3>4, <4>4, <4>5, <4>6, <4>7
    <3>. QED BY <3>6, <3>7
  <2>. QED BY <2>2, <2>3
<1>. QED BY <1>1, <1>2, <1>3, <1>4, <1>5 DEF ThreadStep

(* Every step keeps what is old away from the microphone. *)
LEMMA FreshStep == ThreadTypeOK /\ RoomLeft /\ FreshInv /\ [Next]_vars => FreshInv'
<1>. SUFFICES ASSUME ThreadTypeOK, RoomLeft, FreshInv, [Next]_vars PROVE FreshInv'
  OBVIOUS
<1>. USE DEF HasContext
<1>1. OwnerAt'
  BY OwnerAtStep DEF FreshInv
<1>2. CASE UNCHANGED vars
  BY <1>1, <1>2 DEF vars, deviceVars, threadVars, ownerVars, FreshInv, OnTheWay, FreshUnlessUnderway
<1>3. CASE Next
  <2>. broken = {}
    BY <1>3 DEF Next
  <2>e. <<>> \in Seq(Nat) /\ Len(<<>>) = 0 /\ \A n : AllOf(n, <<>>)
    BY EmptySeq DEF AllOf
  <2>s. session + 0 = session
    BY DEF ThreadTypeOK
  <2>1. CASE Start \/ Stop \/ Destroy
    <3>1. call' # "clearBuffer" => session' = session
      BY <2>1, <2>s DEF Start, Stop, Destroy, Begin, Goes
    <3>2. /\ UNCHANGED <<queueIn, queueOut, doing, hand, buffer, underway, resampler, resampled, staleHeard, broken>>
          /\ call = "idle"
      BY <2>1 DEF Start, Stop, Destroy, Begin, Goes, deviceVars, threadVars
    <3>. QED BY <1>1, <3>1, <3>2 DEF FreshInv, OnTheWay, FreshUnlessUnderway
  <2>2. CASE CloseSystem \/ CloseResampling \/ OpenSystem \/ OpenSystemFails \/ OpenMic
    <3>1. /\ UNCHANGED <<queueIn, queueOut, doing, hand, buffer, underway, session, resampled, staleHeard>>
          /\ call \notin {"clearBuffer", "clearIn", "clearOut"} /\ call' \notin {"clearBuffer", "clearIn", "clearOut"}
      BY <2>2 DEF CloseSystem, CloseResampling, OpenSystem, OpenSystemFails, OpenMic, Goes, threadVars
    <3>2. \/ resampler' = resampler
          \/ ~HasContext' /\ (doing = "convert" => broken' # {})
      BY <2>2 DEF CloseSystem, CloseResampling, OpenSystem, OpenSystemFails, OpenMic, Breaks
    <3>. QED BY <1>1, <3>1, <3>2 DEF FreshInv, OnTheWay, FreshUnlessUnderway
  <2>3. CASE CloseMic
    <3>1. call' # "clearBuffer" => session' = session
      BY <2>3, <2>s DEF CloseMic, Goes
    <3>2. /\ UNCHANGED <<queueIn, queueOut, doing, hand, buffer, underway, resampler, resampled, staleHeard, broken>>
          /\ call = "closeMic"
      BY <2>3 DEF CloseMic, Goes, threadVars
    <3>. QED BY <1>1, <3>1, <3>2 DEF FreshInv, OnTheWay, FreshUnlessUnderway
  <2>4. CASE ClearBuffer
    <3>1. /\ call' = "clearIn" /\ UNCHANGED <<queueIn, queueOut, doing, hand, session, resampler, resampled>>
          /\ staleHeard' = FALSE /\ AllOf(session, buffer') /\ ~HasContext
      BY <2>4, <2>e DEF ClearBuffer, Goes, deviceVars, FreshInv, OwnerAt
    <3>2. ~underway' => doing = "pop" /\ Len(queueIn) = 0
      BY <2>4, <2>e DEF ClearBuffer
    <3>3. broken' = {} => broken = {}
      BY <2>4
    <3>. QED BY <1>1, <3>1, <3>2, <3>3 DEF FreshInv, OnTheWay, FreshUnlessUnderway
  <2>5. CASE ClearIn
    <3>1. Len(queueIn') = 0
      BY <2>5, <2>e DEF ClearIn
    <3>. QED BY <1>1, <2>5, <3>1 DEF ClearIn, Goes, deviceVars, FreshInv, OnTheWay, FreshUnlessUnderway
  <2>6. CASE ClearOut
    <3>1. queueOut' \in Seq(Nat) /\ AllOf(session, queueOut')
      BY <2>6, <2>e DEF ClearOut
    <3>. QED BY <1>1, <2>6, <3>1 DEF ClearOut, Goes, deviceVars, FreshInv, OnTheWay, FreshUnlessUnderway
  <2>7. CASE OpenResampling
    <3>1. AllOf(session, resampled')
      BY <2>7, <2>e DEF OpenResampling
    <3>2. doing = "convert" => broken' # {}
      BY <2>7 DEF OpenResampling
    <3>. QED BY <1>1, <2>7, <3>1, <3>2 DEF OpenResampling, Goes, threadVars, FreshInv, OnTheWay, FreshUnlessUnderway
  <2>11. CASE OpenConverter
    <3>1. /\ UNCHANGED <<queueIn, queueOut, doing, hand, buffer, underway, session, resampled, staleHeard>>
          /\ call = "openConverter" /\ call' = "openMic"
          /\ doing = "convert" /\ broken' = {} => HasContext'
      BY <2>11 DEF OpenConverter, Goes, Breaks, threadVars
    <3>2. HasContext
      BY <3>1 DEF FreshInv, OwnerAt
    <3>. QED BY <1>1, <3>1, <3>2 DEF FreshInv, OnTheWay, FreshUnlessUnderway
  <2>8. ASSUME NEW size \in PacketSizes, Capture(size) PROVE FreshInv'
    <3>1. size \in Nat /\ session \in Nat
      BY CaptureAssumption DEF ThreadTypeOK
    <3>2. Bytes(session, size) \in Seq(Nat) /\ AllOf(session, Bytes(session, size))
      BY <3>1, AllOfKept, SequenceFacts, <2>e
    <3>3. (\A i \in 1 .. Len(queueIn) : AllOf(session, queueIn[i])) =>
            \A i \in 1 .. Len(queueIn') : AllOf(session, queueIn'[i])
      <4>1. CASE queueIn' = queueIn
        BY <4>1
      <4>2. CASE queueIn' = Append(queueIn, Bytes(session, size))
        <5>1. /\ Len(queueIn) \in Nat /\ Len(queueIn') = Len(queueIn) + 1
              /\ \A i \in 1 .. Len(queueIn) : queueIn'[i] = queueIn[i]
              /\ queueIn'[Len(queueIn) + 1] = Bytes(session, size)
          BY <4>2, AppendProperties, LenProperties DEF ThreadTypeOK
        <5>. QED BY <3>2, <5>1
      <4>. QED BY <2>8, <4>1, <4>2 DEF Capture
    <3>4. UNCHANGED <<queueOut, doing, hand, buffer, call, session, underway, resampler, resampled, staleHeard>>
      BY <2>8 DEF Capture, deviceVars, ownerVars
    <3>5. broken' = {} => broken = {}
      BY <2>8
    <3>. QED BY <1>1, <3>3, <3>4, <3>5 DEF FreshInv, OnTheWay, FreshUnlessUnderway
  <2>9. CASE MicCallback
    <3>1. UNCHANGED <<queueIn, doing, hand, buffer, call, session, underway, resampler, resampled>>
      BY <2>9 DEF MicCallback, deviceVars, ownerVars
    <3>2. CASE UNCHANGED <<queueOut, staleHeard>>
      BY <1>1, <3>1, <3>2 DEF FreshInv, OnTheWay, FreshUnlessUnderway
    <3>3. CASE ~UNCHANGED <<queueOut, staleHeard>>
      <4>1. /\ queueOut # <<>> /\ queueOut' = Tail(queueOut)
            /\ staleHeard' = (staleHeard \/ Head(queueOut) # session)
        BY <2>9, <3>3 DEF MicCallback
      <4>2. call \notin {"clearBuffer", "clearIn", "clearOut"}
        BY <2>9 DEF MicCallback, FreshInv, OwnerAt
      <4>3. /\ queueOut \in Seq(Nat) /\ session \in Nat
            /\ ~underway => AllOf(session, queueOut)
        BY <4>2 DEF FreshInv, OnTheWay, ThreadTypeOK
      <4>4. queueOut' \in Seq(Nat)
        BY <4>1, <4>3, HeadTailProperties
      <4>5. ~underway => AllOf(session, queueOut') /\ Head(queueOut) = session
        BY <4>1, <4>3, AllOfKept
      <4>6. staleHeard' => underway
        BY <4>1, <4>5 DEF FreshInv, FreshUnlessUnderway
      <4>. QED BY <1>1, <3>1, <4>4, <4>5, <4>6 DEF FreshInv, OnTheWay, FreshUnlessUnderway
    <3>. QED BY <3>2, <3>3
  <2>10. CASE ThreadStep
    <3>1. queueOut' \in Seq(Nat) /\ OnTheWay'
      BY <2>10, ThreadFresh
    <3>2. UNCHANGED <<staleHeard, underway>> /\ (doing' = "convert" => HasContext')
      BY <2>10 DEF ThreadStep, ThreadPop, ThreadWrite, ThreadRead, ThreadTest, ThreadConvert, ThreadGoes, ownerVars
    <3>. QED BY <1>1, <3>1, <3>2 DEF FreshInv, FreshUnlessUnderway
  <2>. QED BY <1>3, <2>1, <2>2, <2>3, <2>4, <2>5, <2>6, <2>7, <2>8, <2>9, <2>10, <2>11 DEF Next, OwnerStep
<1>. QED BY <1>2, <1>3

(* After a start() nothing captured before it is mixed in, unless it was       *)
(* underway when do_clear began (SystemAudioCapture.hpp, start and do_clear).  *)
THEOREM RestartIsFresh == Spec => []FreshUnlessUnderway
<1>1. Init => FreshInv
  BY EmptySeq DEF Init, FreshInv, OwnerAt, OnTheWay, AllOf, HasContext, FreshUnlessUnderway
<1>2. FreshInv => FreshUnlessUnderway
  BY DEF FreshInv
<1>. QED BY <1>1, <1>2, FreshStep, RoomIsInductive, PTL DEF Spec
=============================================================================
