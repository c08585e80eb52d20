---------------------------- MODULE AudioDecoder ----------------------------
(***************************************************************************)
(* ryulib/AudioDecoder.hpp: callers add compressed packets to a            *)
(* SuspensionQueue that one thread decodes.  add() first trims a queue     *)
(* that grew too long, with the blocking pop the decoder thread uses: each *)
(* adder is a producer and a consumer of the queue.  Packets are numbered  *)
(* in the order in which they are queued.  Nothing ends the thread: its    *)
(* SimpleThread is private and never told to stop.                         *)
(***************************************************************************)
EXTENDS Naturals, Sequences, FiniteSets

CONSTANTS
  Adders,     \* threads that call add
  Decoder,    \* the thread of thread_
  NoPacket,   \* NULL
  DelayLimit, \* MAX_DELAY_LIMIT_COUNT
  Keep,       \* to how many packets add trims: the 2 of line 33
  MaxAdds     \* bound: number of packets queued

ASSUME DecoderAssumption ==
  /\ Decoder \notin Adders
  /\ IsFiniteSet(Adders)
  /\ NoPacket \notin Nat
  /\ DelayLimit \in Nat /\ Keep \in 0 .. DelayLimit
  /\ MaxAdds \in Nat

VARIABLES
  queue, queueTerminated, pc, terminating, got, pushed, popped, \* queue_
  adding,   \* where each adder is in add: "out", "trim", "pop", "push", "notify"
  decoding, \* the decoder is between the call of pop and the next loop test
  dropped,  \* history: the packets trimmed
  decoded   \* history: the packets decoded

queueVars == <<queue, queueTerminated, pc, terminating, got, pushed, popped>>
decoderVars == <<queueVars, adding, decoding, dropped, decoded>>

PushSide(a) == <<a, "push">>
PopSide(a) == <<a, "pop">>
Packets == 1 .. MaxAdds

Queue == INSTANCE SuspensionQueue WITH
           Producers <- {PushSide(a) : a \in Adders},
           Consumers <- {PopSide(a) : a \in Adders} \cup {PopSide(Decoder)},
           Items <- Packets, NoItem <- NoPacket, MaxPushes <- MaxAdds,
           isTerminated <- queueTerminated

DecoderInit ==
  /\ Queue!Init
  /\ adding = [a \in Adders |-> "out"]
  /\ decoding = FALSE
  /\ dropped = {}
  /\ decoded = <<>>

AdderGoes(a, to) == adding' = [adding EXCEPT ![a] = to]

-----------------------------------------------------------------------------
(* add *)

(* the bound: an adder in add is sure to push *)
Room == Len(pushed) + Cardinality({a \in Adders : adding[a] \in {"trim", "pop", "push"}}) < MaxAdds

AddCall_NoLimitMutant(a) ==
  /\ adding[a] = "out"
  /\ Queue!MutexFree
  /\ Room
  /\ AdderGoes(a, "push")
  /\ UNCHANGED <<queueVars, decoding, dropped, decoded>>

(* queue_->size() > MAX_DELAY_LIMIT_COUNT *)
AddCall(a) ==
  /\ adding[a] = "out"
  /\ Queue!MutexFree
  /\ Room
  /\ AdderGoes(a, IF Len(queue) > DelayLimit THEN "trim" ELSE "push")
  /\ UNCHANGED <<queueVars, decoding, dropped, decoded>>

TrimTest_AgainMutant(a) ==
  /\ adding[a] = "trim"
  /\ Queue!MutexFree
  /\ IF Len(queue) > Keep
     THEN AdderGoes(a, "pop") /\ Queue!PopCall(PopSide(a))
     ELSE AdderGoes(a, "trim") /\ UNCHANGED queueVars
  /\ UNCHANGED <<decoding, dropped, decoded>>

(* while (queue_->size() > 2): the size is read and mutex_ released again *)
TrimTest(a) ==
  /\ adding[a] = "trim"
  /\ Queue!MutexFree
  /\ IF Len(queue) > Keep
     THEN AdderGoes(a, "pop") /\ Queue!PopCall(PopSide(a))
     ELSE AdderGoes(a, "push") /\ UNCHANGED queueVars
  /\ UNCHANGED <<decoding, dropped, decoded>>

TrimPop(a) ==
  /\ adding[a] = "pop"
  /\ \/ Queue!PopBegin(PopSide(a)) \/ Queue!PopWait(PopSide(a)) \/ Queue!PopResume(PopSide(a))
  /\ UNCHANGED <<adding, decoding, dropped, decoded>>

TrimDelete(a) ==
  /\ adding[a] = "pop"
  /\ pc[PopSide(a)] = "idle"
  /\ AdderGoes(a, "trim")
  /\ dropped' = dropped \cup {got[PopSide(a)]}
  /\ UNCHANGED <<queueVars, decoding, decoded>>

AddPush(a) ==
  /\ adding[a] = "push"
  /\ Queue!Push(PushSide(a), Len(pushed) + 1)
  /\ AdderGoes(a, "notify")
  /\ UNCHANGED <<decoding, dropped, decoded>>

AddNotify(a) ==
  /\ adding[a] = "notify"
  /\ Queue!PushNotify(PushSide(a))
  /\ AdderGoes(a, "out")
  /\ UNCHANGED <<decoding, dropped, decoded>>

-----------------------------------------------------------------------------
(* thread_OnExecute: pop; then decode, hand on and delete the packet *)

DecoderCall ==
  /\ ~decoding
  /\ Queue!PopCall(PopSide(Decoder))
  /\ decoding' = TRUE
  /\ UNCHANGED <<adding, dropped, decoded>>

DecoderPop ==
  /\ \/ Queue!PopBegin(PopSide(Decoder)) \/ Queue!PopWait(PopSide(Decoder))
     \/ Queue!PopResume(PopSide(Decoder))
  /\ UNCHANGED <<adding, decoding, dropped, decoded>>

Decode ==
  /\ decoding
  /\ pc[PopSide(Decoder)] = "idle"
  /\ decoding' = FALSE
  /\ decoded' = Append(decoded, got[PopSide(Decoder)])
  /\ UNCHANGED <<queueVars, adding, dropped>>

SpuriousWakeup ==
  /\ \E t \in {PopSide(a) : a \in Adders \cup {Decoder}} : Queue!SpuriousWakeup(t)
  /\ UNCHANGED <<adding, decoding, dropped, decoded>>

-----------------------------------------------------------------------------
AdderStep(a) ==
  TrimTest(a) \/ TrimPop(a) \/ TrimDelete(a) \/ AddPush(a) \/ AddNotify(a)

DecoderStep == DecoderCall \/ DecoderPop \/ Decode

DecoderNext ==
  \/ \E a \in Adders : AddCall(a) \/ AdderStep(a)
  \/ DecoderStep
  \/ SpuriousWakeup

DecoderSafeSpec == DecoderInit /\ [][DecoderNext]_decoderVars

(***************************************************************************)
(* The decoder and an adder inside add run while they can, and are not     *)
(* starved at mutex_.  Nobody is obliged to call add again: a caller that  *)
(* is stuck in add cannot.                                                 *)
(***************************************************************************)
DecoderFairness == SF_decoderVars(DecoderStep) /\ \A a \in Adders : SF_decoderVars(AdderStep(a))

DecoderSpec == DecoderSafeSpec /\ DecoderFairness

-----------------------------------------------------------------------------
(* Properties *)

(* The packets decoded come in the order in which they were queued, none      *)
(* twice and none that a trimming adder took, however the adders' pops and    *)
(* the decoder's interleave; and what pop gave the decoder is a packet, which *)
(* AudioDecoder.hpp:60 dereferences unseen.                                  *)
DecodedInOrder ==
  /\ \A i, j \in DOMAIN decoded : i < j => decoded[i] < decoded[j]
  /\ \A i \in DOMAIN decoded : decoded[i] \notin dropped
  /\ decoding /\ pc[PopSide(Decoder)] = "idle" => got[PopSide(Decoder)] # NoPacket

(* Each adder may push one packet on a queue whose length it looked at        *)
(* earlier: the queue exceeds MAX_DELAY_LIMIT_COUNT by as many packets as     *)
(* there are adders, and no more.                                            *)
DelayBounded == Len(queue) <= DelayLimit + Cardinality(Adders)

(* An adder is held up in add only while it waits for a packet to trim that   *)
(* the decoder took before it.                                               *)
StuckOnlyTrimming ==
  \A a \in Adders :
    (adding[a] # "out") ~> (adding[a] = "out" \/ (adding[a] = "pop" /\ queue = <<>>))
=============================================================================
