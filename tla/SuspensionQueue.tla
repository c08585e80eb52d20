--------------------------- MODULE SuspensionQueue ---------------------------
(***************************************************************************)
(* ryulib/SuspensionQueue.hpp: a queue guarded by mutex_ whose pop blocks  *)
(* on the condition variable condition_ while the queue is empty.          *)
(*                                                                         *)
(* Every critical section is one action, except that of a consumer that    *)
(* found the queue empty: it holds mutex_ in state "mustWait" until        *)
(* condition_.wait releases it, because terminate() takes no lock and may  *)
(* run in between.  Both overloads of pop have this control; returning     *)
(* NULL and returning false are both "no item".                            *)
(***************************************************************************)
EXTENDS Naturals, Sequences

CONSTANTS
  Producers,   \* threads that call push
  Consumers,   \* threads that call pop
  Items,       \* what is pushed
  NoItem,      \* the result of a pop that returns without an item
  MaxPushes    \* bound: number of push calls explored

ASSUME QueueAssumption ==
  /\ Producers \cap Consumers = {}
  /\ NoItem \notin Items
  /\ MaxPushes \in Nat

VARIABLES
  queue,        \* queue_
  isTerminated, \* is_terminated_
  pc,           \* where each thread is in its call of push or pop
  terminating,  \* a terminate() call has set the flag and not yet notified
  got,          \* the value the last finished pop of each consumer returned
  pushed,       \* history: every item pushed, in the order of the critical sections
  popped        \* history: every item popped, in that order

vars == <<queue, isTerminated, pc, terminating, got, pushed, popped>>

ProducerStates == {"idle", "unlocked"}
ConsumerStates == {"idle", "entering", "mustWait", "waiting", "woken"}

Init ==
  /\ queue = <<>>
  /\ isTerminated = FALSE
  /\ pc = [t \in Producers \cup Consumers |-> "idle"]
  /\ terminating = FALSE
  /\ got = [c \in Consumers |-> NoItem]
  /\ pushed = <<>>
  /\ popped = <<>>

(***************************************************************************)
(* mutex_ is held between two actions only by a consumer about to wait.    *)
(***************************************************************************)
MutexFree == \A c \in Consumers : pc[c] # "mustWait"

(***************************************************************************)
(* condition_.notify_all(): every thread blocked in wait becomes runnable. *)
(***************************************************************************)
NotifyAll_OneMutant ==
  LET blocked == {c \in Consumers : pc[c] = "waiting"} IN
  IF blocked = {} THEN pc
  ELSE [pc EXCEPT ![CHOOSE c \in blocked : TRUE] = "woken"]

NotifyAll ==
  [t \in DOMAIN pc |-> IF t \in Consumers /\ pc[t] = "waiting" THEN "woken" ELSE pc[t]]

-----------------------------------------------------------------------------
(* push *)

Push_FrontMutant(p, item) ==
  /\ pc[p] = "idle"
  /\ MutexFree
  /\ Len(pushed) < MaxPushes
  /\ queue' = <<item>> \o queue
  /\ pushed' = Append(pushed, item)
  /\ pc' = [pc EXCEPT ![p] = "unlocked"]
  /\ UNCHANGED <<isTerminated, terminating, got, popped>>

(* lock, queue_.push(item), unlock *)
Push(p, item) ==
  /\ pc[p] = "idle"
  /\ MutexFree
  /\ Len(pushed) < MaxPushes
  /\ queue' = Append(queue, item)
  /\ pushed' = Append(pushed, item)
  /\ pc' = [pc EXCEPT ![p] = "unlocked"]
  /\ UNCHANGED <<isTerminated, terminating, got, popped>>

PushNotify_ForgetMutant(p) ==
  /\ pc[p] = "unlocked"
  /\ pc' = [pc EXCEPT ![p] = "idle"]
  /\ UNCHANGED <<queue, isTerminated, terminating, got, pushed, popped>>

(* notify_all, after the unlock *)
PushNotify(p) ==
  /\ pc[p] = "unlocked"
  /\ pc' = [NotifyAll EXCEPT ![p] = "idle"]
  /\ UNCHANGED <<queue, isTerminated, terminating, got, pushed, popped>>

-----------------------------------------------------------------------------
(* pop *)

PopCall(c) ==
  /\ pc[c] = "idle"
  /\ pc' = [pc EXCEPT ![c] = "entering"]
  /\ UNCHANGED <<queue, isTerminated, terminating, got, pushed, popped>>

TakeFront_PeekMutant(c) ==
  /\ queue # <<>>
  /\ got' = [got EXCEPT ![c] = Head(queue)]
  /\ popped' = Append(popped, Head(queue))
  /\ pc' = [pc EXCEPT ![c] = "idle"]
  /\ UNCHANGED <<queue, isTerminated, terminating, pushed>>

(* front and pop of a non-empty queue_, and the return that unlocks *)
TakeFront(c) ==
  /\ queue # <<>>
  /\ got' = [got EXCEPT ![c] = Head(queue)]
  /\ queue' = Tail(queue)
  /\ popped' = Append(popped, Head(queue))
  /\ pc' = [pc EXCEPT ![c] = "idle"]
  /\ UNCHANGED <<isTerminated, terminating, pushed>>

(* the loop test fails: the consumer keeps mutex_ and goes on to wait *)
FindEmpty(c) ==
  /\ queue = <<>>
  /\ pc' = [pc EXCEPT ![c] = "mustWait"]
  /\ UNCHANGED <<queue, isTerminated, terminating, got, pushed, popped>>

(* lock, and the first loop test; is_terminated_ is not looked at here *)
PopBegin(c) ==
  /\ pc[c] = "entering"
  /\ MutexFree
  /\ TakeFront(c) \/ FindEmpty(c)

(* condition_.wait(lock): unlock and block, atomically *)
PopWait(c) ==
  /\ pc[c] = "mustWait"
  /\ pc' = [pc EXCEPT ![c] = "waiting"]
  /\ UNCHANGED <<queue, isTerminated, terminating, got, pushed, popped>>

(* the wake-ups without a notification that wait is allowed *)
SpuriousWakeup(c) ==
  /\ pc[c] = "waiting"
  /\ pc' = [pc EXCEPT ![c] = "woken"]
  /\ UNCHANGED <<queue, isTerminated, terminating, got, pushed, popped>>

GiveUp(c) ==
  /\ got' = [got EXCEPT ![c] = NoItem]
  /\ pc' = [pc EXCEPT ![c] = "idle"]
  /\ UNCHANGED <<queue, isTerminated, terminating, pushed, popped>>

PopResume_NoLoopMutant(c) ==
  /\ pc[c] = "woken"
  /\ MutexFree
  /\ IF isTerminated \/ queue = <<>> THEN GiveUp(c) ELSE TakeFront(c)

(* wait returns with mutex_ locked again; the flag first, then the loop test *)
PopResume(c) ==
  /\ pc[c] = "woken"
  /\ MutexFree
  /\ IF isTerminated THEN GiveUp(c) ELSE TakeFront(c) \/ FindEmpty(c)

-----------------------------------------------------------------------------
(* terminate: neither half takes mutex_ *)

TerminateFlag ==
  /\ ~terminating
  /\ isTerminated' = TRUE
  /\ terminating' = TRUE
  /\ UNCHANGED <<queue, pc, got, pushed, popped>>

TerminateNotify ==
  /\ terminating
  /\ terminating' = FALSE
  /\ pc' = NotifyAll
  /\ UNCHANGED <<queue, isTerminated, got, pushed, popped>>

-----------------------------------------------------------------------------
Next ==
  \/ \E p \in Producers : (\E item \in Items : Push(p, item)) \/ PushNotify(p)
  \/ \E c \in Consumers :
        PopCall(c) \/ PopBegin(c) \/ PopWait(c) \/ SpuriousWakeup(c) \/ PopResume(c)
  \/ TerminateFlag
  \/ TerminateNotify

SafeSpec == Init /\ [][Next]_vars

(***************************************************************************)
(* A thread inside push, pop or terminate keeps running (weak fairness),   *)
(* and one that asks for mutex_ is not starved by the others (strong       *)
(* fairness).  Nobody is obliged to call push, pop or terminate.           *)
(***************************************************************************)
Fairness ==
  /\ \A p \in Producers : WF_vars(PushNotify(p))
  /\ \A c \in Consumers :
        SF_vars(PopBegin(c)) /\ WF_vars(PopWait(c)) /\ SF_vars(PopResume(c))
  /\ WF_vars(TerminateNotify)

Spec == SafeSpec /\ Fairness

-----------------------------------------------------------------------------
(* Properties *)

(* Every variable keeps its type. *)
TypeOK ==
  /\ queue \in Seq(Items)
  /\ isTerminated \in BOOLEAN
  /\ pc \in [Producers \cup Consumers -> ProducerStates \cup ConsumerStates]
  /\ \A p \in Producers : pc[p] \in ProducerStates
  /\ \A c \in Consumers : pc[c] \in ConsumerStates
  /\ terminating \in BOOLEAN
  /\ got \in [Consumers -> Items \cup {NoItem}]
  /\ pushed \in Seq(Items)
  /\ popped \in Seq(Items)

(* push notifies after it unlocked, so there is a window in which an item   *)
(* lies in the queue and consumers sleep.  Outside the window it cannot      *)
(* happen: a sleeping consumer and a non-empty queue mean that some producer *)
(* is still going to notify.                                                 *)
NoMissedWakeup ==
  (queue # <<>> /\ \E c \in Consumers : pc[c] = "waiting")
    => \E p \in Producers : pc[p] = "unlocked"

(* A consumer that holds mutex_ on its way into wait still sees an empty     *)
(* queue, and is the only one that does so.                                  *)
WaitsOnlyOnEmpty ==
  \A c \in Consumers : pc[c] = "mustWait" =>
    /\ queue = <<>>
    /\ \A d \in Consumers : pc[d] = "mustWait" => d = c

(* No item is lost, duplicated or overtaken on its way through the queue,    *)
(* whatever consumers pop it and whether or not terminate was called.        *)
FifoNoLoss == popped \o queue = pushed

(* pop returns without an item only after terminate(): a wake-up that finds  *)
(* the queue emptied by another consumer goes back to wait.                  *)
EmptyHandedOnlyIfTerminated ==
  [][\A c \in Consumers :
       (pc[c] = "woken" /\ pc'[c] = "idle" /\ popped' = popped) => isTerminated]_vars

(* A consumer that is asleep when terminate() has set the flag but not yet   *)
(* notified gets out of pop.  (One that falls asleep after that notification *)
(* need not: the flag is not looked at before the wait.)                     *)
TerminateReleasesSleepers ==
  \A c \in Consumers : (terminating /\ pc[c] = "waiting") ~> (pc[c] = "idle")

-----------------------------------------------------------------------------
(***************************************************************************)
(* The queue implements the blocking queue its callers rely on, safety and *)
(* liveness.                                                               *)
(***************************************************************************)
Fifo == INSTANCE FifoQueue WITH
          popping <- {c \in Consumers : pc[c] # "idle"},
          closed <- isTerminated

(* Every step of push, pop and terminate is a step of the abstract queue, or *)
(* invisible to its callers.                                                 *)
FifoSafe == Fifo!SafeSpec
=============================================================================
