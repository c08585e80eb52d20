---------------------------- MODULE SimpleThread ----------------------------
(***************************************************************************)
(* ryulib/SimpleThread.hpp: a std::thread that runs on_execute_ and then   *)
(* on_terminated_, the flag that asks it to stop, and the condition        *)
(* variable it sleeps on.  The controller is the thread that owns the      *)
(* object.  on_execute_ is the loop every user of the class writes:        *)
(*   while (isTerminated() == false) { one of BodyCalls }                  *)
(* The guards of sleep and sleepTight are read without mutex_, so testing  *)
(* the guard and falling asleep are two steps; wakeUp holds mutex_ for the *)
(* whole of its body and is one.                                           *)
(***************************************************************************)
EXTENDS Naturals, FiniteSets

CONSTANTS
  BodyCalls,  \* what the loop calls: a subset of {"sleep", "sleepTight", "work"}
  MaxEnds     \* bound: number of terminate.. calls the controller makes

ASSUME ThreadAssumption ==
  /\ BodyCalls \subseteq {"sleep", "sleepTight", "work"}
  /\ MaxEnds \in Nat

VARIABLES
  isTerminated,  \* is_terminated_
  tpc,           \* where the thread is
  handle,        \* thread_: "joinable", or what took the thread out of it
  cpc,           \* where the controller is in its call
  cancelPending, \* pthread_cancel was called on the thread
  onTerminated,  \* on_terminated_ is set
  fired,         \* how often on_terminated_ ran
  ends,          \* how many terminate.. calls were made
  nows           \* how many of them were terminateNow()

threadVars == <<isTerminated, tpc, handle, cpc, cancelPending, onTerminated, fired, ends, nows>>

Asleep == {"asleepTimed", "asleepTight"}
Over == {"exited", "cancelled"}
ThreadStates == {"test", "body", "timed", "tight", "work", "returned"} \cup Asleep \cup Over
ControllerStates == {"idle", "waking", "joining", "cancelled", "destroyed", "aborted"}

(* The constructor has started the thread. *)
Init ==
  /\ isTerminated = FALSE
  /\ tpc = "test"
  /\ handle = "joinable"
  /\ cpc = "idle"
  /\ cancelPending = FALSE
  /\ onTerminated = FALSE
  /\ fired = 0
  /\ ends = 0
  /\ nows = 0

-----------------------------------------------------------------------------
(* The thread *)

ThreadGoes(to) ==
  /\ tpc' = to
  /\ UNCHANGED <<isTerminated, handle, cpc, cancelPending, onTerminated, fired, ends, nows>>

LoopTest_NeverMutant ==
  /\ tpc = "test"
  /\ ThreadGoes("body")

(* while (isTerminated() == false) *)
LoopTest ==
  /\ tpc = "test"
  /\ ThreadGoes(IF isTerminated THEN "returned" ELSE "body")

(* sleep(millis) up to its guard: it returns at once unless is_terminated_.  It *)
(* may be the last thing that other work does.                                *)
Sleep ==
  /\ tpc \in {"body", "work"}
  /\ "sleep" \in BodyCalls
  /\ ThreadGoes(IF isTerminated = FALSE THEN "test" ELSE "timed")

(* sleepTight() up to the same guard *)
SleepTight ==
  /\ tpc = "body"
  /\ "sleepTight" \in BodyCalls
  /\ ThreadGoes(IF isTerminated = FALSE THEN "test" ELSE "tight")

(* anything else the body does, for as long as it takes *)
BeginWork ==
  /\ tpc = "body"
  /\ "work" \in BodyCalls
  /\ ThreadGoes("work")

EndWork ==
  /\ tpc = "work"
  /\ ThreadGoes("test")

(* lock mutex_, and wait: the thread is asleep when mutex_ is free again *)
FallAsleep ==
  \/ tpc = "timed" /\ ThreadGoes("asleepTimed")
  \/ tpc = "tight" /\ ThreadGoes("asleepTight")

(* wait_for gives up after its time *)
TimeOut ==
  /\ tpc = "asleepTimed"
  /\ ThreadGoes("test")

SpuriousWakeup ==
  /\ tpc \in Asleep
  /\ ThreadGoes("test")

(* the lambda of the constructor, after on_execute_ returned *)
Finish ==
  /\ tpc = "returned"
  /\ tpc' = "exited"
  /\ fired' = IF onTerminated THEN fired + 1 ELSE fired
  /\ UNCHANGED <<isTerminated, handle, cpc, cancelPending, onTerminated, ends, nows>>

(* the cancellation takes effect, at once or at a later cancellation point *)
Cancelled ==
  /\ cancelPending
  /\ tpc \notin Over
  /\ ThreadGoes("cancelled")

-----------------------------------------------------------------------------
(* The controller *)

Woken == IF tpc \in Asleep THEN "test" ELSE tpc

WakeUp ==
  /\ cpc = "idle"
  /\ tpc' = Woken
  /\ UNCHANGED <<isTerminated, handle, cpc, cancelPending, onTerminated, fired, ends, nows>>

SetOnTerminated ==
  /\ cpc = "idle"
  /\ onTerminated' = TRUE
  /\ UNCHANGED <<isTerminated, tpc, handle, cpc, cancelPending, fired, ends, nows>>

(* is_terminated_ = true, the first statement of the three terminate.. calls *)
BeginEnd ==
  /\ cpc = "idle"
  /\ ends < MaxEnds
  /\ ends' = ends + 1
  /\ isTerminated' = TRUE

(* terminate(): detach throws when the thread was given away already *)
Terminate ==
  /\ BeginEnd
  /\ IF handle = "joinable"
     THEN handle' = "detached" /\ UNCHANGED cpc
     ELSE cpc' = "aborted" /\ UNCHANGED handle
  /\ UNCHANGED <<tpc, cancelPending, onTerminated, fired, nows>>

(* terminateAndWait(): flag, wakeUp, join *)
TerminateAndWait ==
  /\ BeginEnd
  /\ cpc' = "waking"
  /\ UNCHANGED <<tpc, handle, cancelPending, onTerminated, fired, nows>>

WakeToJoin_NoNotifyMutant ==
  /\ cpc = "waking"
  /\ cpc' = "joining"
  /\ UNCHANGED <<tpc, isTerminated, handle, cancelPending, onTerminated, fired, ends, nows>>

WakeToJoin ==
  /\ cpc = "waking"
  /\ tpc' = Woken
  /\ cpc' = "joining"
  /\ UNCHANGED <<isTerminated, handle, cancelPending, onTerminated, fired, ends, nows>>

Join_EarlyMutant ==
  /\ cpc = "joining"
  /\ cpc' = "idle"
  /\ handle' = "joined"
  /\ UNCHANGED <<isTerminated, tpc, cancelPending, onTerminated, fired, ends, nows>>

(* the callback of line 82 run by terminateAndWait() as well *)
Join_FireMutant ==
  /\ cpc = "joining"
  /\ \/ /\ handle = "joinable"
        /\ tpc \in Over
        /\ handle' = "joined"
        /\ cpc' = "idle"
        /\ fired' = IF onTerminated THEN fired + 1 ELSE fired
     \/ /\ handle # "joinable"
        /\ cpc' = "aborted"
        /\ UNCHANGED <<handle, fired>>
  /\ UNCHANGED <<isTerminated, tpc, cancelPending, onTerminated, ends, nows>>

(* join blocks until the thread is over; it throws when there is none to join *)
Join ==
  /\ cpc = "joining"
  /\ \/ /\ handle = "joinable"
        /\ tpc \in Over
        /\ handle' = "joined"
        /\ cpc' = "idle"
     \/ /\ handle # "joinable"
        /\ cpc' = "aborted"
        /\ UNCHANGED handle
  /\ UNCHANGED <<isTerminated, tpc, cancelPending, onTerminated, fired, ends, nows>>

(* terminateNow(): without a thread the native handle is not one, and what   *)
(* pthread_cancel does with it is undefined                                  *)
TerminateNow ==
  /\ BeginEnd
  /\ nows' = nows + 1
  /\ IF handle = "joinable"
     THEN cancelPending' = TRUE /\ cpc' = "cancelled"
     ELSE UNCHANGED cancelPending /\ cpc' \in {"cancelled", "aborted"}
  /\ UNCHANGED <<tpc, handle, onTerminated, fired>>

FireNow ==
  /\ cpc = "cancelled"
  /\ fired' = IF onTerminated THEN fired + 1 ELSE fired
  /\ cpc' = "idle"
  /\ UNCHANGED <<isTerminated, tpc, handle, cancelPending, onTerminated, ends, nows>>

(* the destructor detaches, whatever happened before; the examples destroy   *)
(* the object where the process ends                                         *)
Destroy ==
  /\ cpc = "idle"
  /\ cpc' = IF handle = "joinable" THEN "destroyed" ELSE "aborted"
  /\ UNCHANGED <<isTerminated, tpc, handle, cancelPending, onTerminated, fired, ends, nows>>

-----------------------------------------------------------------------------
Running == cpc \notin {"destroyed", "aborted"}

ThreadStep ==
  /\ Running
  /\ \/ LoopTest \/ Sleep \/ SleepTight \/ BeginWork \/ EndWork
     \/ FallAsleep \/ TimeOut \/ SpuriousWakeup \/ Finish \/ Cancelled

ControllerStep ==
  \/ WakeUp \/ SetOnTerminated \/ Terminate \/ TerminateAndWait \/ WakeToJoin \/ Join
  \/ TerminateNow \/ FireNow \/ Destroy

Next == ThreadStep \/ ControllerStep

SafeSpec == Init /\ [][Next]_threadVars

(***************************************************************************)
(* A thread that can run does; wait_for returns after its time; a call of  *)
(* the controller that can go on does.  A sleepTight is left only by a     *)
(* notification: spurious wake-ups are possible, not promised.             *)
(***************************************************************************)
Fairness ==
  /\ WF_threadVars(Running /\ (LoopTest \/ Sleep \/ SleepTight \/ BeginWork \/ EndWork
                               \/ FallAsleep \/ TimeOut \/ Finish))
  /\ WF_threadVars(WakeToJoin)
  /\ WF_threadVars(Join)
  /\ WF_threadVars(FireNow)

Spec == SafeSpec /\ Fairness

-----------------------------------------------------------------------------
(* Properties *)

(* Every variable keeps its type. *)
TypeOK ==
  /\ isTerminated \in BOOLEAN
  /\ tpc \in ThreadStates
  /\ handle \in {"joinable", "detached", "joined"}
  /\ cpc \in ControllerStates
  /\ cancelPending \in BOOLEAN
  /\ onTerminated \in BOOLEAN
  /\ fired \in 0 .. MaxEnds + 1
  /\ ends \in 0 .. MaxEnds
  /\ nows \in 0 .. MaxEnds

(* sleep and sleepTight block only a thread that was already told to stop:   *)
(* a thread that was not spins through its loop (SimpleThread.hpp:41,49).    *)
BlocksOnlyTerminated ==
  tpc \in Asleep \cup {"timed", "tight", "returned"} => isTerminated

(* on_terminated_ runs once for the end of the thread, not before            *)
(* on_execute_ has returned, and at most once more for each terminateNow(),  *)
(* which runs it beside the thread it cancels (lines 29-30, 82).             *)
TerminatedEventOnce ==
  fired <= nows + (IF tpc = "exited" THEN 1 ELSE 0)

(* terminateAndWait() gets the thread out of a sleepTight that it had reached *)
(* before wakeUp(), and returns.                                             *)
SleeperIsJoined == (cpc = "waking" /\ tpc = "asleepTight" /\ handle = "joinable")
                     ~> cpc \notin {"waking", "joining"}
=============================================================================
