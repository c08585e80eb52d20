------------------------- MODULE SimpleThreadProofs -------------------------
(***************************************************************************)
(* The safety of SimpleThread for any loop body and any number of          *)
(* terminate.. calls.  Two facts strengthen the invariants: a thread is    *)
(* cancelled only after terminateNow() asked for it, and on_terminated_    *)
(* has run at most once for the end of the thread and once for each        *)
(* terminateNow() that got as far as the callback.                         *)
(***************************************************************************)
EXTENDS SimpleThread, TLAPS

CancelledIsAsked ==
  /\ tpc = "cancelled" => cancelPending
  /\ cpc = "cancelled" /\ handle = "joinable" => cancelPending

(* every call of on_terminated_ has a reason, and a pending one keeps its own *)
FiringsCounted ==
  /\ nows <= ends
  /\ fired + (IF cpc = "cancelled" THEN 1 ELSE 0) <= nows + (IF tpc = "exited" THEN 1 ELSE 0)

(* what terminateAndWait() promises its users, for the proofs about them *)
JoinedIsOver ==
  handle = "joined" =>
    /\ tpc \in Over
    /\ (~cancelPending => tpc = "exited")

IInv ==
  /\ TypeOK
  /\ CancelledIsAsked
  /\ FiringsCounted
  /\ BlocksOnlyTerminated
  /\ JoinedIsOver
  /\ TerminatedEventOnce

-----------------------------------------------------------------------------
LEMMA InitInv == Init => IInv
<1>. SUFFICES ASSUME Init PROVE IInv
  OBVIOUS
<1>1. TypeOK
  <2>1. {isTerminated, cancelPending, onTerminated} \subseteq BOOLEAN
    BY DEF Init
  <2>2. fired \in 0 .. MaxEnds + 1 /\ ends \in 0 .. MaxEnds /\ nows \in 0 .. MaxEnds
    BY ThreadAssumption DEF Init
  <2>. QED
    BY <2>1, <2>2 DEF Init, TypeOK, ThreadStates, ControllerStates
<1>2. CancelledIsAsked /\ FiringsCounted
  BY DEF Init, CancelledIsAsked, FiringsCounted
<1>3. BlocksOnlyTerminated /\ JoinedIsOver /\ TerminatedEventOnce
  BY DEF Init, BlocksOnlyTerminated, JoinedIsOver, TerminatedEventOnce, Asleep
<1>. QED
  BY <1>1, <1>2, <1>3 DEF IInv

(* The steps that only move the thread within its loop, or end it. *)
LEMMA ThreadGoesInv ==
  ASSUME IInv, NEW to \in ThreadStates \ {"exited"}, tpc \notin Over, ThreadGoes(to),
         to \in Asleep \cup {"timed", "tight", "returned"} => isTerminated,
         to = "cancelled" => cancelPending
  PROVE  IInv'
BY DEF IInv, ThreadGoes, TypeOK, CancelledIsAsked, FiringsCounted, BlocksOnlyTerminated,
       JoinedIsOver, TerminatedEventOnce, Over

THEOREM StepInv == IInv /\ [Next]_threadVars => IInv'
<1>. SUFFICES ASSUME IInv, [Next]_threadVars PROVE IInv'
  OBVIOUS
<1>. USE ThreadAssumption
<1>1. CASE ThreadStep
  <2>1. CASE LoopTest
    BY <2>1, ThreadGoesInv DEF LoopTest, ThreadStates, Asleep, Over
  <2>2. CASE Sleep
    BY <2>2, ThreadGoesInv DEF Sleep, IInv, TypeOK, ThreadStates, Asleep, Over
  <2>3. CASE SleepTight
    BY <2>3, ThreadGoesInv DEF SleepTight, IInv, TypeOK, ThreadStates, Asleep, Over
  <2>4. CASE BeginWork \/ EndWork
    BY <2>4, ThreadGoesInv DEF BeginWork, EndWork, ThreadStates, Asleep, Over
  <2>5. CASE FallAsleep
    BY <2>5, ThreadGoesInv DEF FallAsleep, IInv, BlocksOnlyTerminated, ThreadStates, Asleep, Over
  <2>6. CASE TimeOut \/ SpuriousWakeup
    BY <2>6, ThreadGoesInv DEF TimeOut, SpuriousWakeup, ThreadStates, Asleep, Over
  <2>7. CASE Finish
    BY <2>7 DEF Finish, IInv, TypeOK, CancelledIsAsked, FiringsCounted, BlocksOnlyTerminated,
                JoinedIsOver, TerminatedEventOnce, ThreadStates, Asleep, Over
  <2>8. CASE Cancelled
    BY <2>8, ThreadGoesInv DEF Cancelled, ThreadStates, Asleep, Over
  <2>. QED
    BY <1>1, <2>1, <2>2, <2>3, <2>4, <2>5, <2>6, <2>7, <2>8 DEF ThreadStep
<1>2. CASE ControllerStep
  <2>0. /\ Woken \in ThreadStates
        /\ Woken = "exited" <=> tpc = "exited"
        /\ Woken = "cancelled" <=> tpc = "cancelled"
        /\ Woken \in Asleep \cup {"timed", "tight", "returned"} => isTerminated
        /\ tpc \in Over => Woken = tpc
    BY DEF Woken, IInv, TypeOK, BlocksOnlyTerminated, ThreadStates, Asleep, Over
  <2>. USE DEF IInv, TypeOK, CancelledIsAsked, FiringsCounted, BlocksOnlyTerminated,
               JoinedIsOver, TerminatedEventOnce, ControllerStates, Over
  <2>1. CASE WakeUp
    BY <2>0, <2>1 DEF WakeUp
  <2>2. CASE SetOnTerminated
    BY <2>2 DEF SetOnTerminated
  <2>3. CASE Terminate
    BY <2>3 DEF Terminate, BeginEnd
  <2>4. CASE TerminateAndWait
    BY <2>4 DEF TerminateAndWait, BeginEnd
  <2>5. CASE WakeToJoin
    BY <2>0, <2>5 DEF WakeToJoin
  <2>6. CASE Join
    BY <2>6 DEF Join
  <2>7. CASE TerminateNow
    <3>1. CASE handle = "joinable"
      <4>1. isTerminated' /\ cancelPending' /\ cpc' = "cancelled"
        BY <2>7, <3>1 DEF TerminateNow, BeginEnd
      <4>2. ends' = ends + 1 /\ nows' = nows + 1 /\ ends' \in 0 .. MaxEnds /\ nows' \in 0 .. MaxEnds /\ UNCHANGED <<tpc, handle, onTerminated, fired>>
        BY <2>7 DEF TerminateNow, BeginEnd
      <4>3. {isTerminated', cancelPending'} \subseteq BOOLEAN
        BY <2>7, <3>1 DEF TerminateNow, BeginEnd
      <4>. QED
        BY <3>1, <4>1, <4>2, <4>3
    <3>2. CASE handle # "joinable"
      <4>1. isTerminated' /\ cpc' \in {"cancelled", "aborted"} /\ UNCHANGED cancelPending
        BY <2>7, <3>2 DEF TerminateNow, BeginEnd
      <4>2. ends' = ends + 1 /\ nows' = nows + 1 /\ ends' \in 0 .. MaxEnds /\ nows' \in 0 .. MaxEnds /\ UNCHANGED <<tpc, handle, onTerminated, fired>>
        BY <2>7 DEF TerminateNow, BeginEnd
      <4>3. isTerminated' \in BOOLEAN
        BY <2>7 DEF TerminateNow, BeginEnd
      <4>. QED
        BY <3>2, <4>1, <4>2, <4>3
    <3>. QED
      BY <3>1, <3>2
  <2>8. CASE FireNow
    <3>1. fired' \in 0 .. MaxEnds + 1 /\ FiringsCounted'
      BY <2>8 DEF FireNow
    <3>2. TerminatedEventOnce'
      BY <2>8 DEF FireNow
    <3>. QED
      BY <2>8, <3>1, <3>2 DEF FireNow
  <2>9. CASE Destroy
    BY <2>9 DEF Destroy
  <2>. QED
    BY <1>2, <2>1, <2>2, <2>3, <2>4, <2>5, <2>6, <2>7, <2>8, <2>9 DEF ControllerStep
<1>3. CASE UNCHANGED threadVars
  BY <1>3 DEF threadVars, IInv, TypeOK, CancelledIsAsked, FiringsCounted, BlocksOnlyTerminated,
              JoinedIsOver, TerminatedEventOnce
<1>. QED
  BY <1>1, <1>2, <1>3 DEF Next

THEOREM Invariance == SafeSpec => []IInv
BY InitInv, StepInv, PTL DEF SafeSpec

(* Every variable keeps its type; on_terminated_ runs at most once more than  *)
(* there are terminate.. calls.                                              *)
THEOREM TypeCorrect == SafeSpec => []TypeOK
<1>1. IInv => TypeOK
  BY DEF IInv
<1>. QED
  BY <1>1, Invariance, PTL

(* sleep and sleepTight put only a thread that was told to stop to sleep.     *)
THEOREM OnlyTerminatedThreadsBlock == SafeSpec => []BlocksOnlyTerminated
<1>1. IInv => BlocksOnlyTerminated
  BY DEF IInv
<1>. QED
  BY <1>1, Invariance, PTL

(* on_terminated_ runs once for the end of the thread and at most once more  *)
(* for each terminateNow().                                                  *)
THEOREM TerminatedOnce == SafeSpec => []TerminatedEventOnce
<1>1. IInv => TerminatedEventOnce
  BY DEF IInv
<1>. QED
  BY <1>1, Invariance, PTL
=============================================================================
