----------------------------- MODULE PipeSender -----------------------------
(***************************************************************************)
(* ryulib/PipeSender.hpp: open, close and send of any thread become tasks  *)
(* of a Worker, whose thread alone uses pipe_.  What a caller does before  *)
(* worker_.add is a step of its own: open creates the pipe instance there, *)
(* send looks at is_connected_.  A pipe is known by the number of the open *)
(* call that created it; 0 is INVALID_HANDLE_VALUE.  Windows keeps one     *)
(* instance of a name, so an open() of a name that has one returns false   *)
(* and changes nothing, while another name is opened at once.              *)
(*                                                                         *)
(* The callers never use the object once its destructor runs.              *)
(***************************************************************************)
EXTENDS Worker, FiniteSets

CONSTANT Names  \* the names that pipes are opened with

VARIABLES
  pending,      \* the task each caller is about to add
  opens,        \* history: number of instances created
  live,         \* the pipe instances that exist, with their names
  reader,       \* the other end of each: "none" yet, "here" or "gone"
  pipe,         \* pipe_
  isConnected,  \* is_connected_
  waiting,      \* the thread is in ConnectNamedPipe or FlushFileBuffers
  written       \* history: what WriteFile took, <<place of the send in the queue, pipe>>

pipeVars == <<opens, live, reader, pipe, isConnected, waiting, written>>
senderVars == <<vars, pending, pipeVars>>

Pipes == 0 .. MaxAdds
PipeTasks == [kind : {"open"}, of : Pipes \ {0}] \cup [kind : {"close", "send"}]

OpenTask(p) == [kind |-> "open", of |-> p]

(* only the destructor ends the worker *)
ASSUME PipeAssumption == WorkerAssumption /\ Tasks = PipeTasks /\ MaxEnds = 1

SenderInit ==
  /\ Init
  /\ pending = [c \in Clients |-> NoTask]
  /\ opens = 0 /\ live = {}
  /\ reader = [p \in Pipes |-> "none"]
  /\ pipe = 0 /\ isConnected = FALSE
  /\ waiting = FALSE
  /\ written = <<>>

-----------------------------------------------------------------------------
(* The callers *)

Calls(c, task) ==
  /\ cpc = "idle" /\ onTask
  /\ pending[c] = NoTask /\ pc[c] = "idle"
  /\ pending' = [pending EXCEPT ![c] = task]
  /\ UNCHANGED vars

(* the constructor sets on_task_ before anybody else has the object *)
Construct == SetOnTask /\ UNCHANGED <<pending, pipeVars>>

(* CreateNamedPipe succeeds *)
Open(c, name) ==
  /\ \A i \in live : i.name # name
  /\ opens < MaxAdds
  /\ opens' = opens + 1
  /\ live' = live \cup {[of |-> opens', name |-> name]}
  /\ Calls(c, OpenTask(opens'))
  /\ UNCHANGED <<reader, pipe, isConnected, waiting, written>>

Close(c) ==
  /\ Calls(c, [kind |-> "close"])
  /\ UNCHANGED pipeVars

Send(c) ==
  /\ isConnected
  /\ Calls(c, [kind |-> "send"])
  /\ UNCHANGED pipeVars

(* worker_.add *)
AddTask(c) ==
  /\ pending[c] # NoTask
  /\ Add(c, pending[c])
  /\ pending' = [pending EXCEPT ![c] = NoTask]
  /\ UNCHANGED pipeVars

NotifyTask(c) == AddNotify(c) /\ UNCHANGED <<pending, pipeVars>>

(* the destructor *)
Destroy ==
  /\ \A c \in Clients : pending[c] = NoTask /\ pc[c] = "idle"
  /\ onTask
  /\ \/ Thread!TerminateAndWait \/ Thread!WakeToJoin \/ Thread!Join
  /\ UNCHANGED <<queueVars, onTask, handled, executed, pending, pipeVars>>

-----------------------------------------------------------------------------
(* The tasks, in the thread of worker_ *)

Running(kind) ==
  /\ tpc = "work" /\ pc[WorkerThread] = "idle"
  /\ got[WorkerThread].kind = kind

Blocks == waiting' = TRUE /\ UNCHANGED vars
Returns == waiting' = FALSE /\ RunTask

CloseHandle_KeepMutant(p) ==
  /\ live' = {i \in live : i.of # p}
  /\ reader' = [reader EXCEPT ![p] = "gone"]
  /\ UNCHANGED pipe

(* CloseHandle, and pipe_ = INVALID_HANDLE_VALUE *)
CloseHandle(p) ==
  /\ live' = {i \in live : i.of # p}
  /\ reader' = [reader EXCEPT ![p] = "gone"]
  /\ pipe' = 0

OpenBegin_KeepMutant ==
  /\ Running("open") /\ ~waiting
  /\ reader[got[WorkerThread].of] = "none"
  /\ pipe' = IF pipe = 0 THEN got[WorkerThread].of ELSE pipe
  /\ Blocks
  /\ UNCHANGED <<pending, opens, live, reader, isConnected, written>>

(* do_open as far as ConnectNamedPipe, which waits for a reader; an instance  *)
(* that pipe_ still held stays open, and nobody has its handle any more       *)
OpenBegin ==
  /\ Running("open") /\ ~waiting
  /\ reader[got[WorkerThread].of] = "none"
  /\ pipe' = got[WorkerThread].of
  /\ Blocks
  /\ UNCHANGED <<pending, opens, live, reader, isConnected, written>>

OpenEnd ==
  /\ Running("open") /\ waiting
  /\ reader[pipe] # "none"
  /\ isConnected' = TRUE
  /\ Returns
  /\ UNCHANGED <<pending, opens, live, reader, pipe, written>>

Unconnected ==
  /\ CloseHandle(got[WorkerThread].of)
  /\ Returns
  /\ UNCHANGED <<pending, opens, isConnected, written>>

(* ConnectNamedPipe returns FALSE when the reader was there before it (it says *)
(* ERROR_PIPE_CONNECTED, which is not looked at): the pipe is closed under it *)
OpenTooLate ==
  /\ Running("open") /\ ~waiting
  /\ reader[got[WorkerThread].of] # "none"
  /\ Unconnected

OpenFails ==
  /\ Running("open") /\ waiting
  /\ reader[pipe] = "none"
  /\ Unconnected

(* do_close: is_connected_ = false, then FlushFileBuffers waits for the reader *)
CloseBegin ==
  /\ Running("close") /\ ~waiting
  /\ pipe # 0
  /\ isConnected' = FALSE
  /\ Blocks
  /\ UNCHANGED <<pending, opens, live, reader, pipe, written>>

CloseEnd ==
  /\ Running("close") /\ waiting
  /\ CloseHandle(pipe)
  /\ Returns
  /\ UNCHANGED <<pending, opens, isConnected, written>>

CloseNothing ==
  /\ Running("close")
  /\ pipe = 0
  /\ isConnected' = FALSE
  /\ Returns
  /\ UNCHANGED <<pending, opens, live, reader, pipe, written>>

(* do_send: nothing without a pipe; the result of WriteFile is not looked at *)
DoSend ==
  /\ Running("send")
  /\ written' = IF pipe # 0 /\ reader[pipe] = "here"
                THEN Append(written, <<Len(handled) + 1, pipe>>)
                ELSE written
  /\ Returns
  /\ UNCHANGED <<pending, opens, live, reader, isConnected, pipe>>

ThreadIdle ==
  /\ LoopTest \/ BeginPop \/ InPop \/ Finish
  /\ UNCHANGED <<pending, pipeVars>>

ThreadWoken == WokenInPop /\ UNCHANGED <<pending, pipeVars>>

(* the other end of a pipe *)
Reader(p) ==
  /\ \E i \in live : i.of = p
  /\ reader[p] # "gone"
  /\ reader' = [reader EXCEPT ![p] = IF @ = "none" THEN "here" ELSE "gone"]
  /\ UNCHANGED <<vars, pending, opens, live, pipe, isConnected, waiting, written>>

-----------------------------------------------------------------------------
SenderStep ==
  \/ ThreadIdle \/ OpenBegin \/ OpenEnd \/ OpenTooLate
  \/ CloseBegin \/ CloseEnd \/ CloseNothing \/ DoSend

CallerStep(c) == AddTask(c) \/ NotifyTask(c)

SenderNext ==
  \/ Construct
  \/ \E c \in Clients : (\E name \in Names : Open(c, name)) \/ Close(c) \/ Send(c) \/ CallerStep(c)
  \/ SenderStep
  \/ OpenFails
  \/ ThreadWoken
  \/ Destroy
  \/ \E p \in Pipes : Reader(p)

SenderSafeSpec == SenderInit /\ [][SenderNext]_senderVars

(* Threads in a call go on.  No reader is obliged to come; one that is there  *)
(* reads or goes, so that FlushFileBuffers returns.                          *)
Fairness ==
  /\ WF_senderVars(SenderStep)
  /\ \A c \in Clients : WF_senderVars(CallerStep(c))

SenderSpec == SenderSafeSpec /\ Fairness

-----------------------------------------------------------------------------
(* Properties *)

(* The task at place j has begun: pipe_ is what it makes of it. *)
Begun(j) == j <= Len(handled) \/ (j = Len(handled) + 1 /\ waiting)

(* Task j opens p, and the tasks after it as far as n are sends.             *)
LastOpen(p, j, n) ==
  /\ pushed[j] = OpenTask(p)
  /\ \A m \in j + 1 .. n : pushed[m].kind = "send"

(* Another open, with no close before it, has made pipe_ its own.            *)
Overwritten(p) ==
  \E k, j \in 1 .. Len(pushed) :
    /\ k < j /\ LastOpen(p, k, j - 1)
    /\ pushed[j].kind = "open" /\ Begun(j)

(* An instance that exists is on its way to do_open, in one place only, or it *)
(* is pipe_, or it was overwritten by an open() that no close() came before:  *)
(* callers that close what they opened leave no instance behind, and none is  *)
(* used or closed after it was closed (PipeSender.hpp:35-55,73-95).           *)
PipeIsAccountedFor ==
  /\ \A i \in live :
       LET opening == OpenTask(i.of)
           places == Cardinality({c \in Clients : pending[c] = opening})
                     + Cardinality({k \in DOMAIN queue : queue[k] = opening})
                     + (IF Running("open") /\ ~waiting /\ got[WorkerThread] = opening THEN 1 ELSE 0)
                     + (IF pipe = i.of THEN 1 ELSE 0)
       IN places = IF Overwritten(i.of) THEN 0 ELSE 1
  /\ pipe # 0 => \E i \in live : i.of = pipe

(* What a send() of any caller hands over goes to the pipe of the last open   *)
(* queued before it, if no close was queued since, and else to none: the     *)
(* connection its caller saw, unless somebody opened or closed in between.   *)
SentToItsConnection ==
  \A i \in DOMAIN written :
    LET k == written[i][1]
    IN \E j \in 1 .. k - 1 : LastOpen(written[i][2], j, k - 1)

(* Every added task is handled, so that the queue is empty in the end, unless  *)
(* the destructor is faster or do_open waits for ever for a reader that never *)
(* comes.                                                                    *)
EveryTaskHandled ==
  \/ (Len(handled) < Len(pushed)) ~> (Len(handled) = Len(pushed) \/ isTerminated)
  \/ <>[](waiting /\ reader[pipe] = "none")
=============================================================================
