------------------------------ MODULE TcpClient ------------------------------
(***************************************************************************)
(* ryulib/TcpClient.hpp: a client whose calls become tasks of a Scheduler. *)
(* The thread of the scheduler alone touches the socket: it runs the tasks *)
(* in order and polls recv from on_repeat_.  A task is known by its number *)
(* in the order of the calls, and a socket by the connect task that made   *)
(* it, so socket = 0 stands for socket_ = 0.  close() is commented out in  *)
(* do_disconnect, so no descriptor is ever used for two sockets.           *)
(*                                                                         *)
(* Extends Scheduler: every call adds a task to it, and the constructor    *)
(* sets on_task_ and on_repeat_ and starts it.                             *)
(*                                                                         *)
(* Left out: idle_count_, sizes (a sendData beyond PACKET_LIMIT reports    *)
(* error -4 and adds no task) and the bytes: a send that takes only a part *)
(* of them counts as written.                                              *)
(***************************************************************************)
EXTENDS Scheduler

CONSTANT Owner  \* the one of Clients that constructs and terminates the object

CallTasks == {"connect", "disconnect", "send"}

(* what the proofs assume *)
TcpClientAssumption == Owner \in Clients /\ Tasks = CallTasks

VARIABLES
  ending,   \* terminate() was called
  socket,   \* socket_
  line,     \* the socket a connect task made: "none", "bad" (socket() failed),
            \* "up", "down" (the other end is gone) or "shut" (shutdown called)
  got,      \* do_receive has received something in this call
  written,  \* history: <<send task, socket>> for each send that took data
  lost      \* history: the sockets on_disconnected_ was called for

socketVars == <<socket, line, got, written, lost>>
clientVars == <<vars, ending, socketVars>>

ClientInit ==
  /\ Init
  /\ ending = FALSE
  /\ socket = 0
  /\ line = [n \in 1 .. MaxAdds |-> "none"]
  /\ got = FALSE
  /\ written = <<>>
  /\ lost = <<>>

-----------------------------------------------------------------------------
(* What the thread does to the socket *)

Now == Len(handled) + 1  \* the number of the task in hand

(* shutdown of a socket that is none does nothing *)
Shut(lines) ==
  IF socket = 0 \/ lines[socket] = "bad" THEN lines ELSE [lines EXCEPT ![socket] = "shut"]

Connect_KeepMutant ==
  /\ task = "connect"
  /\ \/ UNCHANGED <<socket, line>>
     \/ /\ socket' = 0
        /\ line' = [Shut(line) EXCEPT ![Now] = "shut"]
     \/ /\ socket' = Now
        /\ \E state \in {"bad", "up", "down"} : line' = [Shut(line) EXCEPT ![Now] = state]
  /\ UNCHANGED <<written, lost>>

(* do_disconnect, then do_connect: an unknown host (error -1); a connect that *)
(* fails (error -3); no descriptor (error -2), which leaves socket_ = -1;     *)
(* or on_connected_, also when select returned because the connect failed.    *)
Connect ==
  /\ task = "connect"
  /\ \/ socket' = 0 /\ line' = Shut(line)
     \/ /\ socket' = 0
        /\ line' = [Shut(line) EXCEPT ![Now] = "shut"]
     \/ /\ socket' = Now
        /\ \E state \in {"bad", "up", "down"} : line' = [Shut(line) EXCEPT ![Now] = state]
  /\ UNCHANGED <<written, lost>>

Disconnect ==
  /\ task = "disconnect"
  /\ socket' = 0
  /\ line' = Shut(line)
  /\ UNCHANGED <<written, lost>>

(* do_sendData without a socket *)
SendNowhere ==
  /\ task = "send"
  /\ socket = 0
  /\ UNCHANGED <<socket, line, written, lost>>

(* The system also takes data for an end that is gone. *)
SendTaken ==
  /\ task = "send"
  /\ socket # 0
  /\ line[socket] \in {"up", "down"}
  /\ written' = Append(written, <<Now, socket>>)
  /\ UNCHANGED <<socket, line, lost>>

SendFails_KeepMutant ==
  /\ task = "send"
  /\ socket # 0
  /\ UNCHANGED socket
  /\ line' = Shut(line)
  /\ lost' = Append(lost, socket)
  /\ UNCHANGED written

(* send returns -1, for a full buffer too, or 0 for empty data *)
SendFails ==
  /\ task = "send"
  /\ socket # 0
  /\ socket' = 0
  /\ line' = Shut(line)
  /\ lost' = Append(lost, socket)
  /\ UNCHANGED written

(* on_task_ *)
RunCall ==
  /\ RunTask
  /\ onTask
  /\ Connect \/ Disconnect \/ SendNowhere \/ SendTaken \/ SendFails
  /\ UNCHANGED <<ending, got>>

(* The second send to an end that is gone raises SIGPIPE, which nothing blocks. *)
BrokenPipe ==
  /\ tpc = "body" /\ stage = "task" /\ onTask
  /\ task = "send"
  /\ socket # 0
  /\ line[socket] = "down"
  /\ crashed' = TRUE
  /\ UNCHANGED <<threadVars, queue, stage, task, handled, late, callerVars, ending, socketVars>>

(* on_repeat_ calls do_receive *)
BeginReceive ==
  /\ BeginRepeat
  /\ got' = FALSE
  /\ UNCHANGED <<ending, socket, line, written, lost>>

(* recv returned data, on_received_ is called, and recv again *)
Receive ==
  /\ tpc = "work"
  /\ socket # 0
  /\ line[socket] \in {"up", "down"}
  /\ got' = TRUE
  /\ UNCHANGED <<vars, ending, socket, line, written, lost>>

EndReceive_ZeroMutant ==
  /\ tpc = "work"
  /\ ~(socket # 0 /\ line[socket] = "down")
  /\ Thread!ThreadGoes(IF got \/ ~isTerminated THEN "test" ELSE "timed")
  /\ UNCHANGED <<loopVars, callerVars, ending, socketVars>>

(* recv returned no data: 0, which nobody takes for the end of the stream, or *)
(* -1.  When there was none at all, scheduler_.sleep(5), which only sleeps     *)
(* once the thread is terminated.                                             *)
EndReceive ==
  /\ tpc = "work"
  /\ Thread!ThreadGoes(IF got \/ ~isTerminated THEN "test" ELSE "timed")
  /\ UNCHANGED <<loopVars, callerVars, ending, socketVars>>

(* the rest of the scheduler's loop *)
Loop ==
  /\ \/ LoopTest \/ PopTask \/ DecideRepeat
     \/ CallSleep \/ FinishSleep \/ Finish
  /\ UNCHANGED <<ending, socketVars>>

-----------------------------------------------------------------------------
(* The callers, and the other end *)

(* the constructor, up to and after that of the scheduler *)
ConstructClient ==
  /\ \/ Construct
     \/ ~onRepeat /\ SetOnRepeat
     \/ onRepeat /\ ~onTask /\ SetOnTask
     \/ onTask /\ ~started /\ ends = 0 /\ Start
  /\ UNCHANGED <<ending, socketVars>>

Ready == ends > 0 \/ started

(* connect, disconnect, sendData and sendText *)
Call(client, t) ==
  /\ Ready
  /\ client = Owner => ~ending
  /\ AddPush(client, t)
  /\ UNCHANGED <<ending, socketVars>>

Wake(client) ==
  /\ AddWake(client)
  /\ UNCHANGED <<ending, socketVars>>

(* terminate(): disconnect(), then terminateAndWait() *)
Terminate ==
  /\ Ready /\ ~ending
  /\ AddPush(Owner, "disconnect")
  /\ ending' = TRUE
  /\ UNCHANGED socketVars

EndScheduler ==
  /\ ending /\ Owner \notin adding
  /\ TerminateAndWait
  /\ UNCHANGED <<ending, socketVars>>

Join ==
  /\ Thread!WakeToJoin \/ Thread!Join
  /\ UNCHANGED <<loopVars, callerVars, ending, socketVars>>

PeerGone ==
  /\ \E n \in 1 .. MaxAdds : line[n] = "up" /\ line' = [line EXCEPT ![n] = "down"]
  /\ UNCHANGED <<vars, ending, socket, got, written, lost>>

-----------------------------------------------------------------------------
ClientThreadStep ==
  /\ Running
  /\ RunCall \/ BeginReceive \/ EndReceive \/ Loop

ClientCallerStep ==
  \/ ConstructClient
  \/ \E client \in Clients : (\E t \in Tasks : Call(client, t)) \/ Wake(client)
  \/ Terminate \/ EndScheduler \/ Join

ClientNext ==
  \/ ClientThreadStep
  \/ Running /\ (Receive \/ BrokenPipe \/ ClientCallerStep)
  \/ Running /\ Disturbed /\ UNCHANGED <<ending, socketVars>>
  \/ PeerGone

ClientSafeSpec == ClientInit /\ [][ClientNext]_clientVars

(* The thread runs while it can.  The weak fairness of EndReceive, which is   *)
(* part of ClientThreadStep and enabled in every round of do_receive, also    *)
(* says that the other end does not send without ever a pause.                *)
ClientFairness ==
  /\ WF_clientVars(ClientThreadStep)
  /\ WF_clientVars(Running /\ EndReceive)
  /\ WF_clientVars(Running /\ (ConstructClient \/ Join \/ EndScheduler \/ Wake(Owner)))

ClientSpec == ClientSafeSpec /\ ClientFairness

-----------------------------------------------------------------------------
(* Properties *)

(* socket_ holds n: the calls made it the connection of connect call n, which *)
(* no call before call k ended.                                              *)
ConnectedFor(n, k) ==
  /\ n < k /\ added[n] = "connect"
  /\ \A m \in n + 1 .. k - 1 : added[m] = "send"

(* Data goes to the connection its caller asked for: that of the last connect *)
(* called before sendData, if no disconnect came between the two calls, and   *)
(* otherwise nowhere.                                                        *)
WrittenWhereMeant ==
  \A i \in 1 .. Len(written) : ConnectedFor(written[i][2], written[i][1])

(* No connection is reported lost twice, none is written to after that, and   *)
(* at most one socket is open at a time.                                     *)
LossIsFinal ==
  /\ \A i, j \in 1 .. Len(lost) : i < j => lost[i] < lost[j]
  /\ \A n \in 1 .. MaxAdds : line[n] \in {"up", "down"} => n = socket
  /\ \A i \in 1 .. Len(lost) : lost[i] # socket
=============================================================================
