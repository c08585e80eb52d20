---------------------------- MODULE SocketClient ----------------------------
(***************************************************************************)
(* ryulib/SocketClient.hpp, in the build where terminateNow() is           *)
(* pthread_cancel: the caller's connect, send, disconnect and destructor   *)
(* beside the thread that runs io_, and a peer that reads the stream with  *)
(* a PacketReader.                                                         *)
(*                                                                         *)
(* boost::asio is modelled by what it does with the calls: a pending       *)
(* operation completes when the thread waits in run() or when the socket   *)
(* is closed, which puts its handler into ready; handlers run one by one.  *)
(* A handler is one action: where the thread is cancelled within it, none  *)
(* of it is seen later.  async_write writes what the socket takes at once  *)
(* in the caller's thread, nothing while the socket still connects, and    *)
(* leaves the rest to the io thread, which reads it where the caller's     *)
(* packet was.  Calls on one socket at the same time are taken to be      *)
(* atomic.                                                                 *)
(***************************************************************************)
EXTENDS PacketReader

CONSTANTS
  Sizes,      \* of the data that is sent
  MaxConnects,\* bound: calls of connect
  MaxSends,   \* bound: calls of send for a connection
  MaxPackets  \* bound: packets the peer sends on a connection

ASSUME ClientAssumption == Sizes \subseteq Nat

VARIABLES
  call,       \* the caller: "idle", "close" and "renew" within connect, "gone"
  then,       \* where it goes after closing the socket
  connects,   \* history: connect() calls
  thread,     \* of io_: "none", "runs", "over" when run() has returned,
              \* "cancelled", and "killed" when that has taken effect
  socket,     \* socket_: "none", "connecting", "open", "closed", "refused"
  pending,    \* the asynchronous connect or read: "none", "connect", "header", "body"
  writes,     \* what is left of the pending writes, and whether it was freed
  ready,      \* the handlers to run, each with whether it met no error
  taken,      \* halves (header, body) of the peer's packets that were read
  wire,       \* bytes written that the peer has not read
  lost,       \* the peer or the network has failed
  sent,       \* history: the sizes sent on the connection, or while it was made
  unsent,     \* history: send() calls that met a closed or refused one
  excuses,    \* history: "overlong", "freed", "overlapped": what damages a stream
  connected, disconnects, \* history: on_connected_, on_disconnected_
  refused,    \* history: on_error_(ERROR_CONNECT)
  writeFailed,\* history: on_error_(ERROR_WRITE)
  late,       \* history: on_received_ after on_disconnected_
  broken      \* history: io_ or the client was destroyed under its thread

readerVars == <<bytes, heard, garbled>>
callVars == <<call, then, connects, broken>>
opVars == <<socket, pending, writes, ready>>
streamVars == <<wire, sent, unsent, excuses>>
eventVars == <<connected, disconnects, refused, writeFailed, late>>
vars == <<readerVars, callVars, thread, opVars, taken, streamVars, lost, eventVars>>

Init ==
  /\ ReaderInit
  /\ call = "idle" /\ then = "idle" /\ connects = 0 /\ broken = FALSE
  /\ thread = "none" /\ socket = "none"
  /\ pending = "none" /\ writes = <<>> /\ ready = <<>>
  /\ taken = 0
  /\ wire = <<>> /\ sent = <<>> /\ unsent = 0 /\ excuses = {}
  /\ lost = FALSE
  /\ connected = FALSE /\ disconnects = 0 /\ refused = FALSE
  /\ writeFailed = FALSE /\ late = FALSE

-----------------------------------------------------------------------------
(* The caller *)

(* socket_->close(): what is pending ends with an error; queue is ready, or   *)
(* what a handler left of it                                                 *)
CloseSocket(queue) ==
  /\ socket' = IF socket = "none" THEN "none" ELSE "closed"
  /\ pending' = "none"
  /\ writes' = <<>>
  /\ ready' = queue \o (IF pending = "none" THEN <<>> ELSE <<<<pending, FALSE>>>>)
                    \o [i \in DOMAIN writes |-> <<"write", FALSE>>]

(* disconnect(), of a connect(), of a disconnect() or of the destructor:      *)
(* terminateNow() ...                                                        *)
TerminateNow(next) ==
  /\ call = "idle" /\ call' = "close"
  /\ next = "renew" => connects < MaxConnects
  /\ then' = next
  /\ thread' = IF thread = "runs" THEN "cancelled" ELSE thread
  /\ UNCHANGED <<readerVars, connects, broken, opVars, taken, streamVars, lost, eventVars>>

(* ... and the socket's close() *)
Close ==
  /\ call = "close" /\ call' = then /\ then' = "idle"
  /\ CloseSocket(ready)
  /\ broken' = (broken \/ (then = "gone" /\ thread = "cancelled"))
  /\ UNCHANGED <<readerVars, connects, thread, taken, streamVars, lost, eventVars>>

(* connect(), the rest of it: a new io_ with nothing pending, a new socket_   *)
(* and a new thread                                                          *)
Renew ==
  /\ call = "renew" /\ call' = "idle"
  /\ broken' = (thread = "cancelled")
  /\ connects' = connects + 1
  /\ thread' = "runs"
  /\ socket' = "connecting" /\ pending' = "connect"
  /\ writes' = <<>> /\ ready' = <<>>
  /\ taken' = 0
  /\ wire' = <<>> /\ sent' = <<>> /\ unsent' = 0 /\ excuses' = {}
  /\ Clear /\ heard' = <<>> /\ garbled' = FALSE
  /\ lost' = FALSE
  /\ connected' = FALSE /\ disconnects' = 0 /\ refused' = FALSE
  /\ writeFailed' = FALSE /\ late' = FALSE
  /\ UNCHANGED then

(* send(packet), or send(type, data, size), which frees the packet; until the *)
(* socket is connected async_write waits behind the connect                  *)
Send(size, frees) ==
  /\ call = "idle" /\ socket # "none"
  /\ Len(sent) + unsent < MaxSends
  /\ IF socket \in {"closed", "refused"}
     THEN /\ ready' = Append(ready, <<"write", FALSE>>)
          /\ unsent' = unsent + 1
          /\ UNCHANGED <<writes, wire, sent, excuses>>
     ELSE LET packet == CreatePacket(Len(sent) + 1, size) IN
          \E n \in 0 .. Len(packet) :
            /\ socket = "connecting" => n = 0
            /\ wire' = wire \o SubSeq(packet, 1, n)
            /\ writes' = IF n = Len(packet) THEN writes
                         ELSE Append(writes, [rest |-> SubSeq(packet, n + 1, Len(packet)), freed |-> frees])
            /\ excuses' = excuses
                 \cup (IF size + HeaderSize >= Modulus THEN {"overlong"} ELSE {})
                 \cup (IF n < Len(packet) /\ frees THEN {"freed"} ELSE {})
                 \cup (IF writes # <<>> THEN {"overlapped"} ELSE {})
            /\ sent' = Append(sent, size)
            /\ UNCHANGED <<unsent, ready>>
  /\ UNCHANGED <<readerVars, callVars, thread, socket, pending, taken, lost, eventVars>>

-----------------------------------------------------------------------------
(* The thread of io_: boost::asio ... *)

Alive == thread \in {"runs", "cancelled"}

ThreadEnds ==
  /\ \/ thread = "cancelled" /\ thread' = "killed"
     \/ thread = "runs" /\ pending = "none" /\ writes = <<>> /\ ready = <<>> /\ thread' = "over"
  /\ UNCHANGED <<readerVars, callVars, opVars, taken, streamVars, lost, eventVars>>

(* how the pending operation may end: a read may find a half that has arrived, *)
(* on a lost connection too                                                 *)
Ends(ok) ==
  IF pending = "connect" THEN ~ok \/ ~lost
  ELSE IF ok THEN taken < 2 * MaxPackets ELSE lost

Complete(ok) ==
  /\ Alive /\ pending # "none"
  /\ Ends(ok)
  /\ pending' = "none"
  /\ ready' = Append(ready, <<pending, ok>>)
  /\ socket' = IF pending = "connect" THEN (IF ok THEN "open" ELSE "refused") ELSE socket
  /\ taken' = IF ok /\ pending # "connect" THEN taken + 1 ELSE taken
  /\ UNCHANGED <<readerVars, callVars, thread, writes, streamVars, lost, eventVars>>

(* The rest of a write goes out, all of it or a part; freed memory may still  *)
(* hold it.                                                                  *)
WriteMore(i) ==
  /\ Alive /\ i \in DOMAIN writes
  /\ socket = "open"
  /\ LET w == writes[i] IN
     \E n \in 1 .. Len(w.rest), intact \in BOOLEAN :
       /\ ~intact => w.freed
       /\ wire' = wire \o (IF intact THEN SubSeq(w.rest, 1, n) ELSE [j \in 1 .. n |-> Garbage])
       /\ writes' = IF n = Len(w.rest) THEN RemoveAt(writes, i)
                    ELSE [writes EXCEPT ![i].rest = SubSeq(@, n + 1, Len(@))]
  /\ UNCHANGED <<readerVars, callVars, thread, socket, pending, ready, taken, sent, unsent, excuses, lost, eventVars>>

WriteFails(i) ==
  /\ Alive /\ i \in DOMAIN writes
  /\ (socket = "open" /\ lost) \/ socket = "refused"
  /\ writes' = RemoveAt(writes, i)
  /\ ready' = Append(ready, <<"write", FALSE>>)
  /\ UNCHANGED <<readerVars, callVars, thread, socket, pending, taken, streamVars, lost, eventVars>>

(* ... and the handlers *)
Handles(kind, ok) ==
  /\ Alive /\ ready # <<>>
  /\ Head(ready) = <<kind, ok>>
  /\ UNCHANGED <<readerVars, callVars, thread, taken, streamVars, lost>>

(* async_read, at once an error on a socket that was closed *)
AsyncRead(what) ==
  /\ IF socket = "closed"
     THEN pending' = "none" /\ ready' = Append(Tail(ready), <<what, FALSE>>)
     ELSE pending' = what /\ ready' = Tail(ready)
  /\ UNCHANGED <<socket, writes>>

DoDisconnect ==
  /\ CloseSocket(Tail(ready))
  /\ disconnects' = disconnects + 1

ConnectHandler ==
  \/ /\ Handles("connect", TRUE)
     /\ connected' = TRUE
     /\ AsyncRead("header")
     /\ UNCHANGED <<disconnects, refused, writeFailed, late>>
  \/ /\ Handles("connect", FALSE)
     /\ refused' = TRUE
     /\ ready' = Tail(ready)
     /\ UNCHANGED <<socket, pending, writes, connected, disconnects, writeFailed, late>>

HandleHeader ==
  /\ Handles("header", TRUE)
  /\ AsyncRead("body")
  /\ UNCHANGED eventVars

HandleBody_ForgetMutant ==
  /\ Handles("body", TRUE)
  /\ late' = (late \/ disconnects > 0)
  /\ ready' = Tail(ready)
  /\ UNCHANGED <<socket, pending, writes, connected, disconnects, refused, writeFailed>>

HandleBody ==
  /\ Handles("body", TRUE)
  /\ late' = (late \/ disconnects > 0)
  /\ AsyncRead("header")
  /\ UNCHANGED <<connected, disconnects, refused, writeFailed>>

HandleReadFailure_RetryMutant ==
  \E kind \in {"header", "body"} :
    /\ Handles(kind, FALSE)
    /\ disconnects' = disconnects + 1
    /\ AsyncRead("header")
    /\ UNCHANGED <<connected, refused, writeFailed, late>>

HandleReadFailure ==
  \E kind \in {"header", "body"} :
    /\ Handles(kind, FALSE)
    /\ DoDisconnect
    /\ UNCHANGED <<connected, refused, writeFailed, late>>

HandleWriteFailure ==
  /\ Handles("write", FALSE)
  /\ writeFailed' = TRUE
  /\ DoDisconnect
  /\ UNCHANGED <<connected, refused, late>>

IoStep ==
  \/ ThreadEnds
  \/ \E ok \in BOOLEAN : Complete(ok)
  \/ \E i \in 1 .. MaxSends : WriteMore(i) \/ WriteFails(i)
  \/ ConnectHandler \/ HandleHeader \/ HandleBody \/ HandleReadFailure \/ HandleWriteFailure

-----------------------------------------------------------------------------
(* The peer *)

(* a chunk, when no packet is left to read *)
PeerReceive ==
  /\ ~lost /\ ~garbled
  /\ Len(bytes) >= HeaderSize => HeaderInFront /\ ~CanRead
  /\ \E n \in 1 .. Len(wire) :
       /\ Write(SubSeq(wire, 1, n))
       /\ wire' = SubSeq(wire, n + 1, Len(wire))
  /\ UNCHANGED <<heard, garbled, callVars, thread, opVars, taken, sent, unsent, excuses, lost, eventVars>>

PeerRead ==
  /\ Read
  /\ UNCHANGED <<callVars, thread, opVars, taken, streamVars, lost, eventVars>>

Lose ==
  /\ socket \in {"connecting", "open"} /\ ~lost
  /\ lost' = TRUE
  /\ UNCHANGED <<readerVars, callVars, thread, opVars, taken, streamVars, eventVars>>

Next ==
  /\ ~broken
  /\ \/ \E next \in {"idle", "renew", "gone"} : TerminateNow(next)
     \/ Close \/ Renew
     \/ \E size \in Sizes, frees \in BOOLEAN : Send(size, frees)
     \/ IoStep
     \/ PeerReceive \/ PeerRead \/ Lose

SafeSpec == Init /\ [][Next]_vars

(* The io thread gets on, a pending operation of a connection that is lost    *)
(* ends, and a call that has begun returns.                                  *)
Fairness == WF_vars(IoStep) /\ WF_vars(Close \/ Renew)

Spec == SafeSpec /\ Fairness

-----------------------------------------------------------------------------
(* Properties *)

(* A peer reads the packets that were sent, whole and in order, unless one     *)
(* was too long for packet_size, or asio could not take all of one at once    *)
(* and it was freed, or another was sent before it was written.               *)
PeerReadsWhatWasSent ==
  excuses = {} =>
    /\ ~garbled
    /\ Len(heard) <= Len(sent)
    /\ \A i \in DOMAIN heard : heard[i] = WholePacket(i, sent[i])

(* A connection is told of once: no packet is received after on_disconnected_, *)
(* which runs once for a connection that was told, unless a write has failed.  *)
DisconnectIsFinal ==
  ~writeFailed =>
    /\ ~late
    /\ disconnects <= (IF connected THEN 1 ELSE 0)
    /\ disconnects = 1 => socket = "closed"

(* When the peer is gone on_disconnected_ or on_error_(ERROR_CONNECT) runs,    *)
(* unless the caller gives the connection up first.                           *)
LossIsTold ==
  lost ~> (disconnects > 0 \/ refused \/ thread \in {"cancelled", "killed"})
=============================================================================
