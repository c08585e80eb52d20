---------------------------- MODULE SocketServer ----------------------------
(***************************************************************************)
(* ryulib/SocketServer.hpp: the boost::asio server.  One thread runs       *)
(* io_context_, so every completion handler is one action; the             *)
(* interleaving is that of the completions.  A Connection lives as long as *)
(* a pending operation holds a shared_ptr to it; connection_list_ holds    *)
(* bare pointers.                                                          *)
(*                                                                         *)
(* What travels is abstracted to what the handlers tell apart: a header    *)
(* announces a body within PACKET_LIMIT ("fits") or beyond it ("over").    *)
(* A pending write reads its data where the caller left it: in the receive *)
(* buffer packet_ of a connection (a packet that is passed on from         *)
(* on_received_), or in memory the sender keeps.                           *)
(***************************************************************************)
EXTENDS Naturals, SequencesExt

CONSTANTS
  Conns,      \* the Connection objects, one per accept
  NoConn,     \* the source of a write whose sender keeps the data
  MaxHeaders, \* bound: headers each connection receives
  MaxWrites   \* bound: writes pending on a connection

ASSUME ServerAssumption ==
  /\ NoConn \notin Conns
  /\ MaxHeaders \in Nat
  /\ MaxWrites \in Nat

VARIABLES
  accepting,    \* the connection of the pending async_accept, if any
  used,         \* the connections created so far
  listed,       \* connection_list_
  reading,      \* the read pending on each connection: "none", "header", "body"
  outgoing,     \* the sequence of writes pending on each connection
  failed,       \* the connections whose peer or network has failed
  isConnected,  \* is_connected_
  received,     \* history: headers received on each connection
  timesConnected,\* history: on_connected_ events for each connection
  timesDisconnected \* history: on_disconnected_ events for each connection

serverVars == <<accepting, used, listed, reading, outgoing, failed, isConnected,
                received, timesConnected, timesDisconnected>>

(* src is where the data is, intact whether it is still what was sent *)
PendingWrite == [src : Conns \cup {NoConn}, intact : BOOLEAN]

(* A shared_ptr to c is held by the accept, the read and the writes pending. *)
Held(c) == accepting = c \/ reading[c] # "none" \/ outgoing[c] # <<>>

(* start_accept, of the start() of the server *)
ServerInit ==
  \E first \in Conns :
    /\ accepting = first
    /\ used = {first}
    /\ listed = {}
    /\ reading = [c \in Conns |-> "none"]
    /\ outgoing = [c \in Conns |-> <<>>]
    /\ failed = {}
    /\ isConnected = [c \in Conns |-> FALSE]
    /\ received = [c \in Conns |-> 0]
    /\ timesConnected = [c \in Conns |-> 0]
    /\ timesDisconnected = [c \in Conns |-> 0]

-----------------------------------------------------------------------------
(* Parts of handlers *)

(* start_accept with a fresh Connection; past the bound nobody connects *)
StartAccept ==
  \/ \E c \in Conns \ used : accepting' = c /\ used' = used \cup {c}
  \/ used = Conns /\ accepting' = NoConn /\ UNCHANGED used

FireConnected(c) ==
  /\ isConnected' = [isConnected EXCEPT ![c] = TRUE]
  /\ listed' = listed \cup {c}
  /\ timesConnected' = [timesConnected EXCEPT ![c] = @ + 1]

FireDisconnected_KeepMutant(c) ==
  /\ isConnected' = [isConnected EXCEPT ![c] = FALSE]
  /\ timesDisconnected' = [timesDisconnected EXCEPT ![c] = @ + 1]
  /\ UNCHANGED listed

FireDisconnected(c) ==
  /\ isConnected' = [isConnected EXCEPT ![c] = FALSE]
  /\ listed' = listed \ {c}
  /\ timesDisconnected' = [timesDisconnected EXCEPT ![c] = @ + 1]

(* do_send to each connection of targets; asio may or may not take the data  *)
(* at once, what it takes at once is not pending                             *)
SendTo(targets, src) ==
  \E pending \in SUBSET targets :
    outgoing' = [c \in Conns |-> IF c \in pending
                                 THEN Append(outgoing[c], [src |-> src, intact |-> TRUE])
                                 ELSE outgoing[c]]

(* what on_received_ does with the packet: nothing, sendToAll, sendToOther,   *)
(* sendToUserID, or an answer or broadcast of its own data                   *)
Reactions(c) ==
  {<<{}, NoConn>>, <<listed, c>>, <<listed \ {c}, c>>, <<{c}, NoConn>>, <<listed, NoConn>>}
    \cup {<<{d}, c>> : d \in listed}

(* packet_ of c is written: writes that still read from it send other data *)
Overwrite(c) ==
  [d \in Conns |-> [i \in DOMAIN outgoing[d] |->
     IF outgoing[d][i].src = c THEN [outgoing[d][i] EXCEPT !.intact = FALSE] ELSE outgoing[d][i]]]

-----------------------------------------------------------------------------
(* Completion handlers *)

(* handle_accept without an error: start() of the connection, then the next  *)
(* accept                                                                    *)
HandleAccept ==
  /\ accepting # NoConn
  /\ FireConnected(accepting)
  /\ reading' = [reading EXCEPT ![accepting] = "header"]
  /\ StartAccept
  /\ UNCHANGED <<outgoing, failed, received, timesDisconnected>>

(* handle_accept with an error drops the Connection and accepts again *)
HandleAcceptError ==
  /\ accepting # NoConn
  /\ StartAccept
  /\ UNCHANGED <<listed, reading, outgoing, failed, isConnected, received, timesConnected, timesDisconnected>>

(* handle_read_header: a packet that is too long is reported and the          *)
(* connection taken off the list; the body is read all the same             *)
HandleReadHeader(c) ==
  /\ reading[c] = "header"
  /\ c \notin failed
  /\ received[c] < MaxHeaders
  /\ received' = [received EXCEPT ![c] = @ + 1]
  /\ outgoing' = Overwrite(c)
  /\ \E size \in {"fits", "over"} :
       IF size = "over" THEN FireDisconnected(c)
                        ELSE UNCHANGED <<listed, isConnected, timesDisconnected>>
  /\ reading' = [reading EXCEPT ![c] = "body"]
  /\ UNCHANGED <<accepting, used, failed, timesConnected>>

(* handle_read_body: on_received_, then the next header *)
HandleReadBody(c) ==
  /\ reading[c] = "body"
  /\ c \notin failed
  /\ \E reaction \in Reactions(c) :
       /\ \A d \in reaction[1] : Len(outgoing[d]) < MaxWrites
       /\ SendTo(reaction[1], reaction[2])
  /\ reading' = [reading EXCEPT ![c] = "header"]
  /\ UNCHANGED <<accepting, used, listed, failed, isConnected, received, timesConnected, timesDisconnected>>

HandleReadError_RetryMutant(c) ==
  /\ reading[c] # "none"
  /\ c \in failed
  /\ timesDisconnected[c] < MaxHeaders + MaxWrites
  /\ FireDisconnected(c)
  /\ reading' = [reading EXCEPT ![c] = "header"]
  /\ UNCHANGED <<accepting, used, outgoing, failed, received, timesConnected>>

HandleReadError_SilentMutant(c) ==
  /\ reading[c] # "none"
  /\ c \in failed
  /\ reading' = [reading EXCEPT ![c] = "none"]
  /\ UNCHANGED <<accepting, used, listed, outgoing, failed, isConnected, received,
                 timesConnected, timesDisconnected>>

(* either read handler with an error *)
HandleReadError(c) ==
  /\ reading[c] # "none"
  /\ c \in failed
  /\ FireDisconnected(c)
  /\ reading' = [reading EXCEPT ![c] = "none"]
  /\ UNCHANGED <<accepting, used, outgoing, failed, received, timesConnected>>

(* asio does not promise in which order overlapping writes complete *)
WriteDone(c) == \E i \in DOMAIN outgoing[c] : outgoing' = [outgoing EXCEPT ![c] = RemoveAt(@, i)]

HandleWrite(c) ==
  /\ WriteDone(c)
  /\ UNCHANGED <<accepting, used, listed, reading, failed, isConnected,
                 received, timesConnected, timesDisconnected>>

(* handle_write with an error; the read stays pending *)
HandleWriteError(c) ==
  /\ c \in failed
  /\ WriteDone(c)
  /\ FireDisconnected(c)
  /\ UNCHANGED <<accepting, used, reading, failed, received, timesConnected>>

(* the peer closes, or the network fails *)
Break(c) ==
  /\ reading[c] # "none"
  /\ failed' = failed \cup {c}
  /\ UNCHANGED <<accepting, used, listed, reading, outgoing, isConnected,
                 received, timesConnected, timesDisconnected>>

-----------------------------------------------------------------------------
ServerNext ==
  \/ HandleAccept
  \/ HandleAcceptError
  \/ \E c \in Conns :
       \/ HandleReadHeader(c) \/ HandleReadBody(c) \/ HandleReadError(c)
       \/ HandleWrite(c) \/ HandleWriteError(c) \/ Break(c)

ServerSafeSpec == ServerInit /\ [][ServerNext]_serverVars

(* The operating system completes the operations of a broken connection, and  *)
(* io_context_ runs their handlers.                                          *)
ServerFairness ==
  \A c \in Conns :
    /\ WF_serverVars(HandleReadError(c))
    /\ WF_serverVars(HandleWrite(c) \/ HandleWriteError(c))

ServerSpec == ServerSafeSpec /\ ServerFairness

-----------------------------------------------------------------------------
(* Properties *)

(* Every variable keeps its type; a Connection is connected at most once. *)
TypeOK ==
  /\ accepting \in Conns \cup {NoConn}
  /\ used \subseteq Conns
  /\ listed \subseteq Conns
  /\ reading \in [Conns -> {"none", "header", "body"}]
  /\ outgoing \in [Conns -> Seq(PendingWrite)]
  /\ failed \subseteq Conns
  /\ isConnected \in [Conns -> BOOLEAN]
  /\ received \in [Conns -> Nat]
  /\ timesConnected \in [Conns -> 0 .. 1]
  /\ timesDisconnected \in [Conns -> Nat]

(* The bare pointers of connection_list_ are safe to send to: every listed    *)
(* Connection is held by a pending read.                                     *)
ListedIsAlive == \A c \in listed : Held(c) /\ reading[c] # "none"

(* connection_list_, is_connected_ and the events tell the same story: a      *)
(* connection is listed from its on_connected_ to its first on_disconnected_, *)
(* is connected once, and never comes back.                                  *)
ListedIffConnected ==
  \A c \in Conns :
    /\ c \in listed <=> timesConnected[c] = 1 /\ timesDisconnected[c] = 0
    /\ isConnected[c] <=> c \in listed
    /\ timesDisconnected[c] > 0 => timesConnected[c] = 1

(* A connection whose peer is gone is reported, taken off the list and freed. *)
BrokenIsFreed ==
  \A c \in Conns : (c \in failed) ~> (c \notin listed /\ ~Held(c) /\ timesDisconnected[c] > 0)

(* A packet passed on with sendToAll from on_received_ goes out as it came    *)
(* in, as the echo server of test_SocketServer.cpp:21-24 has it.             *)
EchoIsIntact == \A c \in Conns : \A i \in DOMAIN outgoing[c] : outgoing[c][i].intact
=============================================================================
