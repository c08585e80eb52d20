---------------------------- MODULE SocketProofs ----------------------------
(***************************************************************************)
(* The safety of SocketServer and of SocketClient.                         *)
(*                                                                         *)
(* The server, for any number of connections, packets and writes:          *)
(* ListedIsAlive is not inductive.  That a listed connection has a read    *)
(* pending must survive handlers of operations that were started before,   *)
(* so the proof also needs that nothing at all was started on a Connection *)
(* before its on_connected_.                                               *)
(*                                                                         *)
(* The client, for any sizes, header and modulus: a connection has one     *)
(* turn, an operation that is pending or its end that is ready, which      *)
(* on_disconnected_ takes away; and the bytes in the peer's buffer, on the *)
(* wire and still to be written are those of the packets not yet heard.    *)
(***************************************************************************)
EXTENDS SocketClient, SocketServer, SequenceTheorems, TLAPS

(* The client *)

Byte == Nat \X Nat \X Nat
Event == {"connect", "header", "body", "write"} \X BOOLEAN

OpTypes ==
  /\ pending \in {"none", "connect", "header", "body"}
  /\ ready \in Seq(Event)
  /\ writes \in Seq([rest : Seq(Byte), freed : BOOLEAN])
  /\ connected \in BOOLEAN /\ disconnects \in Nat /\ writeFailed \in BOOLEAN /\ late \in BOOLEAN
  /\ bytes \in Seq(Byte) /\ wire \in Seq(Byte)
  /\ sent \in Seq(Nat) /\ heard \in Seq(Seq(Byte))

(* what is ready holds the end of at most one connect or read, or of none *)
OneTurn(events) ==
  \A i, j \in 1 .. Len(events) : events[i][1] # "write" /\ events[j][1] # "write" => i = j
NoTurn(events) == \A i \in 1 .. Len(events) : events[i][1] = "write"

(* The client connects or reads one thing at a time, and nothing after it     *)
(* reported that the connection is gone.                                      *)
TurnInv ==
  /\ OneTurn(ready)
  /\ pending # "none" => NoTurn(ready)
  /\ socket = "none" => pending = "none" /\ ready = <<>> /\ ~connected
  /\ ~connected => /\ pending \in {"none", "connect"}
                   /\ \A i \in 1 .. Len(ready) : ready[i][1] \in {"connect", "write"}
  /\ connected => pending # "connect" /\ \A i \in 1 .. Len(ready) : ready[i][1] # "connect"
  /\ disconnects > 0 /\ ~writeFailed =>
       connected /\ pending = "none" /\ NoTurn(ready) /\ socket = "closed"
  /\ DisconnectIsFinal

-----------------------------------------------------------------------------
(* Closing the socket appends the end of what was pending to the events.      *)
LEMMA CloseEvents ==
  ASSUME OpTypes, NEW queue \in Seq(Event), CloseSocket(queue)
  PROVE  /\ ready' \in Seq(Event) /\ pending' = "none" /\ writes' = <<>>
         /\ Len(ready') >= Len(queue)
         /\ \A i \in 1 .. Len(queue) : ready'[i] = queue[i]
         /\ \A i \in 1 .. Len(ready') :
              \/ i \in 1 .. Len(queue)
              \/ i = Len(queue) + 1 /\ pending # "none" /\ ready'[i] = <<pending, FALSE>>
              \/ ready'[i] = <<"write", FALSE>>
<1>. DEFINE one == IF pending = "none" THEN <<>> ELSE <<<<pending, FALSE>>>>
            rest == [i \in DOMAIN writes |-> <<"write", FALSE>>]
            front == queue \o one
<1>1. ready' = front \o rest /\ pending' = "none" /\ writes' = <<>>
  BY DEF CloseSocket
<1>2. /\ one \in Seq(Event) /\ Len(one) \in 0 .. 1
      /\ \A i \in 1 .. Len(one) : i = 1 /\ pending # "none" /\ one[i] = <<pending, FALSE>>
  <2>1. CASE pending = "none"
    <3>1. one = <<>>
      BY <2>1
    <3>. HIDE DEF one
    <3>2. one \in Seq(Event) /\ Len(one) = 0
      BY <3>1
    <3>. QED
      BY <3>2
  <2>2. CASE pending # "none"
    <3>. DEFINE e == <<pending, FALSE>>
    <3>1. one = <<e>> /\ e \in Event
      BY <2>2 DEF OpTypes, Event
    <3>. HIDE DEF one, e
    <3>2. one \in Seq(Event) /\ Len(one) = 1 /\ one[1] = e
      BY <3>1
    <3>3. \A i \in 1 .. Len(one) : i = 1
      BY <3>2
    <3>4. \A i \in 1 .. Len(one) : i = 1 /\ pending # "none" /\ one[i] = e
      BY <2>2, <3>2, <3>3
    <3>5. Len(one) \in 0 .. 1
      BY <3>2
    <3>. QED
      BY <3>2, <3>4, <3>5 DEF e
  <2>. QED
    BY <2>1, <2>2
<1>3. /\ rest \in Seq(Event) /\ \A i \in 1 .. Len(rest) : rest[i] = <<"write", FALSE>>
  <2>1. DOMAIN writes = 1 .. Len(writes) /\ Len(writes) \in Nat
    BY DEF OpTypes
  <2>2. <<"write", FALSE>> \in Event
    BY DEF Event
  <2>3. rest \in [1 .. Len(writes) -> Event]
    BY <2>1, <2>2
  <2>4. rest \in Seq(Event) /\ Len(rest) = Len(writes)
    BY <2>1, <2>3
  <2>. QED
    BY <2>1, <2>4
<1>. HIDE DEF one, rest
<1>4. /\ front \in Seq(Event) /\ Len(front) = Len(queue) + Len(one)
      /\ \A i \in 1 .. Len(queue) + Len(one) :
           front[i] = IF i <= Len(queue) THEN queue[i] ELSE one[i - Len(queue)]
  BY <1>2, ConcatProperties
<1>. HIDE DEF front
<1>5. /\ front \o rest \in Seq(Event) /\ Len(front \o rest) = Len(front) + Len(rest)
      /\ \A i \in 1 .. Len(front) + Len(rest) :
           (front \o rest)[i] = IF i <= Len(front) THEN front[i] ELSE rest[i - Len(front)]
  BY <1>3, <1>4, ConcatProperties, SMTT(15), ZenonT(30)
<1>6. Len(queue) \in Nat /\ Len(one) \in Nat /\ Len(rest) \in Nat
  BY <1>2, <1>3
<1>7. \A i \in 1 .. Len(queue) : ready'[i] = queue[i]
  BY <1>1, <1>4, <1>5, <1>6
<1>8. ASSUME NEW i \in 1 .. Len(ready'), i \notin 1 .. Len(queue)
      PROVE  \/ i = Len(queue) + 1 /\ pending # "none" /\ ready'[i] = <<pending, FALSE>>
             \/ ready'[i] = <<"write", FALSE>>
  <2>1. CASE i <= Len(front)
    <3>1. ready'[i] = one[i - Len(queue)] /\ i - Len(queue) \in 1 .. Len(one)
      BY <1>1, <1>4, <1>5, <1>6, <1>8, <2>1
    <3>2. i - Len(queue) = 1
      BY <1>2, <3>1
    <3>3. i = Len(queue) + 1
      BY <1>6, <3>2
    <3>. QED
      BY <1>2, <3>1, <3>3
  <2>2. CASE ~(i <= Len(front))
    <3>1. ready'[i] = rest[i - Len(front)] /\ i - Len(front) \in 1 .. Len(rest)
      BY <1>1, <1>4, <1>5, <1>6, <1>8, <2>2
    <3>. QED
      BY <1>3, <3>1
  <2>. QED
    BY <2>1, <2>2
<1>9. ready' \in Seq(Event) /\ Len(ready') >= Len(queue)
  BY <1>1, <1>4, <1>5, <1>6
<1>. QED
  BY <1>1, <1>7, <1>8, <1>9

(* Taking the first event, and adding one at the end.                         *)
LEMMA HandledEvents ==
  ASSUME NEW events \in Seq(Event), events # <<>>
  PROVE  /\ Tail(events) \in Seq(Event) /\ Len(Tail(events)) = Len(events) - 1
         /\ Head(events) = events[1] /\ Head(events) \in Event /\ Len(events) \in Nat \ {0}
         /\ \A i \in 1 .. Len(Tail(events)) : i + 1 \in 1 .. Len(events) /\ Tail(events)[i] = events[i + 1]
BY HeadTailProperties, EmptySeq

LEMMA TurnTaken ==
  ASSUME NEW events \in Seq(Event), events # <<>>, OneTurn(events)
  PROVE  /\ OneTurn(Tail(events))
         /\ NoTurn(events) => NoTurn(Tail(events))
         /\ events[1][1] # "write" => NoTurn(Tail(events))
<1>. DEFINE rest == Tail(events)
<1>1. /\ rest \in Seq(Event) /\ Len(rest) = Len(events) - 1 /\ Len(events) \in Nat \ {0}
      /\ \A i \in 1 .. Len(rest) : i + 1 \in 1 .. Len(events) /\ rest[i] = events[i + 1]
  BY HandledEvents
<1>. HIDE DEF rest
<1>2. OneTurn(rest)
  BY <1>1, SMTT(30) DEF OneTurn
<1>3. NoTurn(events) => NoTurn(rest)
  BY <1>1 DEF NoTurn
<1>4. events[1][1] # "write" => NoTurn(rest)
  <2>1. 1 \in 1 .. Len(events) /\ \A i \in 1 .. Len(rest) : i + 1 # 1
    BY <1>1
  <2>. QED
    BY <1>1, <2>1 DEF OneTurn, NoTurn
<1>. QED
  BY <1>2, <1>3, <1>4 DEF rest

LEMMA EventAdded ==
  ASSUME NEW events \in Seq(Event), NEW e \in Event
  PROVE  /\ Append(events, e) \in Seq(Event) /\ Len(Append(events, e)) = Len(events) + 1
         /\ \A i \in 1 .. Len(events) : Append(events, e)[i] = events[i]
         /\ Append(events, e)[Len(events) + 1] = e
         /\ \A i \in 1 .. Len(Append(events, e)) : i \in 1 .. Len(events) \/ i = Len(events) + 1
BY AppendProperties

LEMMA TurnAdded ==
  ASSUME NEW events \in Seq(Event), NEW e \in Event, OneTurn(events)
  PROVE  /\ NoTurn(events) => OneTurn(Append(events, e))
         /\ e[1] = "write" => OneTurn(Append(events, e))
         /\ NoTurn(events) /\ e[1] = "write" => NoTurn(Append(events, e))
<1>. DEFINE more == Append(events, e)
<1>1. /\ Len(more) = Len(events) + 1 /\ Len(events) \in Nat
      /\ \A i \in 1 .. Len(events) : more[i] = events[i]
      /\ more[Len(events) + 1] = e
      /\ \A i \in 1 .. Len(more) : i \in 1 .. Len(events) \/ i = Len(events) + 1
  BY EventAdded
<1>. HIDE DEF more
<1>2. NoTurn(events) => OneTurn(more)
  BY <1>1 DEF OneTurn, NoTurn
<1>3. e[1] = "write" => OneTurn(more)
  BY <1>1 DEF OneTurn
<1>4. NoTurn(events) /\ e[1] = "write" => NoTurn(more)
  BY <1>1 DEF NoTurn
<1>. QED
  BY <1>2, <1>3, <1>4 DEF more

-----------------------------------------------------------------------------
(* A packet is a sequence of bytes.                                           *)
LEMMA PacketIsBytes ==
  ASSUME NEW p \in Nat, NEW size \in Sizes
  PROVE  /\ CreatePacket(p, size) \in Seq(Byte)
         /\ Len(CreatePacket(p, size)) = (size + HeaderSize) % Modulus
         /\ (size + HeaderSize) % Modulus \in Nat
         /\ \A i \in 1 .. (size + HeaderSize) % Modulus :
              CreatePacket(p, size)[i] = <<p, i, (size + HeaderSize) % Modulus>>
<1>. DEFINE k == (size + HeaderSize) % Modulus
<1>1. size + HeaderSize \in Nat /\ Modulus \in Nat \ {0}
  BY PacketAssumption, ClientAssumption
<1>2. k \in Nat
  BY <1>1
<1>3. CreatePacket(p, size) = [i \in 1 .. k |-> <<p, i, k>>]
  BY DEF CreatePacket
<1>. HIDE DEF k
<1>4. \A i \in 1 .. k : <<p, i, k>> \in Byte
  BY <1>2 DEF Byte
<1>5. CreatePacket(p, size) \in [1 .. k -> Byte]
  BY <1>3, <1>4
<1>6. CreatePacket(p, size) \in Seq(Byte) /\ Len(CreatePacket(p, size)) = k
  BY <1>2, <1>5
<1>. QED
  BY <1>2, <1>3, <1>6 DEF k

(* The two parts of a sequence that is cut.                                   *)
LEMMA CutInTwo ==
  ASSUME NEW S, NEW s \in Seq(S), NEW n \in 0 .. Len(s)
  PROVE  /\ SubSeq(s, 1, n) \in Seq(S) /\ Len(SubSeq(s, 1, n)) = n
         /\ SubSeq(s, n + 1, Len(s)) \in Seq(S) /\ Len(SubSeq(s, n + 1, Len(s))) = Len(s) - n
         /\ \A i \in 1 .. n : SubSeq(s, 1, n)[i] = s[i]
         /\ \A i \in 1 .. Len(s) - n : SubSeq(s, n + 1, Len(s))[i] = s[n + i]
<1>1. Len(s) \in Nat /\ n \in Nat /\ n <= Len(s) /\ \A i \in 1 .. Len(s) : s[i] \in S
  BY LenProperties, ElementOfSeq
<1>2. /\ SubSeq(s, 1, n) \in Seq(S) /\ Len(SubSeq(s, 1, n)) = n
      /\ \A i \in 1 .. n : SubSeq(s, 1, n)[i] = s[i]
  <2>1. \A i \in 1 .. n : s[i] \in S
    BY <1>1
  <2>. QED
    BY <1>1, <2>1, SubSeqProperties
<1>3. /\ SubSeq(s, n + 1, Len(s)) \in Seq(S) /\ Len(SubSeq(s, n + 1, Len(s))) = Len(s) - n
      /\ \A i \in 1 .. Len(s) - n : SubSeq(s, n + 1, Len(s))[i] = s[n + i]
  <2>1. \A i \in n + 1 .. Len(s) : s[i] \in S
    BY <1>1
  <2>2. n + 1 \in Int
    BY <1>1
  <2>. DEFINE u == SubSeq(s, n + 1, Len(s))
  <2>3. /\ u \in Seq(S)
        /\ Len(u) = IF n + 1 <= Len(s) THEN Len(s) - (n + 1) + 1 ELSE 0
        /\ \A i \in 1 .. Len(s) - (n + 1) + 1 : u[i] = s[(n + 1) + i - 1]
    BY <1>1, <2>1, <2>2, SubSeqProperties
  <2>. HIDE DEF u
  <2>4. Len(u) = Len(s) - n /\ Len(s) - (n + 1) + 1 = Len(s) - n /\ \A i \in 1 .. Len(s) - n : (n + 1) + i - 1 = n + i
    BY <1>1, <2>3
  <2>5. \A i \in 1 .. Len(s) - n : u[i] = s[n + i]
    BY <2>3, <2>4
  <2>. QED
    BY <2>3, <2>4, <2>5 DEF u
<1>. QED
  BY <1>2, <1>3

(* Taking a pending write away.                                               *)
LEMMA WriteTaken ==
  ASSUME NEW S, NEW s \in Seq(S), NEW i \in DOMAIN s
  PROVE  /\ RemoveAt(s, i) \in Seq(S)
         /\ Len(s) = 1 => RemoveAt(s, i) = <<>>
<1>1. i \in 1 .. Len(s) /\ Len(s) \in Nat /\ \A j \in 1 .. Len(s) : s[j] \in S
  BY LenProperties, ElementOfSeq
<1>2. i - 1 \in 0 .. Len(s) /\ i \in 0 .. Len(s)
  BY <1>1
<1>. DEFINE a == SubSeq(s, 1, i - 1)
            b == SubSeq(s, i + 1, Len(s))
<1>3. a \in Seq(S) /\ Len(a) = i - 1
  BY <1>2, CutInTwo
<1>4. b \in Seq(S) /\ Len(b) = Len(s) - i
  BY <1>2, CutInTwo
<1>. HIDE DEF a, b
<1>5. a \o b \in Seq(S)
  BY <1>3, <1>4
<1>6. Len(s) = 1 => a \o b = <<>>
  <2>1. Len(s) = 1 => a = <<>> /\ b = <<>>
    BY <1>1, <1>3, <1>4, EmptySeq
  <2>. QED
    BY <2>1
<1>. QED
  BY <1>5, <1>6 DEF a, b, RemoveAt

-----------------------------------------------------------------------------
(* The types: one lemma per action that writes a sequence.                    *)
LEMMA CloseTypes ==
  ASSUME OpTypes, NEW queue \in Seq(Event), CloseSocket(queue)
  PROVE  /\ pending' \in {"none", "connect", "header", "body"}
         /\ ready' \in Seq(Event)
         /\ writes' \in Seq([rest : Seq(Byte), freed : BOOLEAN])
<1>1. ready' \in Seq(Event) /\ pending' = "none" /\ writes' = <<>>
  BY CloseEvents
<1>. QED
  BY <1>1

LEMMA AsyncReadTypes ==
  ASSUME OpTypes, ready # <<>>, NEW what \in {"header", "body"}, AsyncRead(what)
  PROVE  /\ pending' \in {"none", "connect", "header", "body"}
         /\ ready' \in Seq(Event)
<1>1. Tail(ready) \in Seq(Event)
  BY HandledEvents DEF OpTypes
<1>2. <<what, FALSE>> \in Event
  BY DEF Event
<1>3. Append(Tail(ready), <<what, FALSE>>) \in Seq(Event)
  BY <1>1, <1>2, EventAdded
<1>. QED
  BY <1>1, <1>3 DEF AsyncRead

LEMMA SendTypes ==
  ASSUME OpTypes, NEW size \in Sizes, NEW frees \in BOOLEAN, Send(size, frees)
  PROVE  OpTypes'
<1>. DEFINE packet == CreatePacket(Len(sent) + 1, size)
            OneWrite == [rest : Seq(Byte), freed : BOOLEAN]
<1>1. packet \in Seq(Byte) /\ size \in Nat
  <2>1. Len(sent) + 1 \in Nat
    BY DEF OpTypes
  <2>. QED
    BY <2>1, PacketIsBytes, ClientAssumption
<1>2. UNCHANGED <<pending, connected, disconnects, writeFailed, late, bytes, heard>>
  BY DEF Send, readerVars, eventVars
<1>3. CASE socket \in {"closed", "refused"}
  <2>1. ready' = Append(ready, <<"write", FALSE>>) /\ UNCHANGED <<writes, wire, sent>>
    BY <1>3 DEF Send
  <2>2. <<"write", FALSE>> \in Event
    BY DEF Event
  <2>3. ready' \in Seq(Event)
    BY <2>1, <2>2, EventAdded DEF OpTypes
  <2>. QED
    BY <1>2, <2>1, <2>3 DEF OpTypes
<1>4. CASE socket \notin {"closed", "refused"}
  <2>1. PICK n \in 0 .. Len(packet) :
          /\ wire' = wire \o SubSeq(packet, 1, n)
          /\ writes' = IF n = Len(packet) THEN writes
                       ELSE Append(writes, [rest |-> SubSeq(packet, n + 1, Len(packet)), freed |-> frees])
          /\ sent' = Append(sent, size) /\ ready' = ready
    BY <1>4 DEF Send
  <2>. HIDE DEF packet
  <2>2. SubSeq(packet, 1, n) \in Seq(Byte) /\ SubSeq(packet, n + 1, Len(packet)) \in Seq(Byte)
    BY <1>1, CutInTwo
  <2>3. [rest |-> SubSeq(packet, n + 1, Len(packet)), freed |-> frees] \in OneWrite
    BY <2>2
  <2>. HIDE DEF OneWrite
  <2>4. writes' \in Seq(OneWrite)
    <3>1. writes \in Seq(OneWrite)
      BY DEF OpTypes, OneWrite
    <3>. QED
      BY <2>1, <2>3, <3>1, AppendProperties
  <2>5. wire' \in Seq(Byte)
    BY <2>1, <2>2, ConcatProperties DEF OpTypes
  <2>6. sent' \in Seq(Nat)
    BY <1>1, <2>1, AppendProperties DEF OpTypes
  <2>. QED
    BY <1>2, <2>1, <2>4, <2>5, <2>6 DEF OpTypes, OneWrite
<1>. QED
  BY <1>3, <1>4

LEMMA WriteMoreTypes ==
  ASSUME OpTypes, NEW i, WriteMore(i)
  PROVE  OpTypes'
<1>. DEFINE OneWrite == [rest : Seq(Byte), freed : BOOLEAN]
            w == writes[i]
<1>1. i \in DOMAIN writes /\ i \in 1 .. Len(writes) /\ w \in OneWrite /\ writes \in Seq(OneWrite)
  <2>1. writes \in Seq(OneWrite)
    BY DEF OpTypes
  <2>. HIDE DEF OneWrite
  <2>2. i \in DOMAIN writes
    BY DEF WriteMore
  <2>3. i \in 1 .. Len(writes)
    BY <2>1, <2>2, LenProperties
  <2>4. w \in OneWrite
    BY <2>1, <2>3, ElementOfSeq
  <2>. QED
    BY <2>1, <2>2, <2>3, <2>4
<1>2. PICK n \in 1 .. Len(w.rest), intact \in BOOLEAN :
        /\ wire' = wire \o (IF intact THEN SubSeq(w.rest, 1, n) ELSE [j \in 1 .. n |-> Garbage])
        /\ writes' = IF n = Len(w.rest) THEN RemoveAt(writes, i)
                     ELSE [writes EXCEPT ![i].rest = SubSeq(@, n + 1, Len(@))]
  BY DEF WriteMore
<1>3. w.rest \in Seq(Byte) /\ w.freed \in BOOLEAN
  BY <1>1
<1>4. n \in 0 .. Len(w.rest) /\ n \in Nat
  BY <1>3
<1>5. SubSeq(w.rest, 1, n) \in Seq(Byte) /\ SubSeq(w.rest, n + 1, Len(w.rest)) \in Seq(Byte)
  BY <1>3, <1>4, CutInTwo
<1>6. [j \in 1 .. n |-> Garbage] \in Seq(Byte)
  <2>1. Garbage \in Byte
    BY DEF Garbage, Byte
  <2>. QED
    BY <1>4, <2>1
<1>7. wire' \in Seq(Byte)
  BY <1>2, <1>5, <1>6, ConcatProperties DEF OpTypes
<1>8. writes' \in Seq(OneWrite)
  <2>1. RemoveAt(writes, i) \in Seq(OneWrite)
    <3>. HIDE DEF OneWrite
    <3>. QED
      BY <1>1, WriteTaken
  <2>2. [writes EXCEPT ![i].rest = SubSeq(@, n + 1, Len(@))]
          = [writes EXCEPT ![i] = [w EXCEPT !.rest = SubSeq(w.rest, n + 1, Len(w.rest))]]
    BY <1>1
  <2>3. [w EXCEPT !.rest = SubSeq(w.rest, n + 1, Len(w.rest))] \in OneWrite
    BY <1>1, <1>5
  <2>4. [writes EXCEPT ![i].rest = SubSeq(@, n + 1, Len(@))] \in Seq(OneWrite)
    <3>. DEFINE v == [w EXCEPT !.rest = SubSeq(w.rest, n + 1, Len(w.rest))]
    <3>. HIDE DEF OneWrite, v
    <3>. QED
      BY <1>1, <2>2, <2>3, ExceptSeq DEF v
  <2>. QED
    BY <1>2, <2>1, <2>4
<1>. QED
  BY <1>7, <1>8 DEF OpTypes, WriteMore, readerVars, eventVars

LEMMA ReadTypes ==
  ASSUME OpTypes, Read
  PROVE  bytes' \in Seq(Byte) /\ heard' \in Seq(Seq(Byte))
<1>1. CASE ~HeaderInFront
  BY <1>1 DEF Read, OpTypes
<1>2. CASE HeaderInFront
  <2>. DEFINE k == bytes[1][3]
  <2>1. /\ Len(bytes) >= HeaderSize /\ CanRead
        /\ heard' = Append(heard, SubSeq(bytes, 1, k))
        /\ bytes' = SubSeq(bytes, k + 1, Len(bytes))
    BY <1>2 DEF Read
  <2>2. 1 \in 1 .. Len(bytes) /\ bytes[1] \in Byte
    <3>1. Len(bytes) \in Nat /\ HeaderSize \in Nat \ {0} /\ bytes \in Seq(Byte)
      BY PacketAssumption DEF OpTypes
    <3>2. 1 \in 1 .. Len(bytes)
      BY <2>1, <3>1
    <3>. QED
      BY <3>1, <3>2, ElementOfSeq
  <2>3. k \in 0 .. Len(bytes)
    <3>1. k \in Nat
      BY <2>2 DEF Byte
    <3>. QED
      BY <2>1, <3>1 DEF CanRead, OpTypes
  <2>. HIDE DEF k
  <2>4. SubSeq(bytes, 1, k) \in Seq(Byte) /\ SubSeq(bytes, k + 1, Len(bytes)) \in Seq(Byte)
    BY <2>3, CutInTwo DEF OpTypes
  <2>. QED
    BY <2>1, <2>4, AppendProperties DEF OpTypes
<1>. QED
  BY <1>1, <1>2

-----------------------------------------------------------------------------
LEMMA NothingHeld ==
  /\ <<>> \in Seq(Event) /\ <<>> \in Seq([rest : Seq(Byte), freed : BOOLEAN])
  /\ <<>> \in Seq(Byte) /\ <<>> \in Seq(Nat) /\ <<>> \in Seq(Seq(Byte))
BY EmptySeq

LEMMA OpTypesInit == Init => OpTypes
<1>1. SUFFICES ASSUME Init PROVE OpTypes
  OBVIOUS
<1>2. /\ pending = "none" /\ ready = <<>> /\ writes = <<>> /\ bytes = <<>> /\ wire = <<>>
      /\ sent = <<>> /\ heard = <<>>
      /\ connected = FALSE /\ disconnects = 0 /\ writeFailed = FALSE /\ late = FALSE
  BY <1>1 DEF Init, ReaderInit
<1>. QED
  BY <1>2, NothingHeld DEF OpTypes

LEMMA OpTypesStep ==
  ASSUME OpTypes, [Next]_vars
  PROVE  OpTypes'
<1>1. CASE UNCHANGED vars
  BY <1>1 DEF OpTypes, vars, readerVars, opVars, streamVars, eventVars
<1>2. CASE \E next \in {"idle", "renew", "gone"} : TerminateNow(next)
  BY <1>2 DEF TerminateNow, OpTypes, readerVars, opVars, streamVars, eventVars
<1>3. CASE Close
  <2>1. CloseSocket(ready) /\ ready \in Seq(Event)
    BY <1>3 DEF Close, OpTypes
  <2>2. UNCHANGED <<bytes, heard, wire, sent, connected, disconnects, writeFailed, late>>
    BY <1>3 DEF Close, readerVars, streamVars, eventVars
  <2>. QED
    BY <2>1, <2>2, CloseTypes DEF OpTypes
<1>4. CASE Renew
  <2>1. /\ pending' = "connect" /\ ready' = <<>> /\ writes' = <<>> /\ bytes' = <<>> /\ wire' = <<>>
        /\ sent' = <<>> /\ heard' = <<>>
        /\ connected' = FALSE /\ disconnects' = 0 /\ writeFailed' = FALSE /\ late' = FALSE
    BY <1>4 DEF Renew, Clear
  <2>. QED
    BY <2>1, NothingHeld DEF OpTypes
<1>5. CASE \E size \in Sizes, frees \in BOOLEAN : Send(size, frees)
  BY <1>5, SendTypes
<1>6. CASE ThreadEnds
  BY <1>6 DEF ThreadEnds, OpTypes, readerVars, opVars, streamVars, eventVars
<1>7. CASE \E ok \in BOOLEAN : Complete(ok)
  <2>1. PICK ok \in BOOLEAN : Complete(ok)
    BY <1>7
  <2>2. /\ pending # "none" /\ pending' = "none" /\ ready' = Append(ready, <<pending, ok>>)
        /\ UNCHANGED <<bytes, heard, wire, sent, writes, connected, disconnects, writeFailed, late>>
    BY <2>1 DEF Complete, readerVars, streamVars, eventVars
  <2>3. <<pending, ok>> \in Event
    BY <2>2 DEF Event, OpTypes
  <2>4. ready' \in Seq(Event)
    BY <2>2, <2>3, EventAdded DEF OpTypes
  <2>. QED
    BY <2>2, <2>4 DEF OpTypes
<1>8. CASE \E i \in 1 .. MaxSends : WriteMore(i)
  BY <1>8, WriteMoreTypes
<1>9. CASE \E i \in 1 .. MaxSends : WriteFails(i)
  <2>1. PICK i : WriteFails(i)
    BY <1>9
  <2>2. /\ i \in DOMAIN writes /\ writes' = RemoveAt(writes, i)
        /\ ready' = Append(ready, <<"write", FALSE>>)
        /\ UNCHANGED <<pending, bytes, heard, wire, sent, connected, disconnects, writeFailed, late>>
    BY <2>1 DEF WriteFails, readerVars, streamVars, eventVars
  <2>3. <<"write", FALSE>> \in Event
    BY DEF Event
  <2>4. ready' \in Seq(Event)
    BY <2>2, <2>3, EventAdded DEF OpTypes
  <2>5. writes' \in Seq([rest : Seq(Byte), freed : BOOLEAN])
    BY <2>2, WriteTaken DEF OpTypes
  <2>. QED
    BY <2>2, <2>4, <2>5 DEF OpTypes
<1>10. CASE ConnectHandler
  <2>1. ready # <<>> /\ UNCHANGED <<bytes, heard, wire, sent, disconnects, writeFailed, late>>
    BY <1>10 DEF ConnectHandler, Handles, readerVars, streamVars
  <2>2. CASE connected' = TRUE /\ AsyncRead("header")
    <3>1. UNCHANGED writes
      BY <2>2 DEF AsyncRead
    <3>. QED
      BY <2>1, <2>2, <3>1, AsyncReadTypes DEF OpTypes
  <2>3. CASE ready' = Tail(ready) /\ UNCHANGED <<pending, writes, connected>>
    <3>1. Tail(ready) \in Seq(Event)
      BY <2>1, HandledEvents DEF OpTypes
    <3>. QED
      BY <2>1, <2>3, <3>1 DEF OpTypes
  <2>. QED
    BY <1>10, <2>2, <2>3 DEF ConnectHandler
<1>11. CASE HandleHeader
  <2>1. ready # <<>> /\ AsyncRead("body")
        /\ UNCHANGED <<bytes, heard, wire, sent, writes, connected, disconnects, writeFailed, late>>
    BY <1>11 DEF HandleHeader, Handles, AsyncRead, readerVars, streamVars, eventVars
  <2>. QED
    BY <2>1, AsyncReadTypes DEF OpTypes
<1>12. CASE HandleBody
  <2>1. ready # <<>> /\ AsyncRead("header") /\ late' = (late \/ disconnects > 0)
        /\ UNCHANGED <<bytes, heard, wire, sent, writes, connected, disconnects, writeFailed>>
    BY <1>12 DEF HandleBody, Handles, AsyncRead, readerVars, streamVars
  <2>2. late' \in BOOLEAN
    BY <2>1
  <2>. QED
    BY <2>1, <2>2, AsyncReadTypes DEF OpTypes
<1>13. CASE HandleReadFailure \/ HandleWriteFailure
  <2>1. /\ ready # <<>> /\ CloseSocket(Tail(ready)) /\ disconnects' = disconnects + 1
        /\ UNCHANGED <<bytes, heard, wire, sent, connected, late>>
        /\ writeFailed' \in BOOLEAN
    BY <1>13 DEF HandleReadFailure, HandleWriteFailure, DoDisconnect, Handles, readerVars, streamVars, OpTypes
  <2>2. Tail(ready) \in Seq(Event)
    BY <2>1, HandledEvents DEF OpTypes
  <2>3. disconnects' \in Nat
    BY <2>1 DEF OpTypes
  <2>. QED
    BY <2>1, <2>2, <2>3, CloseTypes DEF OpTypes
<1>14. CASE PeerReceive
  <2>1. PICK n \in 1 .. Len(wire) : bytes' = bytes \o SubSeq(wire, 1, n) /\ wire' = SubSeq(wire, n + 1, Len(wire))
    BY <1>14 DEF PeerReceive, Write
  <2>2. n \in 0 .. Len(wire)
    BY <2>1 DEF OpTypes
  <2>3. SubSeq(wire, 1, n) \in Seq(Byte) /\ wire' \in Seq(Byte)
    BY <2>1, <2>2, CutInTwo DEF OpTypes
  <2>4. bytes' \in Seq(Byte)
    BY <2>1, <2>3, ConcatProperties DEF OpTypes
  <2>. QED
    BY <1>14, <2>3, <2>4 DEF PeerReceive, OpTypes, opVars, eventVars
<1>15. CASE PeerRead
  <2>1. Read
    BY <1>15 DEF PeerRead
  <2>. QED
    BY <1>15, <2>1, ReadTypes DEF PeerRead, OpTypes, opVars, streamVars, eventVars
<1>16. CASE Lose
  BY <1>16 DEF Lose, OpTypes, readerVars, opVars, streamVars, eventVars
<1>. QED
  BY <1>1, <1>2, <1>3, <1>4, <1>5, <1>6, <1>7, <1>8, <1>9, <1>10, <1>11, <1>12, <1>13,
     <1>14, <1>15, <1>16 DEF Next, IoStep

-----------------------------------------------------------------------------
(* One thing at a time.  Handles(...) takes the first event away; then an     *)
(* asynchronous read puts a turn back and a disconnect ends the turns.        *)
TurnVars == <<pending, ready, socket, connected, disconnects, writeFailed, late>>

LEMMA TurnUnmoved ==
  ASSUME TurnInv, UNCHANGED TurnVars
  PROVE  TurnInv'
BY DEF TurnInv, TurnVars, OneTurn, NoTurn, DisconnectIsFinal

LEMMA TurnInit == Init => TurnInv
<1>1. SUFFICES ASSUME Init PROVE TurnInv
  OBVIOUS
<1>2. /\ pending = "none" /\ ready = <<>> /\ Len(ready) = 0 /\ socket = "none" /\ connected = FALSE
      /\ disconnects = 0 /\ late = FALSE
  BY <1>1 DEF Init
<1>3. OneTurn(ready)
  BY <1>2 DEF OneTurn
<1>. QED
  BY <1>2, <1>3 DEF TurnInv, DisconnectIsFinal

(* An event that is a write's.                                                *)
LEMMA TurnKeptByWrite ==
  ASSUME OpTypes, TurnInv, ready' = Append(ready, <<"write", FALSE>>), socket # "none",
         UNCHANGED <<pending, socket, connected, disconnects, writeFailed, late>>
  PROVE  TurnInv'
<1>. DEFINE e == <<"write", FALSE>>
<1>1. e \in Event /\ e[1] = "write" /\ ready \in Seq(Event)
  BY DEF Event, OpTypes
<1>. HIDE DEF e
<1>2. ready' = Append(ready, e)
  BY DEF e
<1>3. OneTurn(ready') /\ (NoTurn(ready) => NoTurn(ready'))
  BY <1>1, <1>2, TurnAdded DEF TurnInv
<1>4. /\ \A i \in 1 .. Len(ready) : ready'[i] = ready[i]
      /\ ready'[Len(ready) + 1] = e
      /\ \A i \in 1 .. Len(ready') : i \in 1 .. Len(ready) \/ i = Len(ready) + 1
  <2>. DEFINE more == Append(ready, e)
  <2>1. /\ \A i \in 1 .. Len(ready) : more[i] = ready[i]
        /\ more[Len(ready) + 1] = e
        /\ \A i \in 1 .. Len(more) : i \in 1 .. Len(ready) \/ i = Len(ready) + 1
    BY <1>1, EventAdded
  <2>. HIDE DEF more
  <2>2. ready' = more
    BY <1>2 DEF more
  <2>. QED
    BY <2>1, <2>2
<1>5. \A i \in 1 .. Len(ready') : (i \in 1 .. Len(ready) /\ ready'[i] = ready[i]) \/ ready'[i][1] = "write"
  BY <1>1, <1>4
<1>. QED
  BY <1>3, <1>5 DEF TurnInv, DisconnectIsFinal

(* Closing the socket, of what is left of the events.                         *)
LEMMA TurnClosed ==
  ASSUME OpTypes, NEW queue \in Seq(Event), CloseSocket(queue),
         OneTurn(queue), pending # "none" => NoTurn(queue)
  PROVE  /\ OneTurn(ready') /\ pending' = "none"
         /\ pending = "none" /\ NoTurn(queue) => NoTurn(ready')
         /\ \A i \in 1 .. Len(ready') :
              \/ i \in 1 .. Len(queue) /\ ready'[i] = queue[i]
              \/ pending # "none" /\ ready'[i][1] = pending
              \/ ready'[i][1] = "write"
         /\ socket' = IF socket = "none" THEN "none" ELSE "closed"
<1>1. /\ ready' \in Seq(Event) /\ pending' = "none"
      /\ \A i \in 1 .. Len(queue) : ready'[i] = queue[i]
      /\ \A i \in 1 .. Len(ready') :
           \/ i \in 1 .. Len(queue)
           \/ i = Len(queue) + 1 /\ pending # "none" /\ ready'[i] = <<pending, FALSE>>
           \/ ready'[i] = <<"write", FALSE>>
  BY CloseEvents
<1>2. \A i \in 1 .. Len(ready') :
        \/ i \in 1 .. Len(queue) /\ ready'[i] = queue[i]
        \/ i = Len(queue) + 1 /\ pending # "none" /\ ready'[i] = <<pending, FALSE>>
        \/ ready'[i][1] = "write"
  <2>1. <<"write", FALSE>>[1] = "write"
    OBVIOUS
  <2>2. ASSUME NEW i \in 1 .. Len(ready'), ready'[i] = <<"write", FALSE>>
        PROVE  ready'[i][1] = "write"
    BY <2>1, <2>2
  <2>. QED
    BY <1>1, <2>2
<1>3. pending = "none" /\ NoTurn(queue) => NoTurn(ready')
  BY <1>2 DEF NoTurn
<1>4. ASSUME pending = "none" PROVE OneTurn(ready')
  BY <1>2, <1>4 DEF OneTurn
<1>5. ASSUME pending # "none" PROVE OneTurn(ready')
  <2>1. \A i \in 1 .. Len(ready') : ready'[i][1] # "write" => i = Len(queue) + 1
    BY <1>2, <1>5 DEF NoTurn
  <2>. QED
    BY <2>1 DEF OneTurn
<1>6. OneTurn(ready')
  BY <1>4, <1>5
<1>7. socket' = IF socket = "none" THEN "none" ELSE "closed"
  BY DEF CloseSocket
<1>8. ASSUME NEW i \in 1 .. Len(ready')
      PROVE  \/ i \in 1 .. Len(queue) /\ ready'[i] = queue[i]
             \/ pending # "none" /\ ready'[i][1] = pending
             \/ ready'[i][1] = "write"
  <2>1. ready'[i] = <<pending, FALSE>> => ready'[i][1] = pending
    OBVIOUS
  <2>. QED
    BY <1>2, <2>1
<1>. QED
  BY <1>1, <1>3, <1>6, <1>7, <1>8

(* An asynchronous read in place of the event that is handled.                *)
LEMMA TurnPassed ==
  ASSUME OpTypes, ready # <<>>, OneTurn(ready), ready[1][1] # "write",
         NEW what \in {"header", "body"}, AsyncRead(what)
  PROVE  /\ OneTurn(ready') /\ (pending' # "none" => NoTurn(ready'))
         /\ pending' \in {"none", what} /\ socket' = socket
         /\ \A i \in 1 .. Len(ready') : ready'[i][1] \in {"write", what}
<1>. DEFINE rest == Tail(ready)
            e == <<what, FALSE>>
            more == Append(rest, e)
<1>1. rest \in Seq(Event) /\ NoTurn(rest) /\ OneTurn(rest)
  BY HandledEvents, TurnTaken DEF OpTypes
<1>2. IF socket = "closed" THEN pending' = "none" /\ ready' = more ELSE pending' = what /\ ready' = rest
  BY DEF AsyncRead
<1>3. e \in Event /\ e[1] = what
  BY DEF Event
<1>4. socket' = socket
  BY DEF AsyncRead
<1>. HIDE DEF rest, e
<1>5. OneTurn(more)
  BY <1>1, <1>3, TurnAdded
<1>6. /\ \A i \in 1 .. Len(rest) : more[i] = rest[i]
      /\ more[Len(rest) + 1] = e
      /\ \A i \in 1 .. Len(more) : i \in 1 .. Len(rest) \/ i = Len(rest) + 1
  BY <1>1, <1>3, EventAdded
<1>. HIDE DEF more
<1>7. \A i \in 1 .. Len(more) : more[i][1] \in {"write", what}
  BY <1>1, <1>3, <1>6 DEF NoTurn
<1>8. \A i \in 1 .. Len(rest) : rest[i][1] \in {"write", what}
  BY <1>1 DEF NoTurn
<1>9. CASE socket = "closed"
  BY <1>2, <1>4, <1>5, <1>7, <1>9
<1>10. CASE socket # "closed"
  BY <1>1, <1>2, <1>4, <1>8, <1>10
<1>. QED
  BY <1>9, <1>10

(* No write is pending without a socket or on a closed one, and a connect only *)
(* on one that connects.                                                      *)
SocketInv ==
  /\ socket \in {"none", "connecting", "open", "closed", "refused"}
  /\ socket \in {"none", "closed"} => writes = <<>>
  /\ pending = "connect" => socket = "connecting"

LEMMA SocketStep ==
  ASSUME OpTypes, SocketInv, [Next]_vars
  PROVE  SocketInv'
<1>1. CASE UNCHANGED vars
  BY <1>1 DEF SocketInv, vars, opVars
<1>2. CASE (\E next \in {"idle", "renew", "gone"} : TerminateNow(next)) \/ ThreadEnds \/ PeerReceive \/ PeerRead \/ Lose
  BY <1>2 DEF TerminateNow, ThreadEnds, PeerReceive, PeerRead, Lose, SocketInv, opVars
<1>3. CASE Close \/ HandleReadFailure \/ HandleWriteFailure
  BY <1>3 DEF Close, HandleReadFailure, HandleWriteFailure, DoDisconnect, CloseSocket, SocketInv
<1>4. CASE Renew
  BY <1>4 DEF Renew, SocketInv
<1>5. CASE \E size \in Sizes, frees \in BOOLEAN : Send(size, frees)
  BY <1>5 DEF Send, SocketInv
<1>6. CASE \E ok \in BOOLEAN : Complete(ok)
  BY <1>6 DEF Complete, SocketInv
<1>7. CASE \E i \in 1 .. MaxSends : WriteMore(i) \/ WriteFails(i)
  <2>1. PICK i : WriteMore(i) \/ WriteFails(i)
    BY <1>7
  <2>2. socket \in {"open", "refused"} /\ UNCHANGED <<socket, pending>>
    BY <2>1 DEF WriteMore, WriteFails
  <2>. QED
    BY <2>2 DEF SocketInv
<1>8. CASE ConnectHandler
  BY <1>8 DEF ConnectHandler, AsyncRead, SocketInv
<1>9. CASE HandleHeader \/ HandleBody
  BY <1>9 DEF HandleHeader, HandleBody, AsyncRead, SocketInv
<1>. QED
  BY <1>1, <1>2, <1>3, <1>4, <1>5, <1>6, <1>7, <1>8, <1>9 DEF Next, IoStep

LEMMA TurnStep ==
  ASSUME OpTypes, SocketInv, TurnInv, [Next]_vars
  PROVE  TurnInv'
<1>1. CASE UNCHANGED vars
  BY <1>1, TurnUnmoved DEF TurnVars, vars, opVars, eventVars
<1>2. CASE \/ \E next \in {"idle", "renew", "gone"} : TerminateNow(next)
           \/ ThreadEnds \/ PeerReceive \/ PeerRead \/ Lose
  BY <1>2, TurnUnmoved DEF TurnVars, TerminateNow, ThreadEnds, PeerReceive, PeerRead, Lose, opVars, eventVars
<1>3. CASE Close
  <2>1. CloseSocket(ready) /\ ready \in Seq(Event)
        /\ UNCHANGED <<connected, disconnects, writeFailed, late>>
    BY <1>3 DEF Close, OpTypes, eventVars
  <2>2. /\ OneTurn(ready') /\ pending' = "none"
        /\ pending = "none" /\ NoTurn(ready) => NoTurn(ready')
        /\ \A i \in 1 .. Len(ready') :
             \/ i \in 1 .. Len(ready) /\ ready'[i] = ready[i]
             \/ pending # "none" /\ ready'[i][1] = pending
             \/ ready'[i][1] = "write"
        /\ socket' = IF socket = "none" THEN "none" ELSE "closed"
    BY <2>1, TurnClosed DEF TurnInv
  <2>3. socket = "none" => ready' = <<>>
    <3>1. ASSUME socket = "none" PROVE ready' = <<>>
      <4>1. pending = "none" /\ ready = <<>> /\ writes = <<>>
        BY <3>1 DEF TurnInv, SocketInv
      <4>2. ready' = <<>> \o <<>> \o [i \in DOMAIN <<>> |-> <<"write", FALSE>>]
        BY <2>1, <4>1 DEF CloseSocket
      <4>. QED
        BY <4>2
    <3>. QED
      BY <3>1
  <2>4. ~connected => \A i \in 1 .. Len(ready') : ready'[i][1] \in {"connect", "write"}
    BY <2>2 DEF TurnInv
  <2>5. connected => \A i \in 1 .. Len(ready') : ready'[i][1] # "connect"
    BY <2>2 DEF TurnInv
  <2>6. disconnects > 0 /\ ~writeFailed => connected /\ NoTurn(ready') /\ socket' = "closed"
    BY <2>2 DEF TurnInv
  <2>. QED
    BY <2>1, <2>2, <2>3, <2>4, <2>5, <2>6 DEF TurnInv, DisconnectIsFinal, OpTypes
<1>4. CASE Renew
  <2>1. /\ pending' = "connect" /\ ready' = <<>> /\ Len(ready') = 0 /\ socket' = "connecting"
        /\ connected' = FALSE /\ disconnects' = 0 /\ late' = FALSE
    BY <1>4 DEF Renew
  <2>2. OneTurn(ready') /\ NoTurn(ready')
    BY <2>1 DEF OneTurn, NoTurn
  <2>. QED
    BY <2>1, <2>2 DEF TurnInv, DisconnectIsFinal
<1>5. CASE \E size \in Sizes, frees \in BOOLEAN : Send(size, frees)
  <2>1. /\ socket # "none" /\ UNCHANGED <<pending, socket, connected, disconnects, writeFailed, late>>
        /\ ready' = ready \/ ready' = Append(ready, <<"write", FALSE>>)
    BY <1>5 DEF Send, eventVars
  <2>. QED
    BY <2>1, TurnUnmoved, TurnKeptByWrite DEF TurnVars
<1>6. CASE \E ok \in BOOLEAN : Complete(ok)
  <2>1. PICK ok \in BOOLEAN : Complete(ok)
    BY <1>6
  <2>. DEFINE e == <<pending, ok>>
  <2>2. /\ pending # "none" /\ pending' = "none" /\ ready' = Append(ready, e) /\ socket # "none" /\ socket' # "none"
        /\ UNCHANGED <<connected, disconnects, writeFailed, late>>
    BY <2>1 DEF Complete, eventVars, TurnInv
  <2>3. e \in Event /\ e[1] = pending /\ ready \in Seq(Event) /\ NoTurn(ready)
    BY <2>2 DEF Event, OpTypes, TurnInv
  <2>. HIDE DEF e
  <2>4. OneTurn(ready')
    BY <2>2, <2>3, TurnAdded DEF TurnInv
  <2>5. \A i \in 1 .. Len(ready') : ready'[i][1] \in {"write", pending}
    <3>. DEFINE more == Append(ready, e)
    <3>1. /\ \A i \in 1 .. Len(ready) : more[i] = ready[i]
          /\ more[Len(ready) + 1] = e
          /\ \A i \in 1 .. Len(more) : i \in 1 .. Len(ready) \/ i = Len(ready) + 1
      BY <2>3, EventAdded
    <3>. HIDE DEF more
    <3>2. \A i \in 1 .. Len(more) : more[i][1] \in {"write", pending}
      BY <2>3, <3>1 DEF NoTurn
    <3>. QED
      BY <2>2, <3>2 DEF more
  <2>6. ~(disconnects > 0 /\ ~writeFailed)
    BY <2>2 DEF TurnInv
  <2>7. ~connected => pending = "connect"
    BY <2>2 DEF TurnInv
  <2>8. connected => pending # "connect"
    BY <2>2 DEF TurnInv
  <2>9. ~connected => \A i \in 1 .. Len(ready') : ready'[i][1] \in {"connect", "write"}
    BY <2>5, <2>7
  <2>10. connected => \A i \in 1 .. Len(ready') : ready'[i][1] # "connect"
    BY <2>5, <2>8
  <2>. QED
    BY <2>2, <2>4, <2>6, <2>9, <2>10 DEF TurnInv, DisconnectIsFinal, OpTypes
<1>7. CASE \E i \in 1 .. MaxSends : WriteMore(i)
  BY <1>7, TurnUnmoved DEF TurnVars, WriteMore, eventVars
<1>8. CASE \E i \in 1 .. MaxSends : WriteFails(i)
  <2>1. PICK i : WriteFails(i)
    BY <1>8
  <2>2. /\ i \in DOMAIN writes /\ ready' = Append(ready, <<"write", FALSE>>)
        /\ UNCHANGED <<pending, socket, connected, disconnects, writeFailed, late>>
    BY <2>1 DEF WriteFails, eventVars
  <2>3. socket # "none"
    <3>1. DOMAIN writes = 1 .. Len(writes)
      BY DEF OpTypes
    <3>2. writes # <<>>
      BY <2>2, <3>1
    <3>. QED
      BY <3>2 DEF SocketInv
  <2>. QED
    BY <2>2, <2>3, TurnKeptByWrite
<1>9. ASSUME ready # <<>>
      PROVE  /\ Tail(ready) \in Seq(Event) /\ OneTurn(Tail(ready)) /\ Head(ready) = ready[1]
             /\ NoTurn(ready) => NoTurn(Tail(ready))
             /\ ready[1][1] # "write" => NoTurn(Tail(ready)) /\ ~NoTurn(ready) /\ pending = "none"
             /\ 1 \in 1 .. Len(ready) /\ socket # "none"
             /\ \A i \in 1 .. Len(Tail(ready)) : i + 1 \in 1 .. Len(ready) /\ Tail(ready)[i] = ready[i + 1]
  <2>1. /\ Tail(ready) \in Seq(Event) /\ Head(ready) = ready[1] /\ Len(ready) \in Nat \ {0}
        /\ \A i \in 1 .. Len(Tail(ready)) : i + 1 \in 1 .. Len(ready) /\ Tail(ready)[i] = ready[i + 1]
    BY <1>9, HandledEvents DEF OpTypes
  <2>2. /\ OneTurn(Tail(ready)) /\ (NoTurn(ready) => NoTurn(Tail(ready)))
        /\ ready[1][1] # "write" => NoTurn(Tail(ready))
    BY <1>9, TurnTaken DEF OpTypes, TurnInv
  <2>3. 1 \in 1 .. Len(ready)
    BY <2>1
  <2>4. ready[1][1] # "write" => ~NoTurn(ready)
    BY <2>3 DEF NoTurn
  <2>. QED
    BY <1>9, <2>1, <2>2, <2>3, <2>4 DEF TurnInv
<1>10. CASE ConnectHandler
  <2>1. CASE /\ Handles("connect", TRUE) /\ connected' = TRUE /\ AsyncRead("header")
             /\ UNCHANGED <<disconnects, writeFailed, late>>
    <3>1. ready # <<>> /\ ready[1] = <<"connect", TRUE>>
      BY <1>9, <2>1 DEF Handles
    <3>2. ready[1][1] = "connect"
      BY <3>1
    <3>3. ~connected /\ socket # "none"
      BY <1>9, <3>1, <3>2 DEF TurnInv
    <3>4. /\ OneTurn(ready') /\ (pending' # "none" => NoTurn(ready'))
          /\ pending' \in {"none", "header"} /\ socket' = socket
          /\ \A i \in 1 .. Len(ready') : ready'[i][1] \in {"write", "header"}
      BY <2>1, <3>1, <3>2, TurnPassed DEF TurnInv
    <3>5. ~(disconnects > 0 /\ ~writeFailed)
      BY <3>3 DEF TurnInv
    <3>6. \A i \in 1 .. Len(ready') : ready'[i][1] # "connect"
      BY <3>4
    <3>. QED
      BY <2>1, <3>3, <3>4, <3>5, <3>6 DEF TurnInv, DisconnectIsFinal, OpTypes
  <2>2. CASE /\ Handles("connect", FALSE) /\ ready' = Tail(ready)
             /\ UNCHANGED <<socket, pending, connected, disconnects, writeFailed, late>>
    <3>1. ready # <<>>
      BY <2>2 DEF Handles
    <3>2. \A i \in 1 .. Len(ready') : ready'[i] = ready[i + 1] /\ i + 1 \in 1 .. Len(ready)
      BY <1>9, <2>2, <3>1
    <3>3. OneTurn(ready') /\ (NoTurn(ready) => NoTurn(ready')) /\ socket # "none"
      BY <1>9, <2>2, <3>1
    <3>. QED
      BY <2>2, <3>2, <3>3 DEF TurnInv, DisconnectIsFinal
  <2>. QED
    BY <1>10, <2>1, <2>2 DEF ConnectHandler
<1>11. CASE HandleHeader \/ HandleBody
  <2>1. PICK what \in {"header", "body"}, kind \in {"header", "body"} :
          /\ Handles(kind, TRUE) /\ AsyncRead(what)
          /\ UNCHANGED <<connected, disconnects, writeFailed>>
          /\ late' = late \/ late' = (late \/ disconnects > 0)
    BY <1>11 DEF HandleHeader, HandleBody, eventVars
  <2>2. ready # <<>> /\ ready[1] = <<kind, TRUE>>
    BY <1>9, <2>1 DEF Handles
  <2>3. ready[1][1] = kind /\ kind # "write" /\ kind # "connect"
    BY <2>2
  <2>4. connected /\ ~(disconnects > 0 /\ ~writeFailed) /\ socket # "none"
    BY <1>9, <2>2, <2>3 DEF TurnInv
  <2>5. /\ OneTurn(ready') /\ (pending' # "none" => NoTurn(ready'))
        /\ pending' \in {"none", what} /\ socket' = socket
        /\ \A i \in 1 .. Len(ready') : ready'[i][1] \in {"write", what}
    BY <2>1, <2>2, <2>3, TurnPassed DEF TurnInv
  <2>6. pending' # "connect" /\ \A i \in 1 .. Len(ready') : ready'[i][1] # "connect"
    BY <2>5
  <2>7. ~writeFailed => ~late' /\ disconnects = 0
    BY <2>1, <2>4 DEF TurnInv, DisconnectIsFinal, OpTypes
  <2>. QED
    BY <2>1, <2>4, <2>5, <2>6, <2>7 DEF TurnInv, DisconnectIsFinal
<1>12. CASE HandleReadFailure
  <2>1. PICK kind \in {"header", "body"} :
          /\ Handles(kind, FALSE) /\ CloseSocket(Tail(ready)) /\ disconnects' = disconnects + 1
          /\ UNCHANGED <<connected, writeFailed, late>>
    BY <1>12 DEF HandleReadFailure, DoDisconnect
  <2>2. ready # <<>> /\ ready[1] = <<kind, FALSE>>
    BY <1>9, <2>1 DEF Handles
  <2>3. ready[1][1] = kind /\ kind # "write" /\ kind # "connect"
    BY <2>2
  <2>4. connected /\ pending = "none" /\ ~(disconnects > 0 /\ ~writeFailed) /\ socket # "none"
    BY <1>9, <2>2, <2>3 DEF TurnInv
  <2>5. Tail(ready) \in Seq(Event) /\ OneTurn(Tail(ready)) /\ NoTurn(Tail(ready))
    BY <1>9, <2>2, <2>3
  <2>6. /\ OneTurn(ready') /\ pending' = "none"
        /\ pending = "none" /\ NoTurn(Tail(ready)) => NoTurn(ready')
        /\ socket' = IF socket = "none" THEN "none" ELSE "closed"
    BY <2>1, <2>4, <2>5, TurnClosed
  <2>7. \A i \in 1 .. Len(ready') : ready'[i][1] # "connect"
    BY <2>4, <2>5, <2>6 DEF NoTurn
  <2>8. ~writeFailed => ~late /\ disconnects = 0
    BY <2>4 DEF TurnInv, DisconnectIsFinal, OpTypes
  <2>. QED
    BY <2>1, <2>4, <2>5, <2>6, <2>7, <2>8 DEF TurnInv, DisconnectIsFinal
<1>13. CASE HandleWriteFailure
  <2>1. /\ ready # <<>> /\ CloseSocket(Tail(ready)) /\ writeFailed' = TRUE
        /\ UNCHANGED <<connected, late>>
    BY <1>13 DEF HandleWriteFailure, DoDisconnect, Handles
  <2>2. /\ Tail(ready) \in Seq(Event) /\ OneTurn(Tail(ready)) /\ socket # "none"
        /\ pending # "none" => NoTurn(Tail(ready))
        /\ \A i \in 1 .. Len(Tail(ready)) : i + 1 \in 1 .. Len(ready) /\ Tail(ready)[i] = ready[i + 1]
    BY <1>9, <2>1 DEF TurnInv
  <2>3. /\ OneTurn(ready') /\ pending' = "none"
        /\ \A i \in 1 .. Len(ready') :
             \/ i \in 1 .. Len(Tail(ready)) /\ ready'[i] = Tail(ready)[i]
             \/ pending # "none" /\ ready'[i][1] = pending
             \/ ready'[i][1] = "write"
        /\ socket' = "closed"
    BY <2>1, <2>2, TurnClosed
  <2>. DEFINE rest == Tail(ready)
  <2>. HIDE DEF rest
  <2>4. ~connected => \A i \in 1 .. Len(ready') : ready'[i][1] \in {"connect", "write"}
    BY <2>2, <2>3 DEF TurnInv
  <2>5. connected => \A i \in 1 .. Len(ready') : ready'[i][1] # "connect"
    BY <2>2, <2>3 DEF TurnInv
  <2>. QED
    BY <2>1, <2>3, <2>4, <2>5 DEF TurnInv, DisconnectIsFinal
<1>. QED
  BY <1>1, <1>2, <1>3, <1>4, <1>5, <1>6, <1>7, <1>8, <1>10, <1>11, <1>12, <1>13 DEF Next, IoStep

(* No packet is received after on_disconnected_, which runs once for a        *)
(* connection that was told of, unless a write failed: each connection has    *)
(* one turn, the pending operation or the one event of it that is ready.      *)
THEOREM ToldOnce == SafeSpec => []DisconnectIsFinal
<1>1. Init => OpTypes /\ SocketInv /\ TurnInv
  BY OpTypesInit, TurnInit DEF Init, SocketInv
<1>2. OpTypes /\ SocketInv /\ TurnInv /\ [Next]_vars => (OpTypes /\ SocketInv /\ TurnInv)'
  BY OpTypesStep, SocketStep, TurnStep
<1>3. OpTypes /\ SocketInv /\ TurnInv => DisconnectIsFinal
  BY DEF TurnInv
<1>. QED
  BY <1>1, <1>2, <1>3, PTL DEF SafeSpec

-----------------------------------------------------------------------------
(* The bytes of a stream are in step: each says which packet it belongs to,   *)
(* where it is in it and how long that is; the rest of its packet follows,    *)
(* and then the next one.                                                     *)
InStep(s, sizes) ==
  \A j \in 1 .. Len(s) :
    LET p == s[j][1]  i == s[j][2]  k == s[j][3] IN
    /\ p \in 1 .. Len(sizes) /\ k = sizes[p] + HeaderSize /\ i \in 1 .. k
    /\ \A d \in 0 .. k - i : j + d <= Len(s) => s[j + d] = <<p, i + d, k>>
    /\ j + (k - i) < Len(s) => s[j + (k - i) + 1][1] = p + 1 /\ s[j + (k - i) + 1][2] = 1

BeginsNext(s, n) == s # <<>> => s[1][1] = n + 1 /\ s[1][2] = 1

EndsLast(s, sizes, n) ==
  IF s = <<>> THEN n = Len(sizes)
  ELSE s[Len(s)][1] = Len(sizes) /\ s[Len(s)][2] = s[Len(s)][3]

Orderly(s, sizes, n) == InStep(s, sizes) /\ BeginsNext(s, n)

LEMMA OrderlyPrefix ==
  ASSUME NEW s \in Seq(Byte), NEW t \in Seq(Byte), NEW sizes \in Seq(Nat), NEW n \in Nat,
         Orderly(s, sizes, n), Len(t) <= Len(s), \A j \in 1 .. Len(t) : t[j] = s[j]
  PROVE  Orderly(t, sizes, n)
<1>1. Len(s) \in Nat /\ Len(t) \in Nat
  OBVIOUS
<1>2. InStep(t, sizes)
  <2>1. SUFFICES ASSUME NEW j \in 1 .. Len(t)
                 PROVE  LET p == t[j][1]  i == t[j][2]  k == t[j][3] IN
                        /\ p \in 1 .. Len(sizes) /\ k = sizes[p] + HeaderSize /\ i \in 1 .. k
                        /\ \A d \in 0 .. k - i : j + d <= Len(t) => t[j + d] = <<p, i + d, k>>
                        /\ j + (k - i) < Len(t) => t[j + (k - i) + 1][1] = p + 1 /\ t[j + (k - i) + 1][2] = 1
    BY DEF InStep
  <2>. DEFINE p == t[j][1]
              i == t[j][2]
              k == t[j][3]
  <2>2. j \in 1 .. Len(s) /\ t[j] = s[j]
    BY <1>1
  <2>3. /\ p \in 1 .. Len(sizes) /\ k = sizes[p] + HeaderSize /\ i \in 1 .. k
        /\ \A d \in 0 .. k - i : j + d <= Len(s) => s[j + d] = <<p, i + d, k>>
        /\ j + (k - i) < Len(s) => s[j + (k - i) + 1][1] = p + 1 /\ s[j + (k - i) + 1][2] = 1
    BY <2>2 DEF Orderly, InStep
  <2>. HIDE DEF p, i, k
  <2>4. p \in Nat /\ k \in Nat /\ i \in Nat /\ k - i \in Nat /\ j \in Nat \ {0}
    <3>1. sizes[p] \in Nat /\ HeaderSize \in Nat
      BY <2>3, PacketAssumption
    <3>2. k \in Nat
      <4>1. k = sizes[p] + HeaderSize
        BY <2>3
      <4>. QED
        BY <3>1, <4>1
    <3>3. p \in Nat /\ i \in Nat /\ i <= k /\ j \in Nat \ {0}
      BY <1>1, <2>3, <3>2
    <3>. QED
      BY <3>2, <3>3
  <2>5. ASSUME NEW d \in 0 .. k - i, j + d <= Len(t) PROVE t[j + d] = <<p, i + d, k>>
    <3>1. j + d \in 1 .. Len(t) /\ j + d <= Len(s)
      BY <1>1, <2>4, <2>5
    <3>. QED
      BY <2>3, <3>1
  <2>6. ASSUME j + (k - i) < Len(t)
        PROVE  t[j + (k - i) + 1][1] = p + 1 /\ t[j + (k - i) + 1][2] = 1
    <3>1. j + (k - i) + 1 \in 1 .. Len(t) /\ j + (k - i) < Len(s)
      BY <1>1, <2>4, <2>6
    <3>. QED
      BY <2>3, <3>1
  <2>. QED
    BY <2>3, <2>5, <2>6 DEF p, i, k
<1>3. BeginsNext(t, n)
  <2>1. ASSUME t # <<>> PROVE t[1][1] = n + 1 /\ t[1][2] = 1
    <3>1. Len(t) # 0
      BY <2>1, EmptySeq
    <3>2. 1 \in 1 .. Len(t) /\ Len(s) # 0
      BY <1>1, <3>1
    <3>3. t[1] = s[1] /\ s # <<>>
      BY <3>2
    <3>. QED
      BY <3>3 DEF Orderly, BeginsNext
  <2>. QED
    BY <2>1 DEF BeginsNext
<1>. QED
  BY <1>2, <1>3 DEF Orderly

(* The packet in front, when all of it is there.                              *)
LEMMA FirstPacket ==
  ASSUME NEW s \in Seq(Byte), NEW sizes \in Seq(Nat), NEW n \in Nat,
         Orderly(s, sizes, n), s # <<>>
  PROVE  /\ n + 1 \in 1 .. Len(sizes) /\ sizes[n + 1] \in Nat
         /\ s[1] = <<n + 1, 1, sizes[n + 1] + HeaderSize>>
         /\ \A i \in 1 .. sizes[n + 1] + HeaderSize :
              i <= Len(s) => s[i] = <<n + 1, i, sizes[n + 1] + HeaderSize>>
         /\ sizes[n + 1] + HeaderSize < Len(s) =>
              s[sizes[n + 1] + HeaderSize + 1][1] = n + 2 /\ s[sizes[n + 1] + HeaderSize + 1][2] = 1
<1>. DEFINE k == s[1][3]
<1>1. Len(s) \in Nat \ {0} /\ 1 \in 1 .. Len(s)
  <2>1. Len(s) \in Nat /\ Len(s) # 0
    BY EmptySeq
  <2>. QED
    BY <2>1
<1>2. s[1][1] = n + 1 /\ s[1][2] = 1
  BY DEF Orderly, BeginsNext
<1>3. /\ n + 1 \in 1 .. Len(sizes) /\ k = sizes[n + 1] + HeaderSize /\ 1 \in 1 .. k
      /\ \A d \in 0 .. k - 1 : 1 + d <= Len(s) => s[1 + d] = <<n + 1, 1 + d, k>>
      /\ 1 + (k - 1) < Len(s) => s[1 + (k - 1) + 1][1] = (n + 1) + 1 /\ s[1 + (k - 1) + 1][2] = 1
  BY <1>1, <1>2, SMTT(15), ZenonT(30) DEF Orderly, InStep
<1>. HIDE DEF k
<1>4. sizes[n + 1] \in Nat /\ k \in Nat \ {0}
  <2>1. sizes[n + 1] \in Nat
    BY <1>3, ElementOfSeq
  <2>2. HeaderSize \in Nat \ {0}
    BY PacketAssumption
  <2>3. k = sizes[n + 1] + HeaderSize
    BY <1>3
  <2>. QED
    BY <2>1, <2>2, <2>3
<1>5. ASSUME NEW i \in 1 .. k, i <= Len(s) PROVE s[i] = <<n + 1, i, k>>
  <2>1. i - 1 \in 0 .. k - 1 /\ 1 + (i - 1) = i
    BY <1>4
  <2>2. 1 + (i - 1) <= Len(s) => s[1 + (i - 1)] = <<n + 1, 1 + (i - 1), k>>
    BY <1>3, <2>1
  <2>. QED
    BY <1>5, <2>1, <2>2
<1>6. s[1] = <<n + 1, 1, k>>
  <2>1. 1 \in 1 .. k /\ 1 <= Len(s)
    BY <1>1, <1>4
  <2>. QED
    BY <1>5, <2>1
<1>7. k < Len(s) => s[k + 1][1] = n + 2 /\ s[k + 1][2] = 1
  <2>1. 1 + (k - 1) = k /\ 1 + (k - 1) + 1 = k + 1 /\ (n + 1) + 1 = n + 2
    BY <1>4
  <2>. QED
    BY <1>3, <2>1
<1>. QED
  BY <1>3, <1>4, <1>5, <1>6, <1>7

(* Dropping bytes in front leaves the others in step; t is s without its      *)
(* first k bytes.                                                             *)
LEMMA InStepDropped ==
  ASSUME NEW s \in Seq(Byte), NEW t \in Seq(Byte), NEW sizes \in Seq(Nat), InStep(s, sizes),
         NEW k \in Nat, k <= Len(s), Len(t) = Len(s) - k, \A j \in 1 .. Len(t) : t[j] = s[k + j]
  PROVE  InStep(t, sizes)
<1>0. Len(s) \in Nat /\ Len(t) \in Nat
  OBVIOUS
<1>1. SUFFICES ASSUME NEW j \in 1 .. Len(t)
               PROVE  LET p == t[j][1]  i == t[j][2]  l == t[j][3] IN
                      /\ p \in 1 .. Len(sizes) /\ l = sizes[p] + HeaderSize /\ i \in 1 .. l
                      /\ \A d \in 0 .. l - i : j + d <= Len(t) => t[j + d] = <<p, i + d, l>>
                      /\ j + (l - i) < Len(t) => t[j + (l - i) + 1][1] = p + 1 /\ t[j + (l - i) + 1][2] = 1
  BY DEF InStep
<1>. DEFINE p == t[j][1]
            i == t[j][2]
            l == t[j][3]
<1>2. k + j \in 1 .. Len(s) /\ t[j] = s[k + j]
  BY <1>0
<1>3. /\ p \in 1 .. Len(sizes) /\ l = sizes[p] + HeaderSize /\ i \in 1 .. l
      /\ \A d \in 0 .. l - i : k + j + d <= Len(s) => s[k + j + d] = <<p, i + d, l>>
      /\ k + j + (l - i) < Len(s) => s[k + j + (l - i) + 1][1] = p + 1 /\ s[k + j + (l - i) + 1][2] = 1
  BY <1>2, ZenonT(30) DEF InStep
<1>. HIDE DEF p, i, l
<1>4. p \in Nat /\ l \in Nat /\ i \in Nat /\ l - i \in Nat /\ j \in Nat \ {0}
  <2>1. sizes[p] \in Nat /\ HeaderSize \in Nat
    BY <1>3, PacketAssumption, ElementOfSeq, SMTT(15), ZenonT(30)
  <2>2. l \in Nat
    <3>1. l = sizes[p] + HeaderSize
      BY <1>3
    <3>. QED
      BY <2>1, <3>1
  <2>3. p \in Nat /\ i \in Nat /\ i <= l /\ j \in Nat \ {0}
    BY <1>0, <1>3, <2>2
  <2>. QED
    BY <2>2, <2>3
<1>5. ASSUME NEW d \in 0 .. l - i, j + d <= Len(t) PROVE t[j + d] = <<p, i + d, l>>
  <2>1. j + d \in 1 .. Len(t) /\ k + j + d <= Len(s) /\ k + (j + d) = k + j + d
    BY <1>0, <1>4, <1>5
  <2>2. t[j + d] = s[k + j + d]
    BY <2>1
  <2>. QED
    BY <1>3, <2>1, <2>2
<1>6. ASSUME j + (l - i) < Len(t)
      PROVE  t[j + (l - i) + 1][1] = p + 1 /\ t[j + (l - i) + 1][2] = 1
  <2>1. /\ j + (l - i) + 1 \in 1 .. Len(t) /\ k + j + (l - i) < Len(s)
        /\ k + (j + (l - i) + 1) = k + j + (l - i) + 1
    BY <1>0, <1>4, <1>6
  <2>2. t[j + (l - i) + 1] = s[k + j + (l - i) + 1]
    BY <2>1
  <2>. QED
    BY <1>3, <2>1, <2>2
<1>. QED
  BY <1>3, <1>5, <1>6 DEF p, i, l

(* Dropping the packet in front leaves the stream in order.                   *)
LEMMA OrderlyRest ==
  ASSUME NEW s \in Seq(Byte), NEW t \in Seq(Byte), NEW sizes \in Seq(Nat), NEW n \in Nat,
         Orderly(s, sizes, n), s # <<>>,
         NEW k \in Nat, k = sizes[n + 1] + HeaderSize, k <= Len(s),
         Len(t) = Len(s) - k, \A j \in 1 .. Len(t) : t[j] = s[k + j]
  PROVE  /\ Orderly(t, sizes, n + 1)
         /\ EndsLast(s, sizes, n) => EndsLast(t, sizes, n + 1)
<1>1. Len(s) \in Nat /\ Len(t) \in Nat /\ k \in Nat \ {0}
  <2>1. n + 1 \in 1 .. Len(sizes) /\ sizes[n + 1] \in Nat
    BY FirstPacket
  <2>2. HeaderSize \in Nat \ {0}
    BY PacketAssumption
  <2>3. k \in Nat \ {0}
    BY <2>1, <2>2
  <2>4. Len(s) \in Nat /\ Len(t) \in Nat
    OBVIOUS
  <2>. QED
    BY <2>3, <2>4
<1>2. InStep(t, sizes)
  BY InStepDropped DEF Orderly
<1>3. BeginsNext(t, n + 1)
  <2>1. ASSUME t # <<>> PROVE t[1][1] = (n + 1) + 1 /\ t[1][2] = 1
    <3>1. Len(t) # 0
      BY <2>1, EmptySeq
    <3>2. 1 \in 1 .. Len(t) /\ k < Len(s)
      BY <1>1, <3>1
    <3>3. t[1] = s[k + 1]
      BY <3>2
    <3>4. s[k + 1][1] = n + 2 /\ s[k + 1][2] = 1
      BY <3>2, FirstPacket
    <3>. QED
      BY <3>3, <3>4
  <2>. QED
    BY <2>1 DEF BeginsNext
<1>4. ASSUME EndsLast(s, sizes, n) PROVE EndsLast(t, sizes, n + 1)
  <2>0. s[Len(s)][1] = Len(sizes) /\ s[Len(s)][2] = s[Len(s)][3]
    BY <1>4 DEF EndsLast
  <2>1. CASE t = <<>>
    <3>1. Len(s) = k /\ k \in 1 .. k
      <4>1. Len(t) = 0
        BY <2>1
      <4>. QED
        BY <1>1, <4>1
    <3>2. s[k] = <<n + 1, k, k>>
      BY <1>1, <3>1, FirstPacket, SMTT(30)
    <3>3. n + 1 = Len(sizes)
      BY <2>0, <3>1, <3>2
    <3>. QED
      BY <2>1, <3>3 DEF EndsLast
  <2>2. CASE t # <<>>
    <3>1. Len(t) # 0
      BY <2>2, EmptySeq
    <3>2. Len(t) \in 1 .. Len(t) /\ k + Len(t) = Len(s)
      BY <1>1, <3>1, SMTT(20), ZenonT(20)
    <3>3. t[Len(t)] = s[Len(s)]
      BY <3>2
    <3>. QED
      BY <2>0, <2>2, <3>3 DEF EndsLast
  <2>. QED
    BY <2>1, <2>2
<1>. QED
  BY <1>2, <1>3, <1>4 DEF Orderly

(* What a byte of such a stream says: packet p, place i of k.                 *)
Says(s, sizes, j, p, i, k) ==
  /\ p \in 1 .. Len(sizes) /\ k = sizes[p] + HeaderSize /\ i \in 1 .. k
  /\ p \in Nat /\ k \in Nat /\ i \in Nat /\ k - i \in Nat /\ j \in Nat \ {0}
  /\ \A d \in 0 .. k - i : j + d <= Len(s) => s[j + d] = <<p, i + d, k>>
  /\ j + (k - i) < Len(s) => s[j + (k - i) + 1][1] = p + 1 /\ s[j + (k - i) + 1][2] = 1

LEMMA ByteSays ==
  ASSUME NEW s \in Seq(Byte), NEW sizes \in Seq(Nat), InStep(s, sizes), NEW j \in 1 .. Len(s)
  PROVE  Says(s, sizes, j, s[j][1], s[j][2], s[j][3])
<1>. DEFINE p == s[j][1]
            i == s[j][2]
            k == s[j][3]
<1>1. /\ p \in 1 .. Len(sizes) /\ k = sizes[p] + HeaderSize /\ i \in 1 .. k
      /\ \A d \in 0 .. k - i : j + d <= Len(s) => s[j + d] = <<p, i + d, k>>
      /\ j + (k - i) < Len(s) => s[j + (k - i) + 1][1] = p + 1 /\ s[j + (k - i) + 1][2] = 1
  BY DEF InStep
<1>. HIDE DEF p, i, k
<1>2. Len(s) \in Nat /\ Len(sizes) \in Nat
  OBVIOUS
<1>3. sizes[p] \in Nat /\ HeaderSize \in Nat
  BY <1>1, PacketAssumption
<1>4. k = sizes[p] + HeaderSize
  BY <1>1
<1>5. k \in Nat
  BY <1>3, <1>4
<1>6. p \in 1 .. Len(sizes) /\ i \in 1 .. k
  BY <1>1
<1>7. p \in Nat /\ i \in Nat /\ k - i \in Nat /\ j \in Nat \ {0}
  BY <1>2, <1>5, <1>6
<1>8. Says(s, sizes, j, p, i, k)
  BY <1>1, <1>5, <1>7 DEF Says
<1>. QED
  BY <1>8 DEF p, i, k

(* u is s with the packet p of whole bytes, and more is sizes with its size   *)
WithPacket(u, s, p, whole) ==
  /\ Len(u) = Len(s) + whole
  /\ \A j \in 1 .. Len(s) : u[j] = s[j]
  /\ \A i \in 1 .. whole : u[Len(s) + i] = <<p, i, whole>>

WithSize(more, sizes, size) ==
  /\ Len(more) = Len(sizes) + 1
  /\ \A p \in 1 .. Len(sizes) : more[p] = sizes[p]
  /\ more[Len(sizes) + 1] = size

(* A packet at the end of all that was sent keeps the stream in order.        *)
LEMMA OrderlyMore ==
  ASSUME NEW s \in Seq(Byte), NEW u \in Seq(Byte), NEW sizes \in Seq(Nat), NEW more \in Seq(Nat),
         NEW n \in Nat, NEW size \in Nat, NEW whole \in Nat \ {0}, whole = size + HeaderSize,
         Orderly(s, sizes, n), EndsLast(s, sizes, n),
         WithSize(more, sizes, size), WithPacket(u, s, Len(sizes) + 1, whole)
  PROVE  Orderly(u, more, n) /\ EndsLast(u, more, n)
<1>1. Len(s) \in Nat /\ Len(u) \in Nat /\ Len(sizes) \in Nat /\ Len(u) = Len(s) + whole
  BY DEF WithPacket
<1>2. \A j \in Len(s) + 1 .. Len(u) :
        j - Len(s) \in 1 .. whole /\ u[j] = <<Len(sizes) + 1, j - Len(s), whole>>
  <2>1. SUFFICES ASSUME NEW j \in Len(s) + 1 .. Len(u)
                 PROVE  j - Len(s) \in 1 .. whole /\ u[j] = <<Len(sizes) + 1, j - Len(s), whole>>
    OBVIOUS
  <2>2. j - Len(s) \in 1 .. whole /\ Len(s) + (j - Len(s)) = j
    BY <1>1
  <2>. QED
    BY <2>2 DEF WithPacket
<1>3. ASSUME NEW j \in 1 .. Len(s)
      PROVE  LET p == u[j][1]  i == u[j][2]  k == u[j][3] IN
             /\ p \in 1 .. Len(more) /\ k = more[p] + HeaderSize /\ i \in 1 .. k
             /\ \A d \in 0 .. k - i : j + d <= Len(u) => u[j + d] = <<p, i + d, k>>
             /\ j + (k - i) < Len(u) => u[j + (k - i) + 1][1] = p + 1 /\ u[j + (k - i) + 1][2] = 1
  <2>. DEFINE p == s[j][1]
              i == s[j][2]
              k == s[j][3]
  <2>1. u[j] = s[j]
    BY DEF WithPacket
  <2>3. u[j][1] = p /\ u[j][2] = i /\ u[j][3] = k /\ p = s[j][1] /\ i = s[j][2] /\ k = s[j][3]
    BY <2>1
  <2>. HIDE DEF p, i, k
  <2>2. /\ p \in 1 .. Len(sizes) /\ k = sizes[p] + HeaderSize /\ i \in 1 .. k
        /\ p \in Nat /\ k \in Nat /\ i \in Nat /\ k - i \in Nat /\ j \in Nat \ {0}
        /\ \A d \in 0 .. k - i : j + d <= Len(s) => s[j + d] = <<p, i + d, k>>
        /\ j + (k - i) < Len(s) => s[j + (k - i) + 1][1] = p + 1 /\ s[j + (k - i) + 1][2] = 1
    <3>1. Says(s, sizes, j, p, i, k)
      BY ByteSays DEF Orderly, p, i, k
    <3>. QED
      BY <3>1 DEF Says
  <2>4. p \in Nat /\ k \in Nat /\ i \in Nat /\ k - i \in Nat /\ j \in Nat \ {0}
    BY <2>2
  <2>5. p \in 1 .. Len(more) /\ k = more[p] + HeaderSize
    <3>1. p \in 1 .. Len(sizes) /\ k = sizes[p] + HeaderSize
      BY <2>2
    <3>2. more[p] = sizes[p] /\ Len(more) = Len(sizes) + 1
      BY <3>1 DEF WithSize
    <3>3. p \in 1 .. Len(more)
      BY <1>1, <3>1, <3>2
    <3>. QED
      BY <3>1, <3>2, <3>3
  <2>6. j + (k - i) <= Len(s) /\ (j + (k - i) = Len(s) => p = Len(sizes))
    <3>1. s # <<>> /\ s[Len(s)][1] = Len(sizes) /\ s[Len(s)][2] = s[Len(s)][3]
      <4>1. s # <<>>
        BY <1>1
      <4>. QED
        BY <4>1 DEF EndsLast
    <3>2. CASE Len(s) - j \in 0 .. k - i
      <4>1. j + (Len(s) - j) = Len(s)
        BY <1>1, <2>4
      <4>2. s[Len(s)] = <<p, i + (Len(s) - j), k>>
        <5>. DEFINE d0 == Len(s) - j
        <5>1. d0 \in 0 .. k - i /\ j + d0 = Len(s) /\ j + d0 <= Len(s)
          BY <1>1, <3>2, <4>1
        <5>. HIDE DEF d0
        <5>2. s[j + d0] = <<p, i + d0, k>>
          BY <2>2, <5>1
        <5>. QED
          BY <5>1, <5>2 DEF d0
      <4>3. p = Len(sizes) /\ i + (Len(s) - j) = k
        BY <3>1, <4>2
      <4>. QED
        BY <1>1, <2>4, <4>3
    <3>3. CASE Len(s) - j \notin 0 .. k - i
      BY <1>1, <2>4, <3>3
    <3>. QED
      BY <3>2, <3>3
  <2>7. ASSUME NEW d \in 0 .. k - i, j + d <= Len(u) PROVE u[j + d] = <<p, i + d, k>>
    <3>1. j + d \in 1 .. Len(s)
      BY <1>1, <2>4, <2>6
    <3>2. u[j + d] = s[j + d]
      BY <3>1 DEF WithPacket
    <3>3. j + d <= Len(s)
      BY <1>1, <3>1
    <3>. QED
      BY <2>2, <3>2, <3>3
  <2>8. ASSUME j + (k - i) < Len(u)
        PROVE  u[j + (k - i) + 1][1] = p + 1 /\ u[j + (k - i) + 1][2] = 1
    <3>1. CASE j + (k - i) < Len(s)
      <4>1. j + (k - i) + 1 \in 1 .. Len(s)
        BY <1>1, <2>4, <3>1
      <4>2. u[j + (k - i) + 1] = s[j + (k - i) + 1]
        BY <4>1 DEF WithPacket
      <4>. QED
        BY <2>2, <3>1, <4>2
    <3>2. CASE j + (k - i) = Len(s)
      <4>1. p = Len(sizes) /\ 1 \in 1 .. whole
        BY <2>6, <3>2
      <4>2. u[Len(s) + 1] = <<Len(sizes) + 1, 1, whole>>
        BY <4>1 DEF WithPacket
      <4>3. u[Len(s) + 1][1] = p + 1 /\ u[Len(s) + 1][2] = 1
        BY <4>1, <4>2
      <4>. QED
        BY <3>2, <4>3
    <3>3. j + (k - i) <= Len(s) /\ j + (k - i) \in Nat
      BY <2>4, <2>6
    <3>. QED
      BY <1>1, <3>1, <3>2, <3>3
  <2>9. i \in 1 .. k
    BY <2>2
  <2>. QED
    BY <2>3, <2>5, <2>7, <2>8, <2>9
<1>4. ASSUME NEW j \in Len(s) + 1 .. Len(u)
      PROVE  LET p == u[j][1]  i == u[j][2]  k == u[j][3] IN
             /\ p \in 1 .. Len(more) /\ k = more[p] + HeaderSize /\ i \in 1 .. k
             /\ \A d \in 0 .. k - i : j + d <= Len(u) => u[j + d] = <<p, i + d, k>>
             /\ j + (k - i) < Len(u) => u[j + (k - i) + 1][1] = p + 1 /\ u[j + (k - i) + 1][2] = 1
  <2>. DEFINE i == j - Len(s)
              p == Len(sizes) + 1
  <2>1. i \in 1 .. whole /\ u[j] = <<p, i, whole>>
    BY <1>2
  <2>2. u[j][1] = p /\ u[j][2] = i /\ u[j][3] = whole
    BY <2>1
  <2>3. p \in 1 .. Len(more) /\ whole = more[p] + HeaderSize
    BY <1>1 DEF WithSize
  <2>4. ASSUME NEW d \in 0 .. whole - i, j + d <= Len(u) PROVE u[j + d] = <<p, i + d, whole>>
    <3>1. j + d \in Len(s) + 1 .. Len(u) /\ (j + d) - Len(s) = i + d
      BY <1>1, <2>1, <2>4
    <3>. QED
      BY <1>2, <3>1
  <2>5. ~(j + (whole - i) < Len(u))
    BY <1>1, <2>1, SMTT(20), ZenonT(20)
  <2>6. i \in 1 .. whole
    BY <2>1
  <2>. HIDE DEF i, p
  <2>. QED
    BY <2>2, <2>3, <2>4, <2>5, <2>6
<1>5. InStep(u, more)
  <2>1. \A j \in 1 .. Len(u) : j \in 1 .. Len(s) \/ j \in Len(s) + 1 .. Len(u)
    BY <1>1
  <2>. QED
    BY <1>3, <1>4, <2>1 DEF InStep
<1>6. BeginsNext(u, n)
  <2>1. CASE s = <<>>
    <3>1. n = Len(sizes) /\ Len(s) = 0 /\ 1 \in Len(s) + 1 .. Len(u)
      <4>1. n = Len(sizes) /\ Len(s) = 0
        BY <2>1 DEF EndsLast
      <4>. QED
        BY <1>1, <4>1
    <3>2. u[1] = <<Len(sizes) + 1, 1 - Len(s), whole>>
      BY <1>2, <3>1
    <3>3. u[1][1] = n + 1 /\ u[1][2] = 1
      BY <3>1, <3>2
    <3>. QED
      BY <3>3 DEF BeginsNext
  <2>2. CASE s # <<>>
    <3>1. 1 \in 1 .. Len(s)
      <4>1. Len(s) # 0
        BY <2>2, EmptySeq
      <4>. QED
        BY <1>1, <4>1
    <3>2. u[1] = s[1]
      BY <3>1 DEF WithPacket
    <3>. QED
      BY <2>2, <3>2 DEF BeginsNext, Orderly
  <2>. QED
    BY <2>1, <2>2
<1>7. EndsLast(u, more, n)
  <2>1. Len(u) \in Len(s) + 1 .. Len(u) /\ Len(u) - Len(s) = whole
    BY <1>1
  <2>2. u[Len(u)] = <<Len(sizes) + 1, whole, whole>>
    BY <1>2, <2>1
  <2>3. u # <<>>
    BY <1>1
  <2>. QED
    BY <2>2, <2>3 DEF EndsLast, WithSize
<1>. QED
  BY <1>5, <1>6, <1>7 DEF Orderly

(* More sizes do not matter to what is there.                                 *)
LEMMA OrderlyGrown ==
  ASSUME NEW s \in Seq(Byte), NEW sizes \in Seq(Nat), NEW more \in Seq(Nat), NEW n \in Nat, NEW size \in Nat,
         Orderly(s, sizes, n), WithSize(more, sizes, size)
  PROVE  Orderly(s, more, n)
<1>1. Len(sizes) \in Nat /\ Len(more) = Len(sizes) + 1
  BY DEF WithSize
<1>2. \A p \in 1 .. Len(sizes) : p \in 1 .. Len(more) /\ more[p] = sizes[p]
  BY <1>1 DEF WithSize
<1>3. InStep(s, more)
  BY <1>2 DEF InStep, Orderly
<1>. QED
  BY <1>3 DEF Orderly

LEMMA NothingIsOrderly ==
  ASSUME NEW sizes, NEW n
  PROVE  Orderly(<<>>, sizes, n)
<1>1. Len(<<>>) = 0
  OBVIOUS
<1>. QED
  BY <1>1 DEF Orderly, InStep, BeginsNext

LEMMA JoinedInAnyOrder ==
  ASSUME NEW s \in Seq(Byte), NEW t \in Seq(Byte), NEW u \in Seq(Byte)
  PROVE  (s \o t) \o u = s \o (t \o u)
BY ConcatAssociative

(* A sequence is its two parts.                                               *)
LEMMA PartsJoined ==
  ASSUME NEW s \in Seq(Byte), NEW n \in 0 .. Len(s)
  PROVE  SubSeq(s, 1, n) \o SubSeq(s, n + 1, Len(s)) = s
<1>. DEFINE a == SubSeq(s, 1, n)
            b == SubSeq(s, n + 1, Len(s))
<1>1. /\ a \in Seq(Byte) /\ Len(a) = n /\ b \in Seq(Byte) /\ Len(b) = Len(s) - n
      /\ \A i \in 1 .. n : a[i] = s[i]
      /\ \A i \in 1 .. Len(s) - n : b[i] = s[n + i]
  BY CutInTwo
<1>. HIDE DEF a, b
<1>2. /\ a \o b \in Seq(Byte) /\ Len(a \o b) = Len(a) + Len(b)
      /\ \A i \in 1 .. Len(a) + Len(b) : (a \o b)[i] = IF i <= Len(a) THEN a[i] ELSE b[i - Len(a)]
  BY <1>1, ConcatProperties
<1>3. Len(s) \in Nat /\ n \in Nat /\ n <= Len(s) /\ Len(a \o b) = Len(s)
  BY <1>1, <1>2
<1>4. ASSUME NEW i \in 1 .. Len(s) PROVE (a \o b)[i] = s[i]
  <2>1. CASE i <= n
    BY <1>1, <1>2, <1>3, <2>1
  <2>2. CASE ~(i <= n)
    <3>1. i - n \in 1 .. Len(s) - n /\ n + (i - n) = i
      BY <1>3, <2>2
    <3>2. (a \o b)[i] = b[i - n]
      BY <1>1, <1>2, <1>3, <2>2
    <3>. QED
      BY <1>1, <3>1, <3>2
  <2>. QED
    BY <2>1, <2>2
<1>5. a \o b = s
  BY <1>2, <1>3, <1>4, SeqEqual
<1>. QED
  BY <1>5 DEF a, b

(* t is s without its first k bytes.                                          *)
Dropped(t, s, k) == k <= Len(s) /\ Len(t) = Len(s) - k /\ \A j \in 1 .. Len(t) : t[j] = s[k + j]

LEMMA DroppedInFront ==
  ASSUME NEW s \in Seq(Byte), NEW t \in Seq(Byte), NEW v \in Seq(Byte), NEW k \in Nat, Dropped(t, s, k)
  PROVE  Dropped(t \o v, s \o v, k)
<1>1. /\ Len(t \o v) = Len(t) + Len(v)
      /\ \A i \in 1 .. Len(t) + Len(v) : (t \o v)[i] = IF i <= Len(t) THEN t[i] ELSE v[i - Len(t)]
  BY ConcatProperties
<1>2. /\ Len(s \o v) = Len(s) + Len(v)
      /\ \A i \in 1 .. Len(s) + Len(v) : (s \o v)[i] = IF i <= Len(s) THEN s[i] ELSE v[i - Len(s)]
  BY ConcatProperties
<1>3. Len(t) \in Nat /\ Len(s) \in Nat /\ Len(v) \in Nat /\ k <= Len(s) /\ Len(t) = Len(s) - k
  BY DEF Dropped
<1>4. ASSUME NEW j \in 1 .. Len(t \o v) PROVE (t \o v)[j] = (s \o v)[k + j]
  <2>1. k + j \in 1 .. Len(s) + Len(v) /\ j \in 1 .. Len(t) + Len(v)
    BY <1>1, <1>3
  <2>2. CASE j <= Len(t)
    <3>1. j \in 1 .. Len(t) /\ k + j <= Len(s)
      BY <1>3, <2>1, <2>2
    <3>2. (t \o v)[j] = t[j] /\ (s \o v)[k + j] = s[k + j]
      BY <1>1, <1>2, <2>1, <3>1
    <3>. QED
      BY <3>1, <3>2 DEF Dropped
  <2>3. CASE ~(j <= Len(t))
    <3>1. ~(k + j <= Len(s)) /\ (k + j) - Len(s) = j - Len(t)
      BY <1>3, <2>1, <2>3
    <3>2. (t \o v)[j] = v[j - Len(t)] /\ (s \o v)[k + j] = v[(k + j) - Len(s)]
      BY <1>1, <1>2, <2>1, <2>3, <3>1
    <3>. QED
      BY <3>1, <3>2
  <2>. QED
    BY <2>2, <2>3
<1>. QED
  BY <1>1, <1>2, <1>3, <1>4 DEF Dropped

LEMMA PrefixOfConcat ==
  ASSUME NEW s \in Seq(Byte), NEW t \in Seq(Byte), NEW sizes \in Seq(Nat), NEW n \in Nat,
         Orderly(s \o t, sizes, n)
  PROVE  Orderly(s, sizes, n)
<1>. DEFINE u == s \o t
<1>1. /\ u \in Seq(Byte) /\ Len(u) = Len(s) + Len(t)
      /\ \A i \in 1 .. Len(s) + Len(t) : u[i] = IF i <= Len(s) THEN s[i] ELSE t[i - Len(s)]
  BY ConcatProperties
<1>2. Orderly(u, sizes, n)
  OBVIOUS
<1>. HIDE DEF u
<1>3. Len(s) \in Nat /\ Len(t) \in Nat
  OBVIOUS
<1>4. Len(s) <= Len(u) /\ \A j \in 1 .. Len(s) : s[j] = u[j]
  BY <1>1, <1>3
<1>. QED
  BY <1>1, <1>2, <1>4, OrderlyPrefix

-----------------------------------------------------------------------------
(* What waits in the client behind what is on its way.                        *)
Rest == IF writes = <<>> THEN <<>> ELSE writes[1].rest
OnTheWire == bytes \o wire
Stream == OnTheWire \o Rest

AllHeard ==
  /\ ~garbled
  /\ Len(heard) <= Len(sent)
  /\ \A i \in 1 .. Len(heard) : heard[i] = WholePacket(i, sent[i])

(* What is sent waits for the connect, or goes out. *)
Carries == socket \in {"connecting", "open"}

(* Without an excuse the peer's buffer, what is on the wire behind it and     *)
(* what the client still has to write are the packets from the next one to    *)
(* hear to the last one sent; a lost connection leaves the buffer.            *)
StreamOk ==
  /\ AllHeard
  /\ Len(writes) <= 1 /\ \A i \in 1 .. Len(writes) : ~writes[i].freed
  /\ Orderly(bytes, sent, Len(heard))
  /\ ~lost => Orderly(OnTheWire, sent, Len(heard))
  /\ ~lost /\ Carries => Orderly(Stream, sent, Len(heard)) /\ EndsLast(Stream, sent, Len(heard))

Nothing == bytes = <<>> /\ wire = <<>> /\ heard = <<>> /\ sent = <<>> /\ writes = <<>> /\ garbled = FALSE

StreamInv ==
  /\ socket = "none" => Nothing
  /\ excuses = {} => StreamOk

LEMMA NothingIsOk == Nothing => StreamOk
<1>1. SUFFICES ASSUME Nothing PROVE StreamOk
  OBVIOUS
<1>2. Len(heard) = 0 /\ Len(sent) = 0 /\ Len(writes) = 0 /\ OnTheWire = <<>> /\ Rest = <<>>
  BY <1>1 DEF Nothing, OnTheWire, Rest
<1>3. Stream = <<>>
  BY <1>2 DEF Stream
<1>4. \A n : Orderly(<<>>, sent, n)
  BY NothingIsOrderly
<1>5. EndsLast(Stream, sent, Len(heard))
  BY <1>2, <1>3 DEF EndsLast
<1>6. AllHeard
  BY <1>1, <1>2 DEF Nothing, AllHeard
<1>. QED
  BY <1>1, <1>2, <1>3, <1>4, <1>5, <1>6 DEF Nothing, StreamOk

LEMMA RestType ==
  ASSUME OpTypes
  PROVE  /\ Rest \in Seq(Byte) /\ OnTheWire \in Seq(Byte) /\ Stream \in Seq(Byte)
         /\ Len(heard) \in Nat /\ Len(sent) \in Nat
<1>1. Rest \in Seq(Byte)
  <2>1. CASE writes = <<>>
    BY <2>1, EmptySeq DEF Rest
  <2>2. CASE writes # <<>>
    <3>1. Len(writes) \in Nat \ {0}
      BY <2>2, EmptySeq DEF OpTypes
    <3>2. 1 \in 1 .. Len(writes)
      BY <3>1
    <3>. DEFINE R == [rest : Seq(Byte), freed : BOOLEAN]
    <3>3. writes \in Seq(R)
      BY DEF OpTypes
    <3>4. writes[1] \in R
      <4>. HIDE DEF R
      <4>. QED
        BY <3>2, <3>3, ElementOfSeq
    <3>. QED
      BY <2>2, <3>4 DEF Rest
  <2>. QED
    BY <2>1, <2>2
<1>2. OnTheWire \in Seq(Byte)
  BY ConcatProperties DEF OnTheWire, OpTypes
<1>3. Stream \in Seq(Byte)
  BY <1>1, <1>2, ConcatProperties DEF Stream
<1>. QED
  BY <1>1, <1>2, <1>3 DEF OpTypes

-----------------------------------------------------------------------------
(* What each action does to the stream.                                       *)
StreamVars == <<bytes, heard, garbled, wire, sent, excuses>>

(* The caller's or the io thread's, which at most empties the writes or takes *)
(* the socket out of its state.                                               *)
LEMMA StreamUnmoved ==
  ASSUME StreamInv, UNCHANGED StreamVars, UNCHANGED writes \/ writes' = <<>>,
         lost => lost', socket' # "none" \/ socket = "none",
         Carries' => Carries /\ UNCHANGED writes
  PROVE  StreamInv'
<1>1. UNCHANGED <<bytes, heard, garbled, wire, sent, excuses>>
  BY DEF StreamVars
<1>2. socket' = "none" => Nothing'
  BY <1>1 DEF StreamInv, Nothing
<1>3. ASSUME excuses' = {} PROVE StreamOk'
  <2>1. StreamOk
    BY <1>1, <1>3 DEF StreamInv
  <2>2. AllHeard'
    BY <1>1, <2>1 DEF StreamOk, AllHeard, WholePacket
  <2>3. Len(writes') <= 1 /\ \A i \in 1 .. Len(writes') : ~writes'[i].freed
    <3>1. CASE writes' = <<>>
      BY <3>1
    <3>2. CASE UNCHANGED writes
      BY <2>1, <3>2 DEF StreamOk
    <3>. QED
      BY <3>1, <3>2
  <2>4. (Orderly(bytes, sent, Len(heard)))'
    BY <1>1, <2>1 DEF StreamOk, Orderly, InStep, BeginsNext
  <2>5. OnTheWire' = OnTheWire
    BY <1>1 DEF OnTheWire
  <2>6. ~lost' => (Orderly(OnTheWire, sent, Len(heard)))'
    BY <1>1, <2>1, <2>5 DEF StreamOk, Orderly, InStep, BeginsNext
  <2>7. Carries' => Carries /\ Stream' = Stream
    BY <2>5 DEF Stream, Rest
  <2>8. ~lost' /\ Carries' => (Orderly(Stream, sent, Len(heard)) /\ EndsLast(Stream, sent, Len(heard)))'
    BY <1>1, <2>1, <2>7 DEF StreamOk, Orderly, InStep, BeginsNext, EndsLast
  <2>. QED
    BY <2>2, <2>3, <2>4, <2>6, <2>8 DEF StreamOk
<1>. QED
  BY <1>2, <1>3 DEF StreamInv

LEMMA StreamSent ==
  ASSUME OpTypes, OpTypes', SocketInv, StreamInv,
         NEW size \in Sizes, NEW frees \in BOOLEAN, Send(size, frees), Carries
  PROVE  StreamInv'
<1>. DEFINE packet == CreatePacket(Len(sent) + 1, size)
            whole == size + HeaderSize
<1>1. PICK n \in 0 .. Len(packet) :
        /\ wire' = wire \o SubSeq(packet, 1, n)
        /\ writes' = IF n = Len(packet) THEN writes
                     ELSE Append(writes, [rest |-> SubSeq(packet, n + 1, Len(packet)), freed |-> frees])
        /\ excuses' = excuses
             \cup (IF size + HeaderSize >= Modulus THEN {"overlong"} ELSE {})
             \cup (IF n < Len(packet) /\ frees THEN {"freed"} ELSE {})
             \cup (IF writes # <<>> THEN {"overlapped"} ELSE {})
        /\ sent' = Append(sent, size)
  BY DEF Send, Carries
<1>2. UNCHANGED <<socket, lost, bytes, heard, garbled>>
  BY DEF Send, readerVars
<1>3. ASSUME excuses' = {} PROVE StreamOk'
  <2>1. /\ excuses = {} /\ ~(size + HeaderSize >= Modulus) /\ ~(n < Len(packet) /\ frees) /\ writes = <<>>
    BY <1>1, <1>3
  <2>2. StreamOk
    BY <2>1 DEF StreamInv
  <2>3. size \in Nat /\ HeaderSize \in Nat \ {0} /\ Modulus \in Nat /\ whole \in Nat \ {0} /\ whole < Modulus
    BY <2>1, ClientAssumption, PacketAssumption
  <2>4. whole % Modulus = whole
    <3>. HIDE DEF whole
    <3>. QED
      BY <2>3
  <2>5. /\ packet \in Seq(Byte) /\ Len(packet) = whole
        /\ \A i \in 1 .. whole : packet[i] = <<Len(sent) + 1, i, whole>>
    <3>1. Len(sent) + 1 \in Nat
      BY DEF OpTypes
    <3>. QED
      BY <2>4, <3>1, PacketIsBytes
  <2>. DEFINE x == SubSeq(packet, 1, n)
              y == SubSeq(packet, n + 1, Len(packet))
  <2>. HIDE DEF packet
  <2>6. x \in Seq(Byte) /\ y \in Seq(Byte) /\ Len(y) = Len(packet) - n /\ x \o y = packet
    BY <2>5, CutInTwo, PartsJoined
  <2>7. wire' = wire \o x /\ writes' = (IF n = Len(packet) THEN <<>> ELSE <<[rest |-> y, freed |-> frees]>>)
    BY <1>1, <2>1
  <2>. HIDE DEF x, y
  <2>8. Rest' = y /\ Rest = <<>>
    <3>1. CASE n = Len(packet)
      <4>1. Len(y) = 0
        BY <2>5, <2>6, <3>1
      <4>2. y = <<>>
        BY <2>6, <4>1, EmptySeq
      <4>. QED
        BY <2>1, <2>7, <3>1, <4>2 DEF Rest
    <3>2. CASE n # Len(packet)
      <4>. DEFINE one == [rest |-> y, freed |-> frees]
      <4>1. writes' = <<one>>
        BY <2>7, <3>2
      <4>2. one.rest = y
        OBVIOUS
      <4>. HIDE DEF one
      <4>3. writes' # <<>> /\ writes'[1] = one
        BY <4>1
      <4>. QED
        BY <2>1, <4>2, <4>3 DEF Rest
    <3>. QED
      BY <3>1, <3>2
  <2>9. Len(writes') <= 1 /\ \A i \in 1 .. Len(writes') : ~writes'[i].freed
    <3>1. CASE n = Len(packet)
      <4>1. writes' = <<>>
        BY <2>7, <3>1
      <4>. QED
        BY <4>1
    <3>2. CASE n # Len(packet)
      <4>0. ~frees
        BY <2>1, <2>5, <3>2
      <4>. DEFINE one == [rest |-> y, freed |-> frees]
      <4>1. writes' = <<one>>
        BY <2>7, <3>2
      <4>2. ~one.freed
        BY <4>0
      <4>. HIDE DEF one
      <4>3. Len(writes') = 1 /\ writes'[1] = one
        BY <4>1
      <4>4. ASSUME NEW i \in 1 .. Len(writes')
            PROVE  ~writes'[i].freed
        <5>1. i = 1
          BY <4>3
        <5>. QED
          BY <4>2, <4>3, <5>1
      <4>. QED
        BY <4>3, <4>4
    <3>. QED
      BY <3>1, <3>2
  <2>10. WithSize(sent', sent, size) /\ sent' \in Seq(Nat) /\ sent \in Seq(Nat) /\ Len(sent) \in Nat
    <3>1. sent \in Seq(Nat) /\ Len(sent) \in Nat /\ sent' \in Seq(Nat)
      BY LenProperties DEF OpTypes
    <3>2. sent' = Append(sent, size)
      BY <1>1
    <3>3. Len(sent') = Len(sent) + 1 /\ sent'[Len(sent) + 1] = size
      BY <2>3, <3>1, <3>2, AppendProperties
    <3>4. \A p \in 1 .. Len(sent) : sent'[p] = sent[p]
      BY <2>3, <3>1, <3>2, AppendProperties
    <3>. QED
      BY <3>1, <3>3, <3>4 DEF WithSize
  <2>11. AllHeard'
    <3>1. Len(heard) <= Len(sent) /\ ~garbled /\ Len(heard) \in Nat
      BY <2>2 DEF StreamOk, AllHeard, OpTypes
    <3>2. \A i \in 1 .. Len(heard) : sent'[i] = sent[i]
      BY <2>10, <3>1 DEF WithSize
    <3>3. Len(heard) <= Len(sent')
      BY <2>10, <3>1 DEF WithSize
    <3>. QED
      BY <1>2, <2>2, <3>1, <3>2, <3>3 DEF StreamOk, AllHeard, WholePacket
  <2>12. (Orderly(bytes, sent, Len(heard)))'
    <3>1. Orderly(bytes, sent', Len(heard))
      BY <2>2, <2>3, <2>10, OrderlyGrown DEF StreamOk, OpTypes
    <3>. QED
      BY <1>2, <3>1
  <2>13. OnTheWire' = OnTheWire \o x
    <3>1. (bytes \o wire) \o x = bytes \o (wire \o x)
      <4>1. bytes \in Seq(Byte) /\ wire \in Seq(Byte)
        BY DEF OpTypes
      <4>. QED
        BY <2>6, <4>1, JoinedInAnyOrder
    <3>. QED
      BY <1>2, <2>7, <3>1 DEF OnTheWire
  <2>14. Stream = OnTheWire /\ Stream' = OnTheWire \o packet /\ OnTheWire \in Seq(Byte) /\ Len(heard) \in Nat
    <3>1. OnTheWire \in Seq(Byte) /\ Len(heard) \in Nat
      BY RestType
    <3>2. OnTheWire \o <<>> = OnTheWire
      BY <3>1, ConcatEmptySeq
    <3>3. Stream = OnTheWire
      BY <2>8, <3>2 DEF Stream
    <3>4. (OnTheWire \o x) \o y = OnTheWire \o (x \o y)
      BY <2>6, <3>1, JoinedInAnyOrder
    <3>5. Stream' = (OnTheWire \o x) \o y
      BY <2>8, <2>13 DEF Stream
    <3>. QED
      BY <2>6, <3>1, <3>3, <3>4, <3>5
  <2>15. ASSUME ~lost' PROVE /\ Orderly(Stream', sent', Len(heard)) /\ EndsLast(Stream', sent', Len(heard))
                             /\ Orderly(OnTheWire', sent', Len(heard))
    <3>1. Orderly(OnTheWire, sent, Len(heard)) /\ EndsLast(OnTheWire, sent, Len(heard))
      BY <1>2, <2>2, <2>14, <2>15 DEF StreamOk
    <3>2. WithPacket(Stream', OnTheWire, Len(sent) + 1, whole) /\ Stream' \in Seq(Byte)
      <4>. DEFINE u == OnTheWire \o packet
      <4>1. /\ u \in Seq(Byte) /\ Len(u) = Len(OnTheWire) + Len(packet)
            /\ \A i \in 1 .. Len(OnTheWire) + Len(packet) :
                 u[i] = IF i <= Len(OnTheWire) THEN OnTheWire[i] ELSE packet[i - Len(OnTheWire)]
        BY <2>5, <2>14, ConcatProperties
      <4>. HIDE DEF u, whole
      <4>2. Len(OnTheWire) \in Nat /\ whole \in Nat /\ Len(packet) = whole
        BY <2>3, <2>5, <2>14
      <4>3. \A j \in 1 .. Len(OnTheWire) : u[j] = OnTheWire[j]
        BY <4>1, <4>2
      <4>4. ASSUME NEW i \in 1 .. whole PROVE u[Len(OnTheWire) + i] = packet[i]
        <5>1. /\ Len(OnTheWire) + i \in 1 .. Len(OnTheWire) + Len(packet)
              /\ ~(Len(OnTheWire) + i <= Len(OnTheWire))
              /\ (Len(OnTheWire) + i) - Len(OnTheWire) = i
          BY <4>2
        <5>. QED
          BY <4>1, <5>1
      <4>5. \A i \in 1 .. whole : u[Len(OnTheWire) + i] = <<Len(sent) + 1, i, whole>>
        BY <2>5, <4>4
      <4>6. WithPacket(u, OnTheWire, Len(sent) + 1, whole)
        BY <4>1, <4>2, <4>3, <4>5 DEF WithPacket
      <4>. QED
        BY <2>14, <4>1, <4>6 DEF u
    <3>3. Orderly(Stream', sent', Len(heard)) /\ EndsLast(Stream', sent', Len(heard))
      <4>. DEFINE u == Stream'
                  s == OnTheWire
      <4>1. u \in Seq(Byte) /\ s \in Seq(Byte) /\ WithPacket(u, s, Len(sent) + 1, whole)
            /\ Orderly(s, sent, Len(heard)) /\ EndsLast(s, sent, Len(heard))
        BY <2>14, <3>1, <3>2
      <4>2. \E k \in Nat \ {0} : k = whole /\ k = size + HeaderSize
        BY <2>3
      <4>. HIDE DEF u, s, whole
      <4>3. PICK k \in Nat \ {0} : k = whole /\ k = size + HeaderSize
        BY <4>2
      <4>4. Orderly(u, sent', Len(heard)) /\ EndsLast(u, sent', Len(heard))
        BY <2>3, <2>10, <2>14, <4>1, <4>3, OrderlyMore
      <4>. QED
        BY <4>4 DEF u
    <3>4. Orderly((OnTheWire \o x) \o y, sent', Len(heard))
      BY <2>8, <2>13, <3>3 DEF Stream
    <3>5. OnTheWire \o x \in Seq(Byte)
      BY <2>6, <2>14, ConcatProperties
    <3>6. Orderly(OnTheWire \o x, sent', Len(heard))
      BY <2>6, <2>10, <2>14, <3>4, <3>5, PrefixOfConcat
    <3>. QED
      BY <2>13, <3>3, <3>6
  <2>. QED
    BY <1>2, <2>9, <2>11, <2>12, <2>15 DEF StreamOk
<1>. QED
  BY <1>2, <1>3 DEF StreamInv, Carries

(* More of the pending write goes out, whole, since it was not freed.         *)
LEMMA StreamWritten ==
  ASSUME OpTypes, OpTypes', SocketInv, StreamInv, NEW i, WriteMore(i)
  PROVE  StreamInv'
<1>1. i \in DOMAIN writes /\ UNCHANGED <<socket, lost, bytes, heard, garbled, sent, excuses>>
  BY DEF WriteMore, readerVars
<1>2. DOMAIN writes = 1 .. Len(writes) /\ Len(writes) \in Nat
  BY DEF OpTypes
<1>3. socket # "none" /\ Carries
  BY DEF WriteMore, Carries
<1>4. ASSUME excuses' = {} PROVE StreamOk'
  <2>1. StreamOk
    BY <1>1, <1>4 DEF StreamInv
  <2>2. Len(writes) = 1 /\ i = 1 /\ ~writes[1].freed
    BY <1>1, <1>2, <2>1 DEF StreamOk
  <2>. DEFINE r == writes[1].rest
  <2>3. PICK n \in 1 .. Len(r), intact \in BOOLEAN :
          /\ ~intact => writes[1].freed
          /\ wire' = wire \o (IF intact THEN SubSeq(r, 1, n) ELSE [j \in 1 .. n |-> Garbage])
          /\ writes' = IF n = Len(r) THEN RemoveAt(writes, 1)
                       ELSE [writes EXCEPT ![1].rest = SubSeq(r, n + 1, Len(r))]
    BY <2>2 DEF WriteMore
  <2>4. r \in Seq(Byte) /\ Rest = r
    <3>1. writes # <<>>
      BY <2>2
    <3>2. Rest = r
      BY <3>1 DEF Rest
    <3>. QED
      BY <3>2, RestType
  <2>. DEFINE x == SubSeq(r, 1, n)
              y == SubSeq(r, n + 1, Len(r))
  <2>5. n \in 0 .. Len(r) /\ Len(r) \in Nat
    BY <2>4
  <2>6. x \in Seq(Byte) /\ y \in Seq(Byte) /\ Len(y) = Len(r) - n /\ x \o y = r
    BY <2>4, <2>5, CutInTwo, PartsJoined
  <2>7. wire' = wire \o x
    BY <2>2, <2>3
  <2>8. /\ Rest' = y /\ Len(writes') <= 1 /\ \A j \in 1 .. Len(writes') : ~writes'[j].freed
    <3>1. CASE n = Len(r)
      <4>1. writes' = <<>>
        <5>1. writes' = RemoveAt(writes, 1)
          BY <2>3, <3>1
        <5>. QED
          BY <1>1, <2>2, <5>1, WriteTaken DEF OpTypes
      <4>2. Len(y) = 0
        BY <2>5, <2>6, <3>1
      <4>. HIDE DEF y
      <4>3. y = <<>>
        BY <2>6, <4>2, EmptySeq
      <4>4. Rest' = y
        BY <4>1, <4>3 DEF Rest
      <4>5. Len(writes') = 0
        BY <4>1
      <4>. QED
        BY <4>4, <4>5
    <3>2. CASE n # Len(r)
      <4>1. writes' = [writes EXCEPT ![1].rest = y]
        BY <2>3, <3>2
      <4>2. 1 \in DOMAIN writes
        BY <1>1, <2>2
      <4>. DEFINE R == [rest : Seq(Byte), freed : BOOLEAN]
                  w == [writes[1] EXCEPT !.rest = y]
      <4>3. writes \in Seq(R) /\ 1 \in 1 .. Len(writes)
        BY <1>2, <4>2 DEF OpTypes
      <4>4. writes[1] \in R
        <5>. HIDE DEF R
        <5>. QED
          BY <4>3, ElementOfSeq
      <4>5. w \in R /\ w.rest = y /\ w.freed = writes[1].freed
        BY <2>6, <4>4
      <4>6. writes' = [writes EXCEPT ![1] = w]
        BY <4>1
      <4>. HIDE DEF R, w, y
      <4>7. Len(writes') = 1 /\ writes'[1] = w
        <5>1. Len([writes EXCEPT ![1] = w]) = Len(writes)
          BY <4>3, <4>5, ExceptSeq
        <5>2. [writes EXCEPT ![1] = w][1] = w
          BY <4>2
        <5>. QED
          BY <2>2, <4>6, <5>1, <5>2
      <4>8. writes' # <<>>
        BY <4>7
      <4>9. Rest' = y
        BY <4>5, <4>7, <4>8 DEF Rest
      <4>10. \A j \in 1 .. Len(writes') : writes'[j] = w
        BY <4>7
      <4>. QED
        BY <2>2, <4>5, <4>7, <4>9, <4>10
    <3>. QED
      BY <3>1, <3>2
  <2>. HIDE DEF x, y, r
  <2>9. bytes \in Seq(Byte) /\ wire \in Seq(Byte) /\ sent \in Seq(Nat) /\ OnTheWire \in Seq(Byte) /\ Len(heard) \in Nat
    BY RestType DEF OpTypes
  <2>10. OnTheWire' = OnTheWire \o x
    <3>1. (bytes \o wire) \o x = bytes \o (wire \o x)
      BY <2>6, <2>9, JoinedInAnyOrder, SMTT(15), ZenonT(30)
    <3>. QED
      BY <1>1, <2>7, <3>1 DEF OnTheWire
  <2>11. Stream' = (OnTheWire \o x) \o y
    BY <2>8, <2>10 DEF Stream
  <2>12. (OnTheWire \o x) \o y = OnTheWire \o (x \o y)
    BY <2>6, <2>9, JoinedInAnyOrder
  <2>13. Stream' = Stream
    BY <2>4, <2>6, <2>11, <2>12 DEF Stream
  <2>14. ASSUME ~lost' PROVE /\ Orderly(Stream', sent, Len(heard)) /\ EndsLast(Stream', sent, Len(heard))
                             /\ Orderly(OnTheWire', sent, Len(heard))
    <3>1. Orderly(Stream, sent, Len(heard)) /\ EndsLast(Stream, sent, Len(heard))
      BY <1>1, <1>3, <2>1, <2>14 DEF StreamOk
    <3>2. Orderly((OnTheWire \o x) \o y, sent, Len(heard))
      BY <2>11, <2>13, <3>1
    <3>3. OnTheWire \o x \in Seq(Byte)
      BY <2>6, <2>9, ConcatProperties
    <3>4. Orderly(OnTheWire \o x, sent, Len(heard))
      BY <2>6, <2>9, <3>2, <3>3, PrefixOfConcat
    <3>. QED
      BY <2>10, <2>13, <3>1, <3>4
  <2>15. AllHeard' /\ Orderly(bytes', sent', Len(heard'))
    BY <1>1, <2>1 DEF StreamOk, AllHeard, WholePacket
  <2>. QED
    BY <1>1, <2>8, <2>14, <2>15 DEF StreamOk
<1>. QED
  BY <1>1, <1>3, <1>4 DEF StreamInv

(* The peer takes a chunk of what is on the wire.                             *)
LEMMA StreamReceived ==
  ASSUME OpTypes, OpTypes', StreamInv, PeerReceive
  PROVE  StreamInv'
<1>1. PICK n \in 1 .. Len(wire) : bytes' = bytes \o SubSeq(wire, 1, n) /\ wire' = SubSeq(wire, n + 1, Len(wire))
  BY DEF PeerReceive, Write
<1>2. ~lost /\ UNCHANGED <<socket, lost, heard, garbled, sent, excuses, writes>>
  BY DEF PeerReceive, opVars
<1>3. n \in 0 .. Len(wire) /\ wire # <<>>
  <2>1. Len(wire) \in Nat
    BY DEF OpTypes
  <2>2. Len(wire) # 0
    BY <1>1, <2>1
  <2>3. wire # <<>>
    BY <2>2
  <2>. QED
    BY <1>1, <2>1, <2>3
<1>. DEFINE x == SubSeq(wire, 1, n)
            y == SubSeq(wire, n + 1, Len(wire))
<1>4. x \in Seq(Byte) /\ y \in Seq(Byte) /\ x \o y = wire
  BY <1>3, CutInTwo, PartsJoined DEF OpTypes
<1>5. bytes' = bytes \o x /\ wire' = y
  BY <1>1
<1>. HIDE DEF x, y
<1>6. bytes \in Seq(Byte) /\ bytes' \in Seq(Byte) /\ sent \in Seq(Nat) /\ Len(heard) \in Nat
  BY RestType DEF OpTypes
<1>7. OnTheWire' = OnTheWire
  <2>1. (bytes \o x) \o y = bytes \o (x \o y)
    BY <1>4, <1>6, JoinedInAnyOrder
  <2>. QED
    BY <1>4, <1>5, <2>1 DEF OnTheWire
<1>8. Stream' = Stream
  BY <1>2, <1>7 DEF Stream, Rest
<1>9. ASSUME excuses' = {} PROVE StreamOk'
  <2>1. StreamOk /\ Orderly(OnTheWire, sent, Len(heard))
    BY <1>2, <1>9 DEF StreamInv, StreamOk
  <2>2. Orderly(bytes' \o y, sent, Len(heard))
    BY <1>5, <1>7, <2>1 DEF OnTheWire
  <2>3. Orderly(bytes', sent, Len(heard))
    BY <1>4, <1>6, <2>2, PrefixOfConcat
  <2>4. AllHeard'
    BY <1>2, <2>1 DEF StreamOk, AllHeard, WholePacket
  <2>. QED
    BY <1>2, <1>7, <1>8, <2>1, <2>3, <2>4 DEF StreamOk, Carries
<1>10. socket # "none"
  BY <1>3 DEF StreamInv, Nothing
<1>. QED
  BY <1>2, <1>9, <1>10 DEF StreamInv

(* The peer reads a packet: what is in front of its buffer is the next one.   *)
LEMMA StreamRead ==
  ASSUME OpTypes, OpTypes', StreamInv, PeerRead
  PROVE  StreamInv'
<1>1. Read /\ UNCHANGED <<socket, lost, wire, sent, excuses, writes>>
  BY DEF PeerRead, opVars, streamVars
<1>2. /\ bytes \in Seq(Byte) /\ bytes' \in Seq(Byte) /\ wire \in Seq(Byte) /\ sent \in Seq(Nat)
      /\ heard \in Seq(Seq(Byte)) /\ Len(heard) \in Nat
      /\ Rest \in Seq(Byte) /\ Rest' = Rest /\ OnTheWire \in Seq(Byte) /\ OnTheWire' \in Seq(Byte)
      /\ Stream \in Seq(Byte) /\ Stream' \in Seq(Byte)
  <2>1. Rest' = Rest
    BY <1>1 DEF Rest
  <2>2. OnTheWire' \in Seq(Byte)
    BY <1>1, ConcatProperties DEF OnTheWire, OpTypes
  <2>3. Stream' \in Seq(Byte)
    BY <2>1, <2>2, RestType, ConcatProperties DEF Stream
  <2>. QED
    BY <2>1, <2>2, <2>3, RestType DEF OpTypes
<1>3. Len(bytes) >= HeaderSize /\ bytes # <<>>
  <2>1. Len(bytes) >= HeaderSize /\ HeaderSize \in Nat \ {0}
    BY <1>1, PacketAssumption DEF Read
  <2>. QED
    BY <2>1
<1>4. socket # "none"
  BY <1>3 DEF StreamInv, Nothing
<1>5. ASSUME excuses' = {} PROVE StreamOk'
  <2>1. StreamOk
    BY <1>1, <1>5 DEF StreamInv
  <2>. DEFINE m == Len(heard) + 1
              k == sent[m] + HeaderSize
  <2>2. Orderly(bytes, sent, Len(heard))
    BY <2>1 DEF StreamOk
  <2>3. /\ m \in 1 .. Len(sent) /\ sent[m] \in Nat
        /\ bytes[1] = <<m, 1, k>>
        /\ \A i \in 1 .. k : i <= Len(bytes) => bytes[i] = <<m, i, k>>
    BY <1>2, <1>3, <2>2, FirstPacket
  <2>4. k \in Nat \ {0} /\ HeaderSize <= k /\ m \in Nat \ {0} /\ HeaderSize \in Nat \ {0}
    <3>1. HeaderSize \in Nat \ {0} /\ m \in Nat \ {0}
      BY <1>2, PacketAssumption
    <3>2. sent[m] \in Nat
      BY <2>3
    <3>. HIDE DEF m
    <3>. QED
      BY <3>1, <3>2
  <2>. HIDE DEF m, k
  <2>5. HeaderInFront
    <3>1. ASSUME NEW i \in 1 .. HeaderSize
          PROVE  bytes[i] # Garbage /\ bytes[i][1] = bytes[1][1] /\ bytes[i][2] = i
      <4>1. i \in 1 .. k /\ i <= Len(bytes)
        BY <1>2, <1>3, <2>4
      <4>2. bytes[i] = <<m, i, k>>
        BY <2>3, <4>1
      <4>3. bytes[i][1] = m /\ bytes[i][2] = i /\ bytes[1][1] = m
        BY <2>3, <4>2
      <4>4. Garbage[1] = 0
        BY DEF Garbage
      <4>. QED
        BY <2>4, <4>3, <4>4
    <3>. QED
      BY <3>1 DEF HeaderInFront
  <2>6. /\ k <= Len(bytes) /\ heard' = Append(heard, SubSeq(bytes, 1, k))
        /\ bytes' = SubSeq(bytes, k + 1, Len(bytes)) /\ UNCHANGED garbled
    <3>1. bytes[1][3] = k
      BY <2>3
    <3>. QED
      BY <1>1, <2>5, <3>1 DEF Read, CanRead
  <2>7. k \in 0 .. Len(bytes)
    BY <1>2, <2>4, <2>6
  <2>8. /\ SubSeq(bytes, 1, k) \in Seq(Byte) /\ Len(SubSeq(bytes, 1, k)) = k
        /\ \A i \in 1 .. k : SubSeq(bytes, 1, k)[i] = bytes[i]
        /\ Dropped(bytes', bytes, k)
    <3>1. /\ SubSeq(bytes, 1, k) \in Seq(Byte) /\ Len(SubSeq(bytes, 1, k)) = k
          /\ \A i \in 1 .. k : SubSeq(bytes, 1, k)[i] = bytes[i]
          /\ Len(bytes') = Len(bytes) - k /\ \A i \in 1 .. Len(bytes) - k : bytes'[i] = bytes[k + i]
      BY <1>2, <2>6, <2>7, CutInTwo, SMTT(20), ZenonT(20)
    <3>. QED
      BY <2>6, <3>1 DEF Dropped
  <2>9. Dropped(OnTheWire', OnTheWire, k)
    BY <1>1, <1>2, <2>4, <2>8, DroppedInFront DEF OnTheWire
  <2>10. Dropped(Stream', Stream, k)
    <3>1. Dropped(OnTheWire' \o Rest, OnTheWire \o Rest, k)
      BY <1>2, <2>4, <2>9, DroppedInFront
    <3>. QED
      BY <1>2, <3>1 DEF Stream
  <2>11. ASSUME NEW s \in Seq(Byte), NEW t \in Seq(Byte), Orderly(s, sent, Len(heard)), Dropped(t, s, k)
         PROVE  /\ Orderly(t, sent, m)
                /\ EndsLast(s, sent, Len(heard)) => EndsLast(t, sent, m)
    <3>1. k = sent[Len(heard) + 1] + HeaderSize /\ m = Len(heard) + 1
      BY DEF k, m
    <3>2. s # <<>>
      <4>1. Len(s) \in Nat /\ k <= Len(s)
        BY <2>11 DEF Dropped
      <4>. QED
        BY <2>4, <4>1
    <3>3. k \in Nat /\ k <= Len(s) /\ Len(t) = Len(s) - k /\ \A j \in 1 .. Len(t) : t[j] = s[k + j]
      BY <2>4, <2>11 DEF Dropped
    <3>4. /\ Orderly(t, sent, Len(heard) + 1)
          /\ EndsLast(s, sent, Len(heard)) => EndsLast(t, sent, Len(heard) + 1)
      BY <1>2, <2>11, <3>1, <3>2, <3>3, OrderlyRest
    <3>. QED
      BY <3>1, <3>4
  <2>12. Len(heard') = m /\ heard'[m] = SubSeq(bytes, 1, k) /\ \A i \in 1 .. Len(heard) : heard'[i] = heard[i]
    BY <1>2, <2>6, <2>8, AppendProperties, SMTT(30) DEF m
  <2>13. SubSeq(bytes, 1, k) = WholePacket(m, sent[m])
    <3>1. WholePacket(m, sent[m]) = [i \in 1 .. k |-> <<m, i, k>>]
      BY DEF WholePacket, k
    <3>. DEFINE f == [i \in 1 .. k |-> <<m, i, k>>]
    <3>2. \A i \in 1 .. k : <<m, i, k>> \in Byte
      BY <2>4 DEF Byte
    <3>3. f \in Seq(Byte) /\ Len(f) = k /\ \A i \in 1 .. k : f[i] = <<m, i, k>>
      <4>1. f \in [1 .. k -> Byte]
        BY <3>2
      <4>. QED
        BY <2>4, <4>1
    <3>. HIDE DEF f
    <3>4. ASSUME NEW i \in 1 .. k PROVE SubSeq(bytes, 1, k)[i] = f[i]
      <4>1. i <= Len(bytes)
        BY <1>2, <2>4, <2>6
      <4>2. bytes[i] = <<m, i, k>>
        BY <2>3, <4>1
      <4>. QED
        BY <2>8, <3>3, <4>2
    <3>5. SubSeq(bytes, 1, k) = f
      BY <2>8, <3>3, <3>4, SeqEqual
    <3>. QED
      BY <3>1, <3>5 DEF f
  <2>14. AllHeard'
    <3>1. ~garbled /\ \A i \in 1 .. Len(heard) : heard[i] = WholePacket(i, sent[i])
      BY <2>1 DEF StreamOk, AllHeard
    <3>2. Len(heard') <= Len(sent)
      BY <1>2, <2>3, <2>12
    <3>3. \A i \in 1 .. Len(heard') : i \in 1 .. Len(heard) \/ i = m
      BY <1>2, <2>12 DEF m
    <3>4. \A i \in 1 .. Len(heard') : heard'[i] = WholePacket(i, sent[i])
      BY <2>12, <2>13, <3>1, <3>3
    <3>. QED
      BY <1>1, <2>6, <3>1, <3>2, <3>4 DEF AllHeard, WholePacket
  <2>15. Orderly(bytes', sent, m)
    BY <1>2, <2>2, <2>8, <2>11
  <2>16. ~lost => Orderly(OnTheWire', sent, m)
    BY <1>2, <2>1, <2>9, <2>11 DEF StreamOk
  <2>17. ~lost /\ Carries => Orderly(Stream', sent, m) /\ EndsLast(Stream', sent, m)
    BY <1>2, <2>1, <2>10, <2>11 DEF StreamOk
  <2>18. Len(writes') <= 1 /\ \A i \in 1 .. Len(writes') : ~writes'[i].freed
    BY <1>1, <2>1 DEF StreamOk
  <2>. QED
    BY <1>1, <2>12, <2>14, <2>15, <2>16, <2>17, <2>18 DEF StreamOk, Carries
<1>. QED
  BY <1>1, <1>4, <1>5 DEF StreamInv

LEMMA StreamStep ==
  ASSUME OpTypes, OpTypes', SocketInv, StreamInv, [Next]_vars
  PROVE  StreamInv'
<1>1. CASE UNCHANGED vars
  BY <1>1, StreamUnmoved DEF StreamVars, vars, readerVars, opVars, streamVars, Carries
<1>2. CASE (\E next \in {"idle", "renew", "gone"} : TerminateNow(next)) \/ ThreadEnds \/ Lose
  BY <1>2, StreamUnmoved DEF StreamVars, TerminateNow, ThreadEnds, Lose, readerVars, opVars, streamVars, Carries
<1>3. CASE Close \/ HandleReadFailure \/ HandleWriteFailure
  <2>1. /\ writes' = <<>> /\ UNCHANGED lost /\ UNCHANGED StreamVars
        /\ socket' = IF socket = "none" THEN "none" ELSE "closed"
    BY <1>3 DEF Close, HandleReadFailure, HandleWriteFailure, Handles, DoDisconnect, CloseSocket,
                StreamVars, readerVars, streamVars
  <2>. QED
    BY <2>1, StreamUnmoved DEF Carries
<1>4. CASE Renew
  <2>1. Nothing'
    BY <1>4 DEF Renew, Clear, Nothing
  <2>2. Nothing' => StreamOk'
    BY NothingIsOk, PTL
  <2>. QED
    BY <2>1, <2>2 DEF StreamInv
<1>5. CASE \E size \in Sizes, frees \in BOOLEAN : Send(size, frees)
  <2>1. PICK size \in Sizes, frees \in BOOLEAN : Send(size, frees)
    BY <1>5
  <2>2. CASE Carries
    BY <2>1, <2>2, StreamSent
  <2>3. CASE ~Carries
    <3>1. socket \in {"closed", "refused"}
      BY <2>1, <2>3 DEF Send, SocketInv, Carries
    <3>2. UNCHANGED <<StreamVars, writes, lost, socket>>
      BY <2>1, <3>1 DEF Send, StreamVars, readerVars
    <3>. QED
      BY <2>3, <3>2, StreamUnmoved DEF Carries
  <2>. QED
    BY <2>2, <2>3
<1>6. CASE \E ok \in BOOLEAN : Complete(ok)
  <2>1. PICK ok \in BOOLEAN : Complete(ok)
    BY <1>6
  <2>2. /\ UNCHANGED writes /\ UNCHANGED lost /\ UNCHANGED StreamVars
        /\ socket' = IF pending = "connect" THEN (IF ok THEN "open" ELSE "refused") ELSE socket
    BY <2>1 DEF Complete, StreamVars, readerVars, streamVars
  <2>. QED
    BY <2>2, StreamUnmoved DEF SocketInv, Carries
<1>7. CASE \E i \in 1 .. MaxSends : WriteMore(i)
  BY <1>7, StreamWritten
<1>8. CASE \E i \in 1 .. MaxSends : WriteFails(i)
  <2>1. PICK i : WriteFails(i)
    BY <1>8
  <2>2. /\ i \in DOMAIN writes /\ writes' = RemoveAt(writes, i) /\ UNCHANGED <<socket, lost>>
        /\ lost \/ socket = "refused"
        /\ UNCHANGED StreamVars
    BY <2>1 DEF WriteFails, StreamVars, readerVars, streamVars
  <2>3. DOMAIN writes = 1 .. Len(writes) /\ Len(writes) \in Nat
    BY DEF OpTypes
  <2>4. socket # "none"
    BY <2>1 DEF WriteFails
  <2>5. ASSUME excuses' = {} PROVE StreamOk'
    <3>1. StreamOk
      BY <2>2, <2>5 DEF StreamInv, StreamVars
    <3>2. Len(writes) = 1
      BY <2>2, <2>3, <3>1 DEF StreamOk
    <3>3. writes' = <<>>
      BY <2>2, <3>2, WriteTaken DEF OpTypes
    <3>4. Len(writes') = 0
      BY <3>3
    <3>5. AllHeard' /\ Orderly(bytes', sent', Len(heard'))
      BY <2>2, <3>1 DEF StreamOk, AllHeard, WholePacket, StreamVars
    <3>6. ~lost' => (Orderly(OnTheWire, sent, Len(heard)))'
      BY <2>2, <3>1 DEF StreamOk, OnTheWire, StreamVars
    <3>7. lost' \/ ~Carries'
      BY <2>2 DEF Carries
    <3>. QED
      BY <3>4, <3>5, <3>6, <3>7 DEF StreamOk
  <2>. QED
    BY <2>2, <2>4, <2>5 DEF StreamInv
<1>9. CASE ConnectHandler \/ HandleHeader \/ HandleBody
  <2>1. UNCHANGED <<socket, writes, lost>> /\ UNCHANGED StreamVars
    BY <1>9 DEF ConnectHandler, HandleHeader, HandleBody, Handles, AsyncRead, StreamVars, readerVars, streamVars
  <2>. QED
    BY <2>1, StreamUnmoved DEF Carries
<1>10. CASE PeerReceive
  BY <1>10, StreamReceived
<1>11. CASE PeerRead
  BY <1>11, StreamRead
<1>. QED
  BY <1>1, <1>2, <1>3, <1>4, <1>5, <1>6, <1>7, <1>8, <1>9, <1>10, <1>11 DEF Next, IoStep

(* The peer reads the packets that were sent, whole and in order, unless one  *)
(* was too long for packet_size, or what asio could not take at once was      *)
(* freed or overlapped by the next.                                           *)
THEOREM ReadAsSent == SafeSpec => []PeerReadsWhatWasSent
<1>1. Init => OpTypes /\ SocketInv /\ StreamInv
  <2>1. SUFFICES ASSUME Init PROVE OpTypes /\ SocketInv /\ StreamInv
    OBVIOUS
  <2>2. Nothing /\ SocketInv
    BY <2>1 DEF Init, ReaderInit, Nothing, SocketInv
  <2>. QED
    BY <2>1, <2>2, NothingIsOk, OpTypesInit DEF StreamInv
<1>2. OpTypes /\ SocketInv /\ StreamInv /\ [Next]_vars => (OpTypes /\ SocketInv /\ StreamInv)'
  BY OpTypesStep, SocketStep, StreamStep
<1>3. OpTypes /\ StreamInv => PeerReadsWhatWasSent
  <2>1. ASSUME OpTypes, StreamInv, excuses = {}
        PROVE  /\ ~garbled
               /\ Len(heard) <= Len(sent)
               /\ \A i \in DOMAIN heard : heard[i] = WholePacket(i, sent[i])
    <3>1. AllHeard
      BY <2>1 DEF StreamInv, StreamOk
    <3>2. DOMAIN heard = 1 .. Len(heard)
      BY <2>1 DEF OpTypes
    <3>. QED
      BY <3>1, <3>2 DEF AllHeard
  <2>. QED
    BY <2>1 DEF PeerReadsWhatWasSent
<1>. QED
  BY <1>1, <1>2, <1>3, PTL DEF SafeSpec

-----------------------------------------------------------------------------
(* The server *)

(* A Connection that did not have its on_connected_ yet has done nothing. *)
Untouched(c) ==
  /\ reading[c] = "none"
  /\ outgoing[c] = <<>>
  /\ timesDisconnected[c] = 0

(* The Connections that were never created, or wait for their peer, are fresh *)
FreshIsUntouched ==
  /\ accepting \in used \cup {NoConn}
  /\ \A c \in Conns : (c \notin used \/ c = accepting) => timesConnected[c] = 0
  /\ \A c \in Conns : timesConnected[c] = 0 => Untouched(c)

ListedIsReading == \A c \in listed : reading[c] # "none"

ServerInv == TypeOK /\ FreshIsUntouched /\ ListedIffConnected /\ ListedIsReading

-----------------------------------------------------------------------------
(* A completed write leaves the writes of the other connections alone. *)
LEMMA WriteDoneType ==
  ASSUME TypeOK, NEW c \in Conns, WriteDone(c)
  PROVE  /\ outgoing' \in [Conns -> Seq(PendingWrite)]
         /\ outgoing[c] # <<>>
         /\ \A d \in Conns \ {c} : outgoing'[d] = outgoing[d]
<1>1. PICK i \in DOMAIN outgoing[c] : outgoing' = [outgoing EXCEPT ![c] = RemoveAt(outgoing[c], i)]
  BY DEF WriteDone
<1>2. outgoing[c] \in Seq(PendingWrite)
  BY DEF TypeOK
<1>3. RemoveAt(outgoing[c], i) \in Seq(PendingWrite)
  BY <1>1, <1>2, WriteTaken
<1>. QED
  BY <1>1, <1>2, <1>3 DEF TypeOK

(* Receiving into packet_ changes what is sent, not which writes are pending. *)
LEMMA OverwriteType ==
  ASSUME TypeOK, NEW c \in Conns
  PROVE  /\ Overwrite(c) \in [Conns -> Seq(PendingWrite)]
         /\ \A d \in Conns : outgoing[d] = <<>> => Overwrite(c)[d] = <<>>
<1>1. SUFFICES ASSUME NEW d \in Conns
               PROVE  /\ Overwrite(c)[d] \in Seq(PendingWrite)
                      /\ outgoing[d] = <<>> => Overwrite(c)[d] = <<>>
  BY DEF Overwrite
<1>2. outgoing[d] \in Seq(PendingWrite)
  BY DEF TypeOK
<1>3. ASSUME NEW i \in DOMAIN outgoing[d]
      PROVE  (IF outgoing[d][i].src = c THEN [outgoing[d][i] EXCEPT !.intact = FALSE]
              ELSE outgoing[d][i]) \in PendingWrite
  <2>0. outgoing[d][i] \in PendingWrite
    BY <1>2
  <2>1. outgoing[d][i] \in [src : Conns \cup {NoConn}, intact : BOOLEAN]
    BY <2>0 DEF PendingWrite
  <2>2. [outgoing[d][i] EXCEPT !.intact = FALSE] \in [src : Conns \cup {NoConn}, intact : BOOLEAN]
    BY <2>1
  <2>. QED
    BY <2>1, <2>2 DEF PendingWrite
<1>4. DOMAIN outgoing[d] = 1 .. Len(outgoing[d]) /\ Len(outgoing[d]) \in Nat
  BY <1>2
<1>5. Overwrite(c)[d] = [i \in DOMAIN outgoing[d] |->
        IF outgoing[d][i].src = c THEN [outgoing[d][i] EXCEPT !.intact = FALSE] ELSE outgoing[d][i]]
  BY DEF Overwrite
<1>6. Overwrite(c)[d] \in Seq(PendingWrite)
  <2>1. Overwrite(c)[d] \in [1 .. Len(outgoing[d]) -> PendingWrite]
    BY <1>3, <1>4, <1>5
  <2>. QED
    BY <1>4, <2>1, SeqDef
<1>7. ASSUME outgoing[d] = <<>> PROVE Overwrite(c)[d] = <<>>
  <2>1. DOMAIN Overwrite(c)[d] = DOMAIN outgoing[d]
    BY <1>5
  <2>2. Len(outgoing[d]) = 0
    BY <1>7
  <2>3. DOMAIN Overwrite(c)[d] = 1 .. 0
    BY <1>4, <2>1, <2>2, Zenon
  <2>4. Len(Overwrite(c)[d]) \in Nat /\ DOMAIN Overwrite(c)[d] = 1 .. Len(Overwrite(c)[d])
    BY <1>6
  <2>5. ASSUME NEW n \in Nat, 1 .. n = 1 .. 0 PROVE n = 0
    <3>1. 1 \notin 1 .. n
      BY <2>5
    <3>. QED
      BY <3>1
  <2>6. Len(Overwrite(c)[d]) = 0
    BY <2>3, <2>4, <2>5, Zenon
  <2>. QED
    BY <1>6, <2>6
<1>. QED
  BY <1>6, <1>7

(* on_received_ sends to connections that have a read pending, or to its own. *)
LEMMA SendToType ==
  ASSUME TypeOK, NEW targets \in SUBSET Conns, NEW src \in Conns \cup {NoConn},
         SendTo(targets, src)
  PROVE  /\ outgoing' \in [Conns -> Seq(PendingWrite)]
         /\ \A d \in Conns \ targets : outgoing'[d] = outgoing[d]
<1>1. PICK queued \in SUBSET targets :
        outgoing' = [c \in Conns |-> IF c \in queued
                                   THEN Append(outgoing[c], [src |-> src, intact |-> TRUE])
                                   ELSE outgoing[c]]
  BY DEF SendTo
<1>2. [src |-> src, intact |-> TRUE] \in PendingWrite
  BY DEF PendingWrite
<1>3. ASSUME NEW d \in Conns
      PROVE  /\ outgoing[d] \in Seq(PendingWrite)
             /\ Append(outgoing[d], [src |-> src, intact |-> TRUE]) \in Seq(PendingWrite)
  BY <1>2 DEF TypeOK
<1>. QED
  BY <1>1, <1>3

(* The next accept waits with a Connection nothing has happened to. *)
LEMMA StartAcceptFresh ==
  ASSUME ServerInv, StartAccept
  PROVE  /\ accepting' \in Conns \cup {NoConn}
         /\ used' \subseteq Conns /\ used \subseteq used'
         /\ accepting' \in used' \cup {NoConn}
         /\ accepting' # NoConn => accepting' \notin used
BY ServerAssumption DEF ServerInv, TypeOK, StartAccept

-----------------------------------------------------------------------------
LEMMA ServerInvInit == ServerInit => ServerInv
<1>. SUFFICES ASSUME ServerInit PROVE ServerInv
  OBVIOUS
<1>1. TypeOK
  BY DEF ServerInit, TypeOK
<1>2. FreshIsUntouched
  BY DEF ServerInit, FreshIsUntouched, Untouched
<1>3. ListedIffConnected /\ ListedIsReading
  BY DEF ServerInit, ListedIffConnected, ListedIsReading
<1>. QED
  BY <1>1, <1>2, <1>3 DEF ServerInv

(* Any handler that reports c disconnected: it was connected before. *)
LEMMA DisconnectStep ==
  ASSUME ServerInv, NEW c \in Conns, timesConnected[c] = 1, FireDisconnected(c),
         UNCHANGED <<accepting, used, timesConnected>>,
         \A d \in Conns \ {c} : reading'[d] = reading[d] /\ (outgoing[d] = <<>> => outgoing'[d] = <<>>)
  PROVE  /\ listed' \subseteq Conns
         /\ isConnected' \in [Conns -> BOOLEAN]
         /\ timesDisconnected' \in [Conns -> Nat]
         /\ FreshIsUntouched'
         /\ ListedIffConnected'
         /\ ListedIsReading'
<1>. USE DEF ServerInv, TypeOK, FireDisconnected
<1>1. /\ listed' \subseteq Conns
      /\ isConnected' \in [Conns -> BOOLEAN]
      /\ timesDisconnected' \in [Conns -> Nat]
  OBVIOUS
<1>2. FreshIsUntouched'
  BY DEF FreshIsUntouched, Untouched
<1>3. ListedIffConnected'
  BY DEF ListedIffConnected
<1>4. ListedIsReading'
  BY DEF ListedIsReading
<1>. QED
  BY <1>1, <1>2, <1>3, <1>4

THEOREM ServerInvStep == ServerInv /\ [ServerNext]_serverVars => ServerInv'
<1>. SUFFICES ASSUME ServerInv, [ServerNext]_serverVars PROVE ServerInv'
  OBVIOUS
<1>. USE DEF ServerInv
<1>0. NoConn \notin Conns
  BY ServerAssumption
<1>1. CASE HandleAccept
  <2>1. accepting \in Conns /\ timesConnected[accepting] = 0 /\ Untouched(accepting)
    BY <1>1 DEF HandleAccept, TypeOK, FreshIsUntouched
  <2>2. timesConnected' = [timesConnected EXCEPT ![accepting] = 1]
    BY <1>1, <2>1 DEF HandleAccept, FireConnected, TypeOK
  <2>3. /\ accepting' \in Conns \cup {NoConn}
        /\ used' \subseteq Conns /\ used \subseteq used'
        /\ accepting' \in used' \cup {NoConn}
        /\ accepting' # NoConn => accepting' \notin used
    BY <1>1, StartAcceptFresh DEF HandleAccept
  <2>4. accepting \in used
    BY <1>0, <2>1 DEF FreshIsUntouched
  <2>5. TypeOK'
    BY <1>1, <2>1, <2>2, <2>3 DEF HandleAccept, FireConnected, TypeOK
  <2>6. FreshIsUntouched'
    BY <1>0, <1>1, <2>1, <2>2, <2>3, <2>4
    DEF HandleAccept, FireConnected, TypeOK, FreshIsUntouched, Untouched
  <2>7. ListedIffConnected'
    BY <1>1, <2>1, <2>2 DEF HandleAccept, FireConnected, TypeOK, ListedIffConnected, Untouched
  <2>8. ListedIsReading'
    BY <1>1, <2>1 DEF HandleAccept, FireConnected, TypeOK, ListedIsReading
  <2>. QED
    BY <2>5, <2>6, <2>7, <2>8
<1>2. CASE HandleAcceptError
  <2>1. /\ accepting' \in Conns \cup {NoConn}
        /\ used' \subseteq Conns /\ used \subseteq used'
        /\ accepting' \in used' \cup {NoConn}
        /\ accepting' # NoConn => accepting' \notin used
    BY <1>2, StartAcceptFresh DEF HandleAcceptError
  <2>2. FreshIsUntouched'
    BY <1>0, <1>2, <2>1 DEF HandleAcceptError, FreshIsUntouched, Untouched
  <2>. QED
    BY <1>2, <2>1, <2>2 DEF HandleAcceptError, TypeOK, ListedIffConnected, ListedIsReading
<1>3. ASSUME NEW c \in Conns, HandleReadHeader(c) PROVE ServerInv'
  <2>1. timesConnected[c] = 1
    BY <1>3 DEF HandleReadHeader, TypeOK, FreshIsUntouched, Untouched
  <2>2. /\ outgoing' \in [Conns -> Seq(PendingWrite)]
        /\ \A d \in Conns : outgoing[d] = <<>> => outgoing'[d] = <<>>
    BY <1>3, OverwriteType DEF HandleReadHeader
  <2>0. /\ reading' \in [Conns -> {"none", "header", "body"}]
        /\ received' \in [Conns -> Nat]
        /\ UNCHANGED <<accepting, used, failed, timesConnected>>
    BY <1>3 DEF HandleReadHeader, TypeOK
  <2>3. CASE FireDisconnected(c)
    <3>1. \A d \in Conns \ {c} : reading'[d] = reading[d] /\ (outgoing[d] = <<>> => outgoing'[d] = <<>>)
      BY <1>3, <2>2 DEF HandleReadHeader, TypeOK
    <3>2. UNCHANGED <<accepting, used, timesConnected>>
      BY <2>0
    <3>4. /\ listed' \subseteq Conns
          /\ isConnected' \in [Conns -> BOOLEAN]
          /\ timesDisconnected' \in [Conns -> Nat]
      BY <2>1, <2>3, <3>1, <3>2, DisconnectStep
    <3>3. TypeOK'
      BY <2>0, <2>2, <3>4 DEF TypeOK
    <3>. QED
      BY <2>1, <2>3, <3>1, <3>2, <3>3, DisconnectStep
  <2>4. CASE UNCHANGED <<listed, isConnected, timesDisconnected>>
    <3>1. TypeOK'
      BY <2>0, <2>2, <2>4 DEF TypeOK
    <3>2. FreshIsUntouched'
      BY <1>3, <2>1, <2>2, <2>4 DEF HandleReadHeader, TypeOK, FreshIsUntouched, Untouched
    <3>3. ListedIffConnected' /\ ListedIsReading'
      BY <1>3, <2>4 DEF HandleReadHeader, TypeOK, ListedIffConnected, ListedIsReading
    <3>. QED
      BY <3>1, <3>2, <3>3
  <2>. QED
    BY <1>3, <2>3, <2>4 DEF HandleReadHeader
<1>4. ASSUME NEW c \in Conns, HandleReadBody(c) PROVE ServerInv'
  <2>1. PICK reaction \in Reactions(c) : SendTo(reaction[1], reaction[2])
    BY <1>4 DEF HandleReadBody
  <2>2. /\ reaction[1] \in SUBSET (listed \cup {c})
        /\ reaction[2] \in Conns \cup {NoConn}
    BY <1>4, <2>1 DEF Reactions, TypeOK
  <2>3. timesConnected[c] = 1 /\ \A d \in listed : timesConnected[d] = 1
    BY <1>4 DEF HandleReadBody, TypeOK, FreshIsUntouched, Untouched, ListedIffConnected
  <2>4. /\ outgoing' \in [Conns -> Seq(PendingWrite)]
        /\ \A d \in Conns \ reaction[1] : outgoing'[d] = outgoing[d]
    BY <2>1, <2>2, SendToType DEF TypeOK
  <2>5. TypeOK'
    BY <1>4, <2>4 DEF HandleReadBody, TypeOK
  <2>6. FreshIsUntouched'
    BY <1>4, <2>2, <2>3, <2>4 DEF HandleReadBody, TypeOK, FreshIsUntouched, Untouched
  <2>7. ListedIffConnected' /\ ListedIsReading'
    BY <1>4 DEF HandleReadBody, TypeOK, ListedIffConnected, ListedIsReading
  <2>. QED
    BY <2>5, <2>6, <2>7
<1>5. ASSUME NEW c \in Conns, HandleReadError(c) PROVE ServerInv'
  <2>1. timesConnected[c] = 1
    BY <1>5 DEF HandleReadError, TypeOK, FreshIsUntouched, Untouched
  <2>2. /\ FireDisconnected(c)
        /\ UNCHANGED <<accepting, used, timesConnected>>
        /\ \A d \in Conns \ {c} : reading'[d] = reading[d] /\ (outgoing[d] = <<>> => outgoing'[d] = <<>>)
    BY <1>5 DEF HandleReadError, TypeOK
  <2>3. TypeOK'
    BY <1>5, <2>1, <2>2, DisconnectStep DEF HandleReadError, TypeOK
  <2>. QED
    BY <2>1, <2>2, <2>3, DisconnectStep
<1>6. ASSUME NEW c \in Conns, HandleWrite(c) PROVE ServerInv'
  <2>1. /\ outgoing' \in [Conns -> Seq(PendingWrite)]
        /\ outgoing[c] # <<>>
        /\ \A d \in Conns \ {c} : outgoing'[d] = outgoing[d]
    BY <1>6, WriteDoneType DEF HandleWrite
  <2>2. FreshIsUntouched'
    BY <1>6, <2>1 DEF HandleWrite, FreshIsUntouched, Untouched
  <2>. QED
    BY <1>6, <2>1, <2>2 DEF HandleWrite, TypeOK, ListedIffConnected, ListedIsReading
<1>7. ASSUME NEW c \in Conns, HandleWriteError(c) PROVE ServerInv'
  <2>1. /\ outgoing' \in [Conns -> Seq(PendingWrite)]
        /\ outgoing[c] # <<>>
        /\ \A d \in Conns \ {c} : outgoing'[d] = outgoing[d]
    BY <1>7, WriteDoneType DEF HandleWriteError
  <2>2. timesConnected[c] = 1
    BY <2>1 DEF TypeOK, FreshIsUntouched, Untouched
  <2>3. /\ FireDisconnected(c)
        /\ UNCHANGED <<accepting, used, timesConnected>>
        /\ \A d \in Conns \ {c} : reading'[d] = reading[d] /\ (outgoing[d] = <<>> => outgoing'[d] = <<>>)
    BY <1>7, <2>1 DEF HandleWriteError
  <2>4. TypeOK'
    BY <1>7, <2>1, <2>2, <2>3, DisconnectStep DEF HandleWriteError, TypeOK
  <2>. QED
    BY <2>2, <2>3, <2>4, DisconnectStep
<1>8. ASSUME NEW c \in Conns, Break(c) PROVE ServerInv'
  BY <1>8 DEF Break, TypeOK, FreshIsUntouched, Untouched, ListedIffConnected, ListedIsReading
<1>9. CASE UNCHANGED serverVars
  BY <1>9 DEF serverVars, TypeOK, FreshIsUntouched, Untouched, ListedIffConnected, ListedIsReading
<1>. QED
  BY <1>1, <1>2, <1>3, <1>4, <1>5, <1>6, <1>7, <1>8, <1>9 DEF ServerNext

(* The inductive invariant holds in every run. *)
THEOREM ServerInvHolds == ServerSafeSpec => []ServerInv
<1>. QED
  BY ServerInvInit, ServerInvStep, PTL DEF ServerSafeSpec

(* Every variable keeps its type, and no Connection is connected twice. *)
THEOREM TypeCorrect == ServerSafeSpec => []TypeOK
<1>1. ServerInv => TypeOK
  BY DEF ServerInv
<1>. QED
  BY <1>1, ServerInvHolds, PTL

(* Every Connection that connection_list_ points to is held by a pending read *)
(* (SocketServer.hpp:181-203 follow those bare pointers).                    *)
THEOREM ListIsSafeToFollow == ServerSafeSpec => []ListedIsAlive
<1>1. ServerInv => ListedIsAlive
  BY DEF ServerInv, TypeOK, ListedIsReading, ListedIsAlive, Held
<1>. QED
  BY <1>1, ServerInvHolds, PTL

(* A connection is listed exactly from its on_connected_ to its first         *)
(* on_disconnected_, and is_connected_ says so.                              *)
THEOREM ListTellsConnected == ServerSafeSpec => []ListedIffConnected
<1>1. ServerInv => ListedIffConnected
  BY DEF ServerInv
<1>. QED
  BY <1>1, ServerInvHolds, PTL
=============================================================================
