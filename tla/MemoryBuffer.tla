---------------------------- MODULE MemoryBuffer ----------------------------
(***************************************************************************)
(* ryulib/MemoryBuffer.hpp: a byte stream kept as a queue of the Buffers   *)
(* in which it was written; read(n) glues n bytes together across Buffers. *)
(* A byte is its position in the stream of everything ever written, so a   *)
(* Buffer is the position of its offset_ and its remaining size_.  The     *)
(* loop of read is one step per iteration.                                 *)
(***************************************************************************)
EXTENDS Integers, Sequences

CONSTANTS
  WriteSizes,  \* the sizes callers write; 0 happens (AudioResampling.hpp:143)
  ReadSizes,   \* the sizes callers read: frame sizes, never 0
  MaxWritten,  \* bound: number of bytes written
  MaxBuffers   \* bound: number of Buffers in the queue

ASSUME BufferAssumption ==
  /\ WriteSizes \subseteq Nat
  /\ ReadSizes \subseteq Nat \ {0}
  /\ MaxWritten \in Nat
  /\ MaxBuffers \in Nat

VARIABLES
  queue,    \* queue_, of [pos, size] records
  size,     \* size_
  written,  \* history: position after the last byte written
  next,     \* history: position of the byte the next read must start with
  wanted,   \* bytes_to_copy of the read in progress, -1 outside a read
  result,   \* the positions copied by the read in progress, or the last one
  asked     \* the size asked for by that read

vars == <<queue, size, written, next, wanted, result, asked>>

Init ==
  /\ queue = <<>>
  /\ size = 0
  /\ written = 0
  /\ next = 0
  /\ wanted = -1
  /\ result = <<>>
  /\ asked = 0

Idle == wanted = -1

Write(n) ==
  /\ Idle
  /\ written + n <= MaxWritten
  /\ Len(queue) < MaxBuffers
  /\ queue' = Append(queue, [pos |-> written, size |-> n])
  /\ size' = size + n
  /\ written' = written + n
  /\ UNCHANGED <<next, wanted, result, asked>>

(* the bytes in the buffer are given up *)
Clear ==
  /\ Idle
  /\ queue' = <<>>
  /\ size' = 0
  /\ next' = written
  /\ UNCHANGED <<written, wanted, result, asked>>

(* a read of more than there is returns nullptr and changes nothing *)
CanRead(n) == n <= size

ReadBegin(n) ==
  /\ Idle
  /\ CanRead(n)
  /\ size' = size - n
  /\ wanted' = n
  /\ asked' = n
  /\ result' = <<>>
  /\ UNCHANGED <<queue, written, next>>

(* Buffer::read *)
Copied(buffer) == IF buffer.size < wanted THEN buffer.size ELSE wanted

Copy_KeepOffsetMutant(buffer) ==
  /\ queue' = [queue EXCEPT ![1] = [pos |-> buffer.pos, size |-> buffer.size - Copied(buffer)]]
  /\ result' = result \o [i \in 1 .. Copied(buffer) |-> buffer.pos + i - 1]
  /\ wanted' = wanted - Copied(buffer)

(* copied bytes leave the front Buffer, which stays in the queue even if empty *)
Copy(buffer) ==
  /\ queue' = [queue EXCEPT ![1] = [pos |-> buffer.pos + Copied(buffer),
                                    size |-> buffer.size - Copied(buffer)]]
  /\ result' = result \o [i \in 1 .. Copied(buffer) |-> buffer.pos + i - 1]
  /\ wanted' = wanted - Copied(buffer)

(* one iteration: drop an empty front Buffer, or copy from it *)
ReadStep ==
  /\ wanted > 0
  /\ queue # <<>>
  /\ IF Copied(Head(queue)) <= 0
     THEN queue' = Tail(queue) /\ UNCHANGED <<result, wanted>>
     ELSE Copy(Head(queue))
  /\ UNCHANGED <<size, written, next, asked>>

(* the loop is left when enough was copied, or when no Buffer is left *)
ReadReturn ==
  /\ ~Idle
  /\ wanted <= 0 \/ queue = <<>>
  /\ wanted' = -1
  /\ next' = next + asked
  /\ UNCHANGED <<queue, size, written, result, asked>>

Next ==
  \/ \E n \in WriteSizes : Write(n)
  \/ \E n \in ReadSizes : ReadBegin(n)
  \/ ReadStep
  \/ ReadReturn
  \/ Clear

Spec == Init /\ [][Next]_vars

-----------------------------------------------------------------------------
(* Properties *)

(* Every variable keeps its type. *)
TypeOK ==
  /\ queue \in Seq([pos : Nat, size : Nat])
  /\ size \in Nat
  /\ written \in Nat
  /\ next \in Nat
  /\ wanted \in Int
  /\ result \in Seq(Nat)
  /\ asked \in Nat

(* The stream position the buffer continues at.                              *)
Front == next + (IF Idle THEN 0 ELSE asked - wanted)

(* The Buffers lie end to end: no byte between the read position and the      *)
(* write position is missing, repeated or out of place in the queue.         *)
BuffersContiguous ==
  /\ queue = <<>> => Front = written
  /\ queue # <<>> =>
       /\ queue[1].pos = Front
       /\ queue[Len(queue)].pos + queue[Len(queue)].size = written
  /\ \A i \in 1 .. Len(queue) - 1 : queue[i + 1].pos = queue[i].pos + queue[i].size

(* size_, kept beside the queue, is the number of bytes in it that no read    *)
(* has laid claim to: read() relies on it to find its bytes.                 *)
SizeMatches == size = written - next - (IF Idle THEN 0 ELSE asked)

(* A read that was not refused returns exactly the bytes it asked for: the    *)
(* ones that follow the last byte of the read before it, none missing,       *)
(* however the writes were cut into Buffers.                                 *)
ReadIsExact == [][ReadReturn => result = [i \in 1 .. asked |-> next + i - 1]]_vars
=============================================================================
