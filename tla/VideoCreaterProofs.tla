------------------------- MODULE VideoCreaterProofs -------------------------
(***************************************************************************)
(* Proofs about VideoCreater and about the MemoryBuffer it extends, for    *)
(* any sizes, durations and bounds.  The first part is about a MemoryBuffer*)
(* alone and uses nothing but BufferAssumption.                            *)
(***************************************************************************)
EXTENDS VideoCreater, SequenceTheorems, TLAPS

(***************************************************************************)
(* What the read in progress has copied: the first asked - wanted bytes    *)
(* after next.  With BuffersContiguous and SizeMatches this is inductive.  *)
(***************************************************************************)
CopiedSoFar ==
  ~Idle =>
    /\ asked > 0
    /\ wanted \in 0 .. asked
    /\ Len(result) = asked - wanted
    /\ \A i \in 1 .. asked - wanted : result[i] = next + i - 1

BufferInv == TypeOK /\ BuffersContiguous /\ SizeMatches /\ CopiedSoFar

(* A MemoryBuffer begins empty.                                              *)
LEMMA BufferInit == Init => BufferInv
BY BufferAssumption, EmptySeq
   DEF Init, BufferInv, TypeOK, BuffersContiguous, SizeMatches, CopiedSoFar, Front, Idle

(* A Buffer is added at the end of the stream.                               *)
LEMMA WriteBufferInv ==
  ASSUME BufferInv, NEW n \in WriteSizes, Write(n)
  PROVE  BufferInv'
<1> USE BufferAssumption DEF BufferInv, Write, Idle
<1>1. TypeOK'
  BY DEF TypeOK
<1>2. Len(queue') = Len(queue) + 1
  BY DEF TypeOK
<1>3. queue'[Len(queue')] = [pos |-> written, size |-> n]
  BY DEF TypeOK
<1>4. \A i \in 1 .. Len(queue) : queue'[i] = queue[i]
  BY DEF TypeOK
<1>5. BuffersContiguous'
  <2>1. CASE queue = <<>>
    BY <2>1, <1>2, <1>3 DEF TypeOK, BuffersContiguous, Front
  <2>2. CASE queue # <<>>
    <3>1. Len(queue) \in Nat /\ Len(queue) > 0
      BY <2>2, EmptySeq DEF TypeOK
    <3>2. queue' # <<>>
      BY <1>2, <3>1
    <3>3. queue'[1].pos = Front'
      BY <3>1, <1>4, <2>2 DEF TypeOK, BuffersContiguous, Front
    <3>4. queue'[Len(queue')].pos + queue'[Len(queue')].size = written'
      BY <1>3
    <3>5. \A i \in 1 .. Len(queue') - 1 : queue'[i + 1].pos = queue'[i].pos + queue'[i].size
      <4> TAKE i \in 1 .. Len(queue') - 1
      <4>1. CASE i = Len(queue)
        BY <4>1, <1>2, <1>3, <1>4, <2>2, <3>1 DEF BuffersContiguous
      <4>2. CASE i < Len(queue)
        BY <4>2, <1>2, <1>4, <3>1 DEF BuffersContiguous
      <4>3. QED
        BY <4>1, <4>2, <1>2, <3>1
    <3>6. QED
      BY <3>2, <3>3, <3>4, <3>5 DEF BuffersContiguous
  <2>3. QED
    BY <2>1, <2>2
<1>6. SizeMatches' /\ CopiedSoFar'
  BY DEF TypeOK, SizeMatches, CopiedSoFar
<1>7. QED
  BY <1>1, <1>5, <1>6

(* clear() gives up everything between the read and the write position.      *)
LEMMA ClearBufferInv == BufferInv /\ Clear => BufferInv'
BY EmptySeq DEF BufferInv, Clear, Idle, TypeOK, BuffersContiguous, SizeMatches, CopiedSoFar, Front

(* A read lays claim to its bytes at once.                                   *)
LEMMA ReadBeginBufferInv ==
  ASSUME BufferInv, NEW n \in ReadSizes, ReadBegin(n)
  PROVE  BufferInv'
BY BufferAssumption, EmptySeq
   DEF BufferInv, ReadBegin, CanRead, Idle, TypeOK, BuffersContiguous, SizeMatches,
       CopiedSoFar, Front

(* An iteration that finds the front Buffer empty drops it.                  *)
LEMMA DropBufferInv ==
  ASSUME BufferInv, wanted > 0, queue # <<>>, Head(queue).size = 0,
         queue' = Tail(queue), UNCHANGED <<result, wanted, size, written, next, asked>>
  PROVE  BufferInv'
<1> USE DEF BufferInv, Idle
<1>1. /\ Len(queue) \in Nat /\ Len(queue) > 0
      /\ Head(queue) = queue[1]
      /\ queue' \in Seq([pos : Nat, size : Nat])
      /\ Len(queue') = Len(queue) - 1
      /\ \A i \in 1 .. Len(queue') : queue'[i] = queue[i + 1]
  BY HeadTailProperties, EmptySeq DEF TypeOK
<1>2. TypeOK' /\ SizeMatches' /\ CopiedSoFar' /\ Front' = Front
  BY <1>1 DEF TypeOK, SizeMatches, CopiedSoFar, Front
<1>3. CASE Len(queue) = 1
  <2>1. queue' = <<>>
    <3>1. Len(queue') = 0
      BY <1>1, <1>3
    <3>2. \A q \in Seq([pos : Nat, size : Nat]) : Len(q) = 0 => q = <<>>
      BY EmptySeq
    <3>. QED
      BY <1>1, <3>1, <3>2, Zenon
  <2>2. Front = written
    BY <1>1, <1>3 DEF TypeOK, BuffersContiguous, Front
  <2>3. QED
    BY <2>1, <2>2, <1>2, EmptySeq DEF BuffersContiguous
<1>4. CASE Len(queue) > 1
  <2>1. queue' # <<>>
    <3>1. Len(queue') > 0
      BY <1>1, <1>4
    <3>2. QED
      BY <3>1, EmptySeq
  <2>2. queue[1] \in [pos : Nat, size : Nat] /\ queue[1].size = 0
    <3>1. queue \in Seq([pos : Nat, size : Nat]) /\ 1 \in 1 .. Len(queue)
      BY <1>1 DEF TypeOK
    <3>2. queue[1] \in [pos : Nat, size : Nat]
      BY <3>1, ElementOfSeq
    <3>3. QED
      BY <1>1, <3>2
  <2>3. queue[2].pos = queue[1].pos + queue[1].size
    BY <1>1, <1>4 DEF BuffersContiguous
  <2>4. queue'[1].pos = Front'
    BY <1>1, <1>2, <1>4, <2>2, <2>3 DEF BuffersContiguous
  <2>5. queue'[Len(queue')] = queue[Len(queue)]
    BY <1>1, <1>4
  <2>6. queue'[Len(queue')].pos + queue'[Len(queue')].size = written'
    BY <1>1, <2>5 DEF BuffersContiguous
  <2>7. \A i \in 1 .. Len(queue') - 1 : queue'[i + 1].pos = queue'[i].pos + queue'[i].size
    BY <1>1, <1>4 DEF BuffersContiguous
  <2>8. QED
    BY <1>2, <2>1, <2>4, <2>6, <2>7 DEF BuffersContiguous
<1>5. QED
  BY <1>1, <1>3, <1>4

(* An iteration that copies moves the front of the stream by what it copied.  *)
LEMMA CopyBufferInv ==
  ASSUME BufferInv, wanted > 0, queue # <<>>, Copied(Head(queue)) > 0,
         Copy(Head(queue)), UNCHANGED <<size, written, next, asked>>
  PROVE  BufferInv'
<1> DEFINE c == Copied(Head(queue))
<1> DEFINE R == [i \in 1 .. c |-> queue[1].pos + i - 1]
<1>1. /\ Len(queue) \in Nat /\ Len(queue) > 0
      /\ Head(queue) = queue[1]
      /\ queue[1] \in [pos : Nat, size : Nat]
  <2>1. queue \in Seq([pos : Nat, size : Nat])
    BY DEF BufferInv, TypeOK
  <2>2. Len(queue) \in Nat /\ Len(queue) > 0 /\ Head(queue) = queue[1]
    BY <2>1, EmptySeq
  <2>3. QED
    <3>1. 1 \in 1 .. Len(queue)
      BY <2>2
    <3>2. queue[1] \in [pos : Nat, size : Nat]
      BY <2>1, <3>1, ElementOfSeq
    <3>3. QED
      BY <2>2, <3>2
<1>2. /\ c \in Nat /\ c > 0 /\ c <= wanted /\ c <= queue[1].size
      /\ queue[1].pos + c \in Nat /\ queue[1].size - c \in Nat
  BY <1>1 DEF BufferInv, TypeOK, Copied
<1>3. /\ queue' \in Seq([pos : Nat, size : Nat])
      /\ Len(queue') = Len(queue)
      /\ queue'[1] = [pos |-> queue[1].pos + c, size |-> queue[1].size - c]
      /\ \A i \in 2 .. Len(queue) : queue'[i] = queue[i]
  <2> DEFINE b == [pos |-> queue[1].pos + c, size |-> queue[1].size - c]
  <2>1. b \in [pos : Nat, size : Nat]
    BY <1>2
  <2>2. queue' = [queue EXCEPT ![1] = b]
    BY <1>1 DEF Copy
  <2>3. queue \in Seq([pos : Nat, size : Nat]) /\ 1 \in 1 .. Len(queue)
    BY <1>1 DEF BufferInv, TypeOK
  <2> HIDE DEF b
  <2>4. QED
    BY <2>1, <2>2, <2>3, ExceptSeq DEF b
<1>4. R \in Seq(Nat) /\ Len(R) = c /\ \A i \in 1 .. c : R[i] = queue[1].pos + i - 1
  <2>1. \A i \in 1 .. c : queue[1].pos + i - 1 \in Nat
    BY <1>1, <1>2
  <2>2. R \in [1 .. c -> Nat]
    BY <2>1
  <2>3. c \in Nat /\ \A i \in 1 .. c : R[i] = queue[1].pos + i - 1
    BY <1>2
  <2> HIDE DEF R, c
  <2>4. R \in Seq(Nat) /\ Len(R) = c
    BY <2>2, <2>3
  <2>5. QED
    BY <2>3, <2>4
<1>5. result' = result \o R /\ wanted' = wanted - c
  BY <1>1 DEF Copy
<1> HIDE DEF c, R
<1>6. /\ result' \in Seq(Nat)
      /\ Len(result') = Len(result) + c
      /\ \A i \in 1 .. Len(result) : result'[i] = result[i]
      /\ \A i \in Len(result) + 1 .. Len(result) + c :
           result'[i] = queue[1].pos + (i - Len(result)) - 1
  <2>1. result \in Seq(Nat) /\ Len(result) \in Nat
    BY DEF BufferInv, TypeOK
  <2>2. /\ result \o R \in Seq(Nat)
        /\ Len(result \o R) = Len(result) + Len(R)
        /\ \A i \in 1 .. Len(result) + Len(R) : (result \o R)[i] =
             IF i <= Len(result) THEN result[i] ELSE R[i - Len(result)]
    BY <2>1, <1>4, ConcatProperties
  <2>3. QED
    BY <2>1, <2>2, <1>2, <1>4, <1>5
<1>7. TypeOK'
  BY <1>2, <1>3, <1>5, <1>6 DEF BufferInv, TypeOK
<1>8. queue[1].pos = next + asked - wanted
  BY <1>1 DEF BufferInv, TypeOK, BuffersContiguous, Front, Idle
<1>9. ~Idle /\ ~Idle' /\ wanted' \in 0 .. asked
  BY <1>2, <1>5 DEF BufferInv, TypeOK, CopiedSoFar, Idle
<1>10. CopiedSoFar'
  <2>1. Len(result) = asked - wanted /\ asked > 0
    BY <1>9 DEF BufferInv, CopiedSoFar
  <2>2. \A i \in 1 .. asked - wanted + c : result'[i] = next + i - 1
    <3> TAKE i \in 1 .. asked - wanted + c
    <3>1. asked \in Nat /\ wanted \in Int /\ next \in Nat /\ c \in Nat
      BY <1>2 DEF BufferInv, TypeOK
    <3>2. CASE i <= asked - wanted
      BY <2>1, <3>1, <3>2, <1>6, <1>9 DEF BufferInv, CopiedSoFar
    <3>3. CASE i > asked - wanted
      <4>1. i \in Len(result) + 1 .. Len(result) + c
        BY <2>1, <3>1, <3>3
      <4>2. result'[i] = queue[1].pos + (i - Len(result)) - 1
        BY <4>1, <1>6
      <4>3. QED
        BY <2>1, <3>1, <4>2, <1>8
    <3>4. QED
      BY <3>1, <3>2, <3>3
  <2>3. QED
    <3>1. asked' = asked /\ next' = next /\ asked \in Nat /\ wanted \in Int /\ c \in Nat
      BY <1>2 DEF BufferInv, TypeOK
    <3>2. asked' - wanted' = asked - wanted + c
      BY <3>1, <1>5
    <3>3. QED
      BY <2>1, <2>2, <3>1, <3>2, <1>6, <1>9 DEF CopiedSoFar
<1>11. SizeMatches'
  BY <1>9 DEF BufferInv, SizeMatches
<1>12. Front' = Front + c
  BY <1>2, <1>5, <1>9 DEF BufferInv, TypeOK, Front
<1>13. BuffersContiguous'
  <2>1. queue' # <<>>
    BY <1>1, <1>3, EmptySeq
  <2>2. queue'[1].pos = Front'
    BY <1>1, <1>2, <1>3, <1>12 DEF BufferInv, BuffersContiguous
  <2>3. queue'[1].pos + queue'[1].size = queue[1].pos + queue[1].size
    BY <1>1, <1>2, <1>3
  <2>4. queue'[Len(queue')].pos + queue'[Len(queue')].size = written'
    BY <1>1, <1>3, <2>3 DEF BufferInv, BuffersContiguous
  <2>5. \A i \in 1 .. Len(queue') - 1 : queue'[i + 1].pos = queue'[i].pos + queue'[i].size
    <3> TAKE i \in 1 .. Len(queue') - 1
    <3>1. queue[i + 1].pos = queue[i].pos + queue[i].size
      BY <1>1, <1>3 DEF BufferInv, BuffersContiguous
    <3>2. queue'[i + 1] = queue[i + 1]
      BY <1>1, <1>3
    <3>3. queue'[i].pos + queue'[i].size = queue[i].pos + queue[i].size
      BY <1>1, <1>3, <2>3, SMTT(30)
    <3>4. QED
      BY <3>1, <3>2, <3>3
  <2>6. QED
    BY <2>1, <2>2, <2>4, <2>5 DEF BuffersContiguous
<1>14. QED
  BY <1>7, <1>10, <1>11, <1>13 DEF BufferInv

(* The loop of read ends with all its bytes copied, never for want of Buffers *)
LEMMA ReturnsWithAll ==
  ASSUME BufferInv, ReadReturn
  PROVE  wanted = 0
BY DEF BufferInv, ReadReturn, TypeOK, BuffersContiguous, SizeMatches, CopiedSoFar, Front, Idle

(* So the next read begins where it ended.                                   *)
LEMMA ReadReturnBufferInv == BufferInv /\ ReadReturn => BufferInv'
<1> SUFFICES ASSUME BufferInv, ReadReturn PROVE BufferInv'
  OBVIOUS
<1>1. wanted = 0 /\ Idle' /\ ~Idle
  BY ReturnsWithAll DEF ReadReturn, Idle
<1>2. TypeOK' /\ SizeMatches' /\ CopiedSoFar'
  BY <1>1 DEF BufferInv, ReadReturn, TypeOK, SizeMatches, CopiedSoFar
<1>3. Front' = Front
  BY <1>1 DEF BufferInv, ReadReturn, TypeOK, Front
<1>4. BuffersContiguous'
  BY <1>3 DEF BufferInv, ReadReturn, BuffersContiguous
<1>5. QED
  BY <1>2, <1>4 DEF BufferInv

(* Every call of a MemoryBuffer keeps its invariant.                         *)
LEMMA StepBufferInv == BufferInv /\ [Next]_vars => BufferInv'
<1> SUFFICES ASSUME BufferInv, [Next]_vars PROVE BufferInv'
  OBVIOUS
<1>1. CASE ReadStep
  <2>1. CASE Copied(Head(queue)) <= 0
    <3>1. Head(queue) \in [pos : Nat, size : Nat]
      BY <1>1, HeadTailProperties DEF BufferInv, TypeOK, ReadStep
    <3>2. Head(queue).size = 0
      BY <1>1, <2>1, <3>1 DEF ReadStep, Copied, BufferInv, TypeOK
    <3>3. QED
      BY <1>1, <2>1, <3>2, DropBufferInv DEF ReadStep
  <2>2. CASE ~(Copied(Head(queue)) <= 0)
    <3>1. Head(queue) \in [pos : Nat, size : Nat]
      BY <1>1, HeadTailProperties DEF BufferInv, TypeOK, ReadStep
    <3>2. Copied(Head(queue)) > 0
      BY <2>2, <3>1 DEF Copied, BufferInv, TypeOK
    <3>3. QED
      BY <1>1, <2>2, <3>2, CopyBufferInv DEF ReadStep
  <2>3. QED
    BY <2>1, <2>2
<1>2. CASE UNCHANGED vars
  BY <1>2 DEF vars, BufferInv, TypeOK, BuffersContiguous, SizeMatches, CopiedSoFar, Front, Idle
<1>3. QED
  BY <1>1, <1>2, WriteBufferInv, ClearBufferInv, ReadBeginBufferInv, ReadReturnBufferInv DEF Next

(* The invariant of a MemoryBuffer alone.                                    *)
LEMMA InvariantHolds == Spec => []BufferInv
BY BufferInit, StepBufferInv, PTL DEF Spec

(* Types of the buffer's state (MemoryBuffer.hpp:48-51,105-107).             *)
THEOREM TypeCorrect == Spec => []TypeOK
<1>1. BufferInv => TypeOK
  BY DEF BufferInv
<1>2. QED
  BY InvariantHolds, <1>1, PTL

(* Whatever sizes are written and read, the Buffers in the queue are the      *)
(* unread part of the stream, end to end.                                    *)
THEOREM Contiguous == Spec => []BuffersContiguous
<1>1. BufferInv => BuffersContiguous
  BY DEF BufferInv
<1>2. QED
  BY InvariantHolds, <1>1, PTL

(* The counter size_ agrees with the queue after every write, read and clear *)
THEOREM SizeIsRight == Spec => []SizeMatches
<1>1. BufferInv => SizeMatches
  BY DEF BufferInv
<1>2. QED
  BY InvariantHolds, <1>1, PTL

(* Every read that is not refused returns exactly the next bytes of the       *)
(* stream: the loop of MemoryBuffer.hpp:87-100 never runs out of Buffers.    *)
THEOREM ReadsAreExact == Spec => ReadIsExact
<1>1. BufferInv /\ [Next]_vars =>
        [ReadReturn => result = [i \in 1 .. asked |-> next + i - 1]]_vars
  <2> SUFFICES ASSUME BufferInv, ReadReturn
               PROVE result = [i \in 1 .. asked |-> next + i - 1]
    OBVIOUS
  <2>1. wanted = 0
    BY ReturnsWithAll
  <2>2. /\ result \in Seq(Nat) /\ asked \in Nat /\ Len(result) = asked
        /\ \A i \in 1 .. asked : result[i] = next + i - 1
    BY <2>1 DEF BufferInv, TypeOK, CopiedSoFar, Idle
  <2>3. result = [i \in 1 .. asked |-> result[i]]
    BY <2>2, LenProperties
  <2>4. QED
    BY <2>2, <2>3
<1>2. QED
  BY InvariantHolds, <1>1, PTL DEF Spec, ReadIsExact

-----------------------------------------------------------------------------
(* What a VideoCreater does with its buffer *)

(* audio_buffer is only read by writeAudioPacket, a frame at a time *)
ReadsFrames == ~Idle => writing /\ asked = FrameSize

(* the bytes that were written and belong to no frame that was dealt with *)
Unread == size + (IF Idle THEN 0 ELSE asked)

CountsOK ==
  /\ {videoPts, audioPts, samples, uncounted} \subseteq Nat
  /\ encoded \in Seq(Nat)
  /\ lost \subseteq Nat

(* a frame that was dealt with lies before next, and only a failed write       *)
(* leaves as much as a frame in the buffer                                   *)
FramesInv ==
  /\ next = FrameSize * (next \div FrameSize)
  /\ \A i \in 1 .. Len(encoded) : encoded[i] < next
  /\ \A f \in lost : f < next
  /\ \A i \in 1 .. Len(encoded) - 1 : encoded[i] < encoded[i + 1]
  /\ \A i \in 1 .. Len(encoded) : encoded[i] \notin lost
  /\ {encoded[i] : i \in DOMAIN encoded} \cup lost = {FrameSize * k : k \in 0 .. (next \div FrameSize) - 1}
  /\ (~writing /\ lost = {}) => size < FrameSize

MostFrames == (CHOOSE n \in WriteSizes : \A m \in WriteSizes : m <= n) \div FrameSize + 1

(* the second part counts the frames that are still in the buffer as written *)
TurnsInv ==
  turns =>
    /\ audioPts <= samples + uncounted
    /\ videoPts * VideoUnit <= audioPts * AudioUnit + VideoUnit
    /\ lost = {} =>
         /\ samples = audioPts
         /\ \A k \in Nat : FrameSize * k <= Unread =>
              audioPts * AudioUnit + k * AudioUnit <= videoPts * VideoUnit + AudioUnit * MostFrames

-----------------------------------------------------------------------------
(* What a VideoCreater holds *)

(* what has been acquired when open() is that far, if nothing failed *)
HeldBefore(s) ==
  CASE s \in {"hardware", "software"} -> {"oc"}
    [] s = "videoStream" -> {"oc", "looseCtx", "sws"}
    [] s = "video"       -> {"oc", "sws", "videoCtx"}
    [] s = "audioStream" -> {"oc", "sws", "videoCtx", "videoFrame", "videoTmp"}
    [] s = "audio"       -> {"oc", "sws", "videoCtx", "videoFrame", "videoTmp", "audioCtx"}
    [] s = "file"        -> {"oc", "sws", "videoCtx", "videoFrame", "videoTmp", "audioCtx",
                             "audioFrame", "audioTmp", "swr"}
    [] s = "opened"      -> {"oc", "sws", "videoCtx", "videoFrame", "videoTmp", "audioCtx",
                             "audioFrame", "audioTmp", "swr", "pb"}
    [] OTHER             -> {}

HeldInv ==
  /\ header => state \in {"opened", "undefined"}
  /\ lib = "ryulib" => "looseCtx" \notin held /\ state \notin {"oc", "hardware", "software"}
  /\ behaved =>
       /\ leaked \subseteq {"frame"}
       /\ ~unfinished
       /\ state # "failed"
       /\ state # "undefined" => held \subseteq HeldBefore(state)
       /\ state \notin {"fresh", "closed", "oc", "undefined"} => "oc" \in held

CreaterInv == BufferInv /\ CountsOK /\ ReadsFrames /\ FramesInv /\ TurnsInv /\ HeldInv
-----------------------------------------------------------------------------
(* Multiplication as the proofs below need it. *)
LEMMA Products ==
  ASSUME NEW a \in Nat, NEW b \in Nat, NEW c \in Nat
  PROVE  /\ a * c \in Nat
         /\ (a + b) * c = a * c + b * c
         /\ (a + 1) * c = a * c + c
         /\ a <= b => a * c <= b * c
         /\ a * c = c * a
OBVIOUS

(* Division as the proofs below need it. *)
LEMMA Quotient ==
  ASSUME NEW f \in Nat \ {0}, NEW n \in Nat
  PROVE  /\ n \div f \in Nat
         /\ f * (n \div f) <= n
         /\ n < f * ((n \div f) + 1)
OBVIOUS

(* The quotient is the number of whole frames.                               *)
LEMMA QuotientIs ==
  ASSUME NEW f \in Nat \ {0}, NEW n \in Nat, NEW k \in Nat
  PROVE  /\ (f * k) \div f = k
         /\ (f * k <= n) => k <= n \div f
OBVIOUS

(* A frame has a size, the one that is read.                                 *)
LEMMA FrameSizeNat == FrameSize \in Nat \ {0} /\ FrameSize \in ReadSizes
BY BufferAssumption, FrameAssumption

-----------------------------------------------------------------------------
(* Every step is one of four kinds. *)

(* nothing is written or read *)
NoAudio ==
  /\ UNCHANGED <<vars, writing, audioPts, samples, encoded, lost, uncounted>>
  /\ \/ UNCHANGED <<videoPts, turns>>
     \/ videoPts' \in {videoPts, videoPts + 1} /\ turns' = (turns /\ IsVideoTurn)

(* an iteration of a loop over frames, or of a read, before a frame is complete *)
InAudio ==
  /\ writing
  /\ UNCHANGED <<videoPts, turns, audioPts, samples, encoded, lost, uncounted>>
  /\ \/ ReadBegin(FrameSize) /\ UNCHANGED writing
     \/ ReadStep /\ UNCHANGED writing
     \/ Idle /\ size < FrameSize /\ writing' = FALSE /\ UNCHANGED vars

(* a frame is given to the encoder or lost *)
FrameDone ==
  /\ writing
  /\ \E pts, count \in {0, 1}, given \in BOOLEAN :
       Frame(pts, count, given) /\ (given => pts = 1 /\ count = 1)

(* A step of either class is of one of these kinds, or writes a packet.      *)
LEMMA StepKinds ==
  ASSUME [CreaterNext]_allVars, TypeOK, CountsOK
  PROVE  NoAudio \/ InAudio \/ FrameDone \/ \E n \in WriteSizes : WriteAudioPacket(n)
<1>. USE DEF trackVars, objectVars
<1>1. CASE OpenFfmpeg
  BY <1>1 DEF OpenFfmpeg, Open, AllocOutput, OpenVideo, UseSoftware, AddVideoStream, AddAudioStream,
              OpenAudio, OpenFile, Stage, NoAudio
<1>2. CASE OpenRyulib
  BY <1>2 DEF OpenRyulib, Construct, AddVideoStream_ryulib, OpenVideo_ryulib, AddAudioStream_ryulib,
              OpenAudio_ryulib, ThrowChannels, OpenFile_ryulib, Stage, NoAudio
<1>3. CASE WriteBitmap \/ WriteBitmap_ryulib
  BY <1>3 DEF WriteBitmap, WriteBitmap_ryulib, Bitmap, NoAudio, CountsOK
<1>4. CASE Misuse \/ Close \/ Destroy_ryulib
  BY <1>4 DEF Misuse, Close, Destroy_ryulib, NoAudio
<1>5. CASE AudioLoop
  <2>. writing
    BY <1>5 DEF AudioLoop
  <2>1. CASE ReadFrame \/ (ReadStep /\ UNCHANGED <<objectVars, trackVars, writing>>)
    BY <2>1 DEF ReadFrame, InAudio
  <2>3. CASE WriteReturn
    <3>1. size < FrameSize
      BY <2>3, FrameSizeNat DEF WriteReturn, CanRead, TypeOK
    <3>. QED
      BY <2>3, <3>1 DEF WriteReturn, InAudio
  <2>2. CASE DoWriteAudioPacket \/ DoWriteAudioPacket_ryulib
    BY <1>5, <2>2 DEF AudioLoop, DoWriteAudioPacket, DoWriteAudioPacket_ryulib, FrameDone
  <2>. QED
    BY <1>5, <2>1, <2>2, <2>3 DEF AudioLoop
<1>6. CASE UNCHANGED allVars
  BY <1>6 DEF allVars, NoAudio
<1>. QED
  BY <1>1, <1>2, <1>3, <1>4, <1>5, <1>6 DEF CreaterNext

(* The buffer of a VideoCreater is a MemoryBuffer. *)
LEMMA BufferMoves ==
  ASSUME [CreaterNext]_allVars, TypeOK, CountsOK
  PROVE  [Next]_vars
<1>1. CASE NoAudio
  BY <1>1 DEF NoAudio
<1>2. CASE InAudio
  BY <1>2, FrameSizeNat DEF InAudio, Next
<1>3. CASE FrameDone
  BY <1>3 DEF FrameDone, Frame, Next
<1>4. CASE \E n \in WriteSizes : WriteAudioPacket(n)
  BY <1>4 DEF WriteAudioPacket, Next
<1>. QED
  BY <1>1, <1>2, <1>3, <1>4, StepKinds

(* Only writeAudioPacket reads, and only frames.                             *)
LEMMA ReadsFramesStep == TypeOK /\ CountsOK /\ ReadsFrames /\ [CreaterNext]_allVars => ReadsFrames'
<1>. SUFFICES ASSUME TypeOK, CountsOK, ReadsFrames, [CreaterNext]_allVars PROVE ReadsFrames'
  OBVIOUS
<1>1. CASE NoAudio
  BY <1>1 DEF NoAudio, ReadsFrames, vars, Idle
<1>2. CASE InAudio
  <2>1. CASE ReadBegin(FrameSize) /\ UNCHANGED writing
    BY <1>2, <2>1 DEF InAudio, ReadsFrames, ReadBegin
  <2>2. CASE ReadStep /\ UNCHANGED writing
    BY <1>2, <2>2 DEF InAudio, ReadsFrames, ReadStep, Idle, TypeOK
  <2>3. CASE Idle /\ UNCHANGED vars
    BY <2>3 DEF ReadsFrames, vars, Idle
  <2>. QED
    BY <1>2, <2>1, <2>2, <2>3 DEF InAudio
<1>3. CASE FrameDone
  BY <1>3 DEF FrameDone, Frame, ReadsFrames, Idle, ReadReturn
<1>4. CASE \E n \in WriteSizes : WriteAudioPacket(n)
  BY <1>4 DEF WriteAudioPacket, ReadsFrames, Idle, Write
<1>. QED
  BY <1>1, <1>2, <1>3, <1>4, StepKinds

(* Every count stays a number.                                               *)
LEMMA CountsStep == TypeOK /\ CountsOK /\ [CreaterNext]_allVars => CountsOK'
<1>. SUFFICES ASSUME TypeOK, CountsOK, [CreaterNext]_allVars PROVE CountsOK'
  OBVIOUS
<1>1. CASE NoAudio
  BY <1>1 DEF NoAudio, CountsOK
<1>2. CASE InAudio
  BY <1>2 DEF InAudio, CountsOK
<1>3. CASE FrameDone
  <2>. PICK pts \in {0, 1}, count \in {0, 1}, given \in BOOLEAN : Frame(pts, count, given)
    BY <1>3 DEF FrameDone
  <2>1. {videoPts', audioPts', samples', uncounted'} \subseteq Nat
    BY DEF Frame, CountsOK
  <2>2. encoded' \in Seq(Nat) /\ lost' \subseteq Nat
    BY DEF Frame, CountsOK, TypeOK
  <2>. QED
    BY <2>1, <2>2 DEF CountsOK
<1>4. CASE \E n \in WriteSizes : WriteAudioPacket(n)
  BY <1>4 DEF WriteAudioPacket, CountsOK
<1>. QED
  BY <1>1, <1>2, <1>3, <1>4, StepKinds

-----------------------------------------------------------------------------
(* Audio in frames *)

(* What Append adds to the elements of a sequence.                           *)
LEMMA RangeOfAppend ==
  ASSUME NEW S, NEW s \in Seq(S), NEW e \in S
  PROVE  {Append(s, e)[i] : i \in DOMAIN Append(s, e)} = {s[i] : i \in DOMAIN s} \cup {e}
<1>1. /\ Len(s) \in Nat /\ DOMAIN s = 1 .. Len(s)
      /\ DOMAIN Append(s, e) = 1 .. Len(s) + 1
      /\ \A i \in 1 .. Len(s) : Append(s, e)[i] = s[i]
      /\ Append(s, e)[Len(s) + 1] = e
  BY AppendProperties, LenProperties
<1>2. 1 .. Len(s) + 1 = (1 .. Len(s)) \cup {Len(s) + 1}
  BY <1>1
<1>. QED
  BY <1>1, <1>2

(* The frames up to the next one are those before, and it. *)
LEMMA NextMultiple ==
  ASSUME NEW f, NEW k \in Nat
  PROVE  {f * j : j \in 0 .. k} = {f * j : j \in 0 .. k - 1} \cup {f * k}
<1>1. 0 .. k = (0 .. k - 1) \cup {k}
  OBVIOUS
<1>. QED
  BY <1>1

(* Every step keeps the frames in order and in one place.                    *)
LEMMA FramesStep ==
  ASSUME TypeOK, CountsOK, ReadsFrames, FramesInv, [CreaterNext]_allVars
  PROVE  FramesInv'
<1>1. CASE NoAudio
  BY <1>1 DEF NoAudio, FramesInv, vars
<1>2. CASE InAudio
  <2>1. UNCHANGED <<next, encoded, lost>>
    BY <1>2 DEF InAudio, ReadBegin, ReadStep, vars
  <2>2. ~writing' => size' < FrameSize
    BY <1>2 DEF InAudio, vars
  <2>. QED
    BY <2>1, <2>2 DEF FramesInv
<1>3. CASE \E n \in WriteSizes : WriteAudioPacket(n)
  BY <1>3 DEF WriteAudioPacket, Write, FramesInv
<1>4. CASE FrameDone
  <2>. PICK pts \in {0, 1}, count \in {0, 1}, given \in BOOLEAN : Frame(pts, count, given)
    BY <1>4 DEF FrameDone
  <2>. DEFINE k == next \div FrameSize
              frames == {encoded[i] : i \in DOMAIN encoded}
              before == {FrameSize * j : j \in 0 .. k - 1}
  <2>1. /\ FrameSize \in Nat \ {0} /\ next \in Nat /\ k \in Nat
        /\ next = FrameSize * k
    BY FrameSizeNat, Quotient DEF FramesInv, TypeOK
  <2>2. next' = next + FrameSize
    BY DEF Frame, ReadReturn, ReadsFrames
  <2>3. next' = FrameSize * (k + 1) /\ next' \div FrameSize = k + 1
    <3>. HIDE DEF k
    <3>1. next' = FrameSize * (k + 1)
      BY <2>1, <2>2, Products
    <3>2. (FrameSize * (k + 1)) \div FrameSize = k + 1
      BY <2>1, QuotientIs
    <3>. QED
      BY <3>1, <3>2
  <2>4. {FrameSize * j : j \in 0 .. (next' \div FrameSize) - 1} = before \cup {next}
    <3>. HIDE DEF k
    <3>1. (k + 1) - 1 = k
      BY <2>1
    <3>. QED
      BY <2>1, <2>3, <3>1, NextMultiple
  <2>5. frames \cup lost = before
    BY DEF FramesInv
  <2>6. /\ \A i \in 1 .. Len(encoded) : encoded[i] < next /\ encoded[i] \notin lost
        /\ \A i \in 1 .. Len(encoded) - 1 : encoded[i] < encoded[i + 1]
        /\ \A f \in lost : f < next
    BY DEF FramesInv
  <2>7. encoded \in Seq(Nat) /\ Len(encoded) \in Nat /\ lost \subseteq Nat
    BY LenProperties DEF CountsOK
  <2>8. \A i \in 1 .. Len(encoded) : encoded[i] \in Nat
    BY <2>7, ElementOfSeq
  <2>. HIDE DEF k, frames, before
  <2>9. CASE given
    <3>1. encoded' = Append(encoded, next) /\ lost' = lost /\ writing'
      BY <2>9 DEF Frame
    <3>2. /\ Len(encoded') = Len(encoded) + 1
          /\ \A i \in 1 .. Len(encoded) : encoded'[i] = encoded[i]
          /\ encoded'[Len(encoded) + 1] = next
      BY <2>1, <2>7, <3>1, AppendProperties
    <3>3. {encoded'[i] : i \in DOMAIN encoded'} = frames \cup {next}
      BY <2>1, <2>7, <3>1, RangeOfAppend, SMTT(30) DEF frames
    <3>4. {encoded'[i] : i \in DOMAIN encoded'} \cup lost' = before \cup {next}
      BY <2>5, <3>1, <3>3
    <3>5. \A i \in 1 .. Len(encoded') : encoded'[i] < next' /\ encoded'[i] \notin lost'
      <4>. TAKE i \in 1 .. Len(encoded')
      <4>1. CASE i \in 1 .. Len(encoded)
        BY <2>1, <2>2, <2>6, <2>8, <3>1, <3>2, <4>1
      <4>2. CASE i = Len(encoded) + 1
        BY <2>1, <2>2, <2>6, <3>1, <3>2, <4>2
      <4>. QED
        BY <2>7, <3>2, <4>1, <4>2
    <3>6. \A i \in 1 .. Len(encoded') - 1 : encoded'[i] < encoded'[i + 1]
      <4>. TAKE i \in 1 .. Len(encoded') - 1
      <4>1. CASE i = Len(encoded)
        BY <2>6, <2>7, <3>2, <4>1
      <4>2. CASE i \in 1 .. Len(encoded) - 1
        BY <2>6, <2>7, <3>2, <4>2
      <4>. QED
        BY <2>7, <3>2, <4>1, <4>2
    <3>7. \A f \in lost' : f < next'
      BY <2>1, <2>2, <2>6, <2>7, <3>1
    <3>. QED
      BY <2>3, <2>4, <3>1, <3>4, <3>5, <3>6, <3>7 DEF FramesInv
  <2>10. CASE ~given
    <3>1. encoded' = encoded /\ lost' = lost \cup {next}
      BY <2>10 DEF Frame
    <3>2. {encoded'[i] : i \in DOMAIN encoded'} \cup lost' = before \cup {next}
      BY <2>5, <3>1 DEF frames
    <3>3. \A i \in 1 .. Len(encoded') : encoded'[i] < next' /\ encoded'[i] \notin lost'
      BY <2>1, <2>2, <2>6, <2>8, <3>1
    <3>4. \A f \in lost' : f < next'
      BY <2>1, <2>2, <2>6, <2>7, <3>1
    <3>5. lost' # {}
      BY <3>1
    <3>. QED
      BY <2>3, <2>4, <2>6, <3>1, <3>2, <3>3, <3>4, <3>5 DEF FramesInv
  <2>. QED
    BY <2>9, <2>10
<1>. QED
  BY <1>1, <1>2, <1>3, <1>4, StepKinds

-----------------------------------------------------------------------------
(* Turns *)

Video == videoPts * VideoUnit

Duration(frames) == frames * AudioUnit

Bytes(frames) == FrameSize * frames

Audio == Duration(audioPts)

MostAudio == AudioUnit * MostFrames

(* TurnsInv in terms of what it relates *)
AudioBounded(unread) ==
  \A k \in Nat : Bytes(k) <= unread => Audio + Duration(k) <= Video + MostAudio

TurnsKept(unread) ==
  turns =>
    /\ audioPts <= samples + uncounted
    /\ Video <= Audio + VideoUnit
    /\ lost = {} => samples = audioPts /\ AudioBounded(unread)

(* A packet completes at most MostFrames frames: those in it, and one that was *)
(* begun before.                                                             *)
LEMMA MostFramesNat ==
  /\ MostFrames \in Nat
  /\ \A n \in WriteSizes, j \in Nat : Bytes(j) <= n => j + 1 <= MostFrames
<1>. DEFINE most == CHOOSE n \in WriteSizes : \A m \in WriteSizes : m <= n
<1>1. most \in WriteSizes /\ \A m \in WriteSizes : m <= most
  BY FrameAssumption
<1>2. most \in Nat /\ FrameSize \in Nat \ {0}
  BY <1>1, BufferAssumption, FrameSizeNat
<1>3. MostFrames = most \div FrameSize + 1
  BY DEF MostFrames
<1>. HIDE DEF most
<1>4. most \div FrameSize \in Nat
  BY <1>2, Quotient
<1>5. ASSUME NEW n \in WriteSizes, NEW j \in Nat, Bytes(j) <= n
      PROVE  j + 1 <= MostFrames
  <2>1. n \in Nat /\ n <= most /\ FrameSize * j \in Nat
    BY <1>1, <1>2, BufferAssumption, Products
  <2>2. FrameSize * j <= most
    BY <1>2, <1>5, <2>1 DEF Bytes
  <2>3. j <= most \div FrameSize
    BY <1>2, <2>2, QuotientIs
  <2>. QED
    BY <1>3, <1>4, <2>3
<1>6. MostFrames \in Nat
  BY <1>3, <1>4
<1>. QED
  BY <1>5, <1>6

(* The products in TurnsKept, without multiplication. *)
LEMMA Durations ==
  /\ \A k \in Nat : Duration(k) \in Nat /\ Bytes(k) \in Nat
  /\ \A k \in Nat : Duration(k + 1) = Duration(k) + AudioUnit /\ Bytes(k + 1) = Bytes(k) + FrameSize
  /\ \A k \in Nat : k <= MostFrames => Duration(k) <= MostAudio
  /\ Duration(0) = 0
  /\ MostAudio \in Nat
  /\ AudioUnit \in Nat /\ VideoUnit \in Nat /\ FrameSize \in Nat \ {0}
<1>1. AudioUnit \in Nat /\ VideoUnit \in Nat /\ FrameSize \in Nat \ {0} /\ MostFrames \in Nat
  BY FrameAssumption, FrameSizeNat, MostFramesNat
<1>2. MostAudio = Duration(MostFrames)
  BY <1>1, Products DEF MostAudio, Duration
<1>3. \A k \in Nat : Duration(k) \in Nat /\ Bytes(k) \in Nat
  BY <1>1, Products DEF Duration, Bytes
<1>4. ASSUME NEW k \in Nat
      PROVE  Duration(k + 1) = Duration(k) + AudioUnit /\ Bytes(k + 1) = Bytes(k) + FrameSize
  <2>1. (k + 1) * AudioUnit = k * AudioUnit + AudioUnit /\ (k + 1) * FrameSize = k * FrameSize + FrameSize
    BY <1>1, Products
  <2>2. FrameSize * k = k * FrameSize /\ FrameSize * (k + 1) = (k + 1) * FrameSize
    BY <1>1, Products
  <2>. QED
    BY <2>1, <2>2 DEF Duration, Bytes
<1>5. ASSUME NEW k \in Nat, k <= MostFrames
      PROVE  Duration(k) <= Duration(MostFrames)
  BY <1>1, <1>5, Products DEF Duration
<1>6. Duration(0) = 0
  BY <1>1 DEF Duration
<1>. QED
  BY <1>1, <1>2, <1>3, <1>4, <1>5, <1>6

(* An iteration of a read neither begins nor ends it. *)
LEMMA ReadGoesOn == TypeOK /\ ReadStep => ~Idle /\ ~Idle'
<1>. SUFFICES ASSUME TypeOK, ReadStep PROVE ~Idle /\ ~Idle'
  OBVIOUS
<1>1. wanted \in Int /\ wanted > 0 /\ Head(queue) \in [pos : Nat, size : Nat]
  BY HeadTailProperties DEF TypeOK, ReadStep
<1>2. Copied(Head(queue)) \in Int /\ Copied(Head(queue)) <= wanted
  BY <1>1 DEF Copied
<1>3. wanted' = wanted \/ wanted' = wanted - Copied(Head(queue))
  BY DEF ReadStep, Copy
<1>. QED
  BY <1>1, <1>2, <1>3 DEF Idle

(* Every step that asks first keeps the tracks together.                     *)
LEMMA TurnsStep ==
  ASSUME TypeOK, CountsOK, ReadsFrames, FramesInv, TurnsInv, [CreaterNext]_allVars
  PROVE  TurnsInv'
<1>1. /\ videoPts \in Nat /\ audioPts \in Nat /\ samples \in Nat /\ uncounted \in Nat
      /\ size \in Nat /\ asked \in Nat
  BY DEF CountsOK, TypeOK
<1>2. Video \in Nat /\ Audio \in Nat
  BY <1>1, Durations, Products DEF Video, Audio
<1>3. Unread \in Nat
  BY <1>1 DEF Unread
<1>4. TurnsKept(Unread)
  BY DEF TurnsInv, TurnsKept, AudioBounded, Video, Audio, Duration, Bytes, MostAudio
<1>5. ASSUME TurnsKept(Unread)' PROVE TurnsInv'
  BY <1>5 DEF TurnsInv, TurnsKept, AudioBounded, Video, Audio, Duration, Bytes, MostAudio
<1>6. CASE NoAudio
  <2>1. Unread' = Unread /\ Audio' = Audio
    BY <1>6 DEF NoAudio, vars, Unread, Idle, Audio
  <2>2. UNCHANGED <<audioPts, samples, uncounted, lost>>
    BY <1>6 DEF NoAudio
  <2>3. Video' \in {Video, Video + VideoUnit} /\ (turns' => turns)
        /\ (turns' => Video' = Video \/ Video <= Audio)
    <3>1. CASE UNCHANGED <<videoPts, turns>>
      BY <3>1 DEF Video
    <3>2. CASE videoPts' \in {videoPts, videoPts + 1} /\ turns' = (turns /\ IsVideoTurn)
      <4>1. Video' \in {Video, Video + VideoUnit}
        <5>1. (videoPts + 1) * VideoUnit = videoPts * VideoUnit + VideoUnit
          BY <1>1, Durations, Products
        <5>. QED
          BY <3>2, <5>1 DEF Video
      <4>2. turns' => turns /\ Video <= Audio
        BY <3>2 DEF IsVideoTurn, Video, Audio, Duration
      <4>. QED
        BY <4>1, <4>2
    <3>. QED
      BY <1>6, <3>1, <3>2 DEF NoAudio
  <2>4. Video <= Video'
    BY <1>2, <2>3, Durations
  <2>5. turns' => Video' <= Audio' + VideoUnit
    BY <1>2, <1>4, <2>1, <2>3, Durations DEF TurnsKept
  <2>6. ASSUME AudioBounded(Unread) PROVE AudioBounded(Unread)'
    <3>1. ASSUME NEW k \in Nat, Bytes(k) <= Unread
          PROVE  Audio + Duration(k) <= Video' + MostAudio
      <4>1. Audio + Duration(k) <= Video + MostAudio
        BY <2>6, <3>1 DEF AudioBounded
      <4>2. Video' \in Nat /\ Duration(k) \in Nat /\ MostAudio \in Nat
        BY <1>2, <2>3, Durations
      <4>. QED
        BY <1>2, <2>4, <4>1, <4>2
    <3>. QED
      BY <2>1, <3>1 DEF AudioBounded, Bytes, Duration, MostAudio, MostFrames
  <2>. QED
    BY <1>4, <1>5, <2>2, <2>3, <2>5, <2>6 DEF TurnsKept
<1>7. CASE InAudio
  <2>1. Unread' = Unread
    <3>1. CASE ReadBegin(FrameSize)
      BY <1>1, <3>1, FrameSizeNat DEF ReadBegin, Unread, Idle
    <3>2. CASE ReadStep
      BY <3>2, ReadGoesOn DEF ReadStep, Unread
    <3>3. CASE UNCHANGED vars
      BY <3>3 DEF vars, Unread, Idle
    <3>. QED
      BY <1>7, <3>1, <3>2, <3>3 DEF InAudio
  <2>2. UNCHANGED <<videoPts, turns, audioPts, samples, lost, uncounted>>
    BY <1>7 DEF InAudio
  <2>. QED
    BY <1>4, <1>5, <2>1, <2>2
       DEF TurnsKept, AudioBounded, Video, Audio, Bytes, Duration, MostAudio, MostFrames
<1>8. ASSUME NEW n \in WriteSizes, WriteAudioPacket(n) PROVE TurnsInv'
  <2>1. /\ Idle /\ Idle' /\ ~writing
        /\ size' = size + n /\ n \in Nat
        /\ UNCHANGED <<videoPts, audioPts, samples, uncounted, lost>>
    BY <1>8, BufferAssumption DEF WriteAudioPacket, CanWrite, Write, Idle
  <2>2. Video' = Video /\ Audio' = Audio /\ Unread' = size + n
    BY <2>1 DEF Video, Audio, Unread, Duration
  <2>3. turns' => turns /\ ~(Video <= Audio)
    BY <1>8 DEF WriteAudioPacket, IsAudioTurn, IsVideoTurn, Video, Audio, Duration
  <2>4. lost = {} => size < FrameSize
    BY <2>1 DEF FramesInv
  <2>5. ASSUME turns', lost = {} PROVE AudioBounded(Unread)'
    <3>1. ASSUME NEW k \in Nat, Bytes(k) <= size + n PROVE k <= MostFrames
      <4>1. CASE k = 0
        BY <4>1, MostFramesNat
      <4>2. CASE k # 0
        <5>1. PICK j \in Nat : k = j + 1
          BY <4>2
        <5>2. Bytes(k) = Bytes(j) + FrameSize /\ Bytes(j) \in Nat
          BY <5>1, Durations
        <5>3. Bytes(j) <= n
          BY <1>1, <2>1, <2>4, <2>5, <3>1, <5>2, Durations
        <5>. QED
          BY <5>1, <5>3, MostFramesNat
      <4>. QED
        BY <4>1, <4>2
    <3>2. ASSUME NEW k \in Nat, Bytes(k) <= size + n
          PROVE  Audio + Duration(k) <= Video + MostAudio
      <4>1. Duration(k) <= MostAudio /\ Duration(k) \in Nat /\ MostAudio \in Nat
        BY <3>1, <3>2, Durations
      <4>2. Audio < Video
        BY <1>2, <2>3, <2>5
      <4>. QED
        BY <1>2, <4>1, <4>2
    <3>. QED
      BY <2>2, <3>2 DEF AudioBounded, Bytes, Duration, MostAudio, MostFrames
  <2>. QED
    BY <1>4, <1>5, <2>1, <2>2, <2>3, <2>5 DEF TurnsKept
<1>9. CASE FrameDone
  <2>. PICK pts \in {0, 1}, count \in {0, 1}, given \in BOOLEAN :
         Frame(pts, count, given) /\ (given => pts = 1 /\ count = 1)
    BY <1>9 DEF FrameDone
  <2>1. /\ audioPts' = audioPts + pts /\ samples' = samples + count
        /\ uncounted' = uncounted + (IF given THEN 0 ELSE 1 - count)
        /\ UNCHANGED <<videoPts, turns>>
    BY DEF Frame
  <2>2. Unread = size + FrameSize /\ Unread' = size
    BY <1>1 DEF Frame, ReadReturn, ReadsFrames, Unread, Idle
  <2>3. /\ Video' = Video /\ Audio' \in {Audio, Audio + AudioUnit}
        /\ given => Audio' = Audio + AudioUnit
    <3>1. Duration(audioPts + 1) = Duration(audioPts) + AudioUnit
      BY <1>1, Durations
    <3>2. audioPts + 0 = audioPts
      BY <1>1
    <3>. QED
      BY <2>1, <3>1, <3>2 DEF Video, Audio, Duration
  <2>4. lost' = {} => given /\ lost = {}
    BY DEF Frame
  <2>5. turns => audioPts' <= samples' + uncounted'
    <3>1. turns => audioPts <= samples + uncounted
      BY <1>4 DEF TurnsKept
    <3>2. CASE given
      BY <1>1, <2>1, <3>1, <3>2
    <3>3. CASE ~given
      BY <1>1, <2>1, <3>1, <3>3
    <3>. QED
      BY <3>2, <3>3
  <2>6. turns => Video' <= Audio' + VideoUnit
    <3>1. turns => Video <= Audio + VideoUnit
      BY <1>4 DEF TurnsKept
    <3>2. AudioUnit \in Nat /\ VideoUnit \in Nat
      BY Durations
    <3>3. Video <= Audio + VideoUnit => Video' <= Audio' + VideoUnit
      <4>1. CASE Audio' = Audio
        BY <2>3, <4>1
      <4>2. CASE Audio' = Audio + AudioUnit
        BY <1>2, <2>3, <3>2, <4>2
      <4>. QED
        BY <2>3, <4>1, <4>2
    <3>. QED
      BY <3>1, <3>3
  <2>7. turns /\ lost' = {} => samples' = audioPts'
    BY <1>1, <1>4, <2>1, <2>4 DEF TurnsKept
  <2>8. ASSUME given, AudioBounded(Unread) PROVE AudioBounded(Unread)'
    <3>1. ASSUME NEW k \in Nat, Bytes(k) <= size
          PROVE  Audio + AudioUnit + Duration(k) <= Video + MostAudio
      <4>1. /\ Bytes(k + 1) = Bytes(k) + FrameSize /\ Duration(k + 1) = Duration(k) + AudioUnit
            /\ Bytes(k) \in Nat /\ Duration(k) \in Nat /\ MostAudio \in Nat
            /\ AudioUnit \in Nat /\ FrameSize \in Nat
        BY Durations
      <4>2. Bytes(k + 1) <= Unread
        BY <1>1, <2>2, <3>1, <4>1
      <4>3. Audio + Duration(k + 1) <= Video + MostAudio
        BY <2>8, <4>2 DEF AudioBounded
      <4>. QED
        BY <1>2, <4>1, <4>3
    <3>. QED
      BY <2>2, <2>3, <2>8, <3>1 DEF AudioBounded, Bytes, Duration, MostAudio, MostFrames
  <2>. QED
    BY <1>4, <1>5, <2>1, <2>4, <2>5, <2>6, <2>7, <2>8 DEF TurnsKept
<1>. QED
  BY <1>6, <1>7, <1>8, <1>9, StepKinds
-----------------------------------------------------------------------------
(* Holding *)

(* nothing is acquired again, and what is there after it is meant to be there *)
StageFits(from, parts, to, otherwise) ==
  /\ HeldBefore(from) \cap parts \subseteq {"sws"}
  /\ HeldBefore(from) \cup parts \subseteq
       HeldBefore(to) \cup (IF lib = "ryulib" THEN {"looseCtx"} ELSE {})
  /\ from # "undefined"
  /\ to \notin {"fresh", "closed", "oc", "failed", "undefined"}
  /\ otherwise # to
  /\ lib = "ryulib" =>
       /\ "looseCtx" \notin parts
       /\ {to, otherwise} \cap {"oc", "hardware", "software"} = {}

(* A function of open that fits keeps the invariant; the first one makes oc.   *)
LEMMA StageHeld ==
  ASSUME NEW from, NEW parts, NEW order \in Seq(parts), NEW to, NEW otherwise,
         HeldInv, Stage(from, order, to, otherwise),
         StageFits(from, parts, to, otherwise),
         \/ from \notin {"fresh", "closed", "oc", "undefined"}
         \/ "oc" \in {order[i] : i \in 1 .. Len(order)}
  PROVE  HeldInv'
<1>. USE DEF StageFits
<1>1. PICK k \in 0 .. Len(order) :
        /\ Acquire({order[i] : i \in 1 .. k})
        /\ state' \in {otherwise} \cup (IF k = Len(order) THEN {to} ELSE {})
  BY DEF Stage
<1>. DEFINE new == {order[i] : i \in 1 .. k}
<1>2. new \subseteq parts
  <2>1. \A i \in 1 .. Len(order) : order[i] \in parts
    BY ElementOfSeq
  <2>. QED
    BY <1>1, <2>1, LenProperties
<1>3. held' = held \cup new /\ leaked' = leaked \cup ((held \cap new) \ {"sws"})
  BY <1>1 DEF Acquire
<1>4. state = from /\ state' \in {otherwise, to} /\ UNCHANGED <<lib, unfinished>>
      /\ header' = (state' = "opened")
  BY <1>1 DEF Stage
<1>5. ASSUME behaved'
      PROVE  behaved /\ state' = to /\ k = Len(order)
  BY <1>1, <1>5 DEF Stage
<1>. HIDE DEF new
<1>6. ASSUME behaved'
      PROVE  /\ leaked' \subseteq {"frame"}
             /\ ~unfinished'
             /\ held' \subseteq HeldBefore(to)
  BY <1>2, <1>3, <1>4, <1>5, <1>6 DEF HeldInv
<1>7. ASSUME behaved' PROVE "oc" \in held'
  <2>1. CASE from \notin {"fresh", "closed", "oc", "undefined"}
    BY <1>3, <1>4, <1>5, <1>7, <2>1 DEF HeldInv
  <2>2. CASE "oc" \in {order[i] : i \in 1 .. Len(order)}
    BY <1>3, <1>5, <1>7, <2>2 DEF new
  <2>. QED
    BY <2>1, <2>2
<1>8. lib' = "ryulib" => "looseCtx" \notin held' /\ state' \notin {"oc", "hardware", "software"}
  BY <1>2, <1>3, <1>4 DEF HeldInv
<1>9. header' => state' \in {"opened", "undefined"}
  BY <1>4
<1>. QED
  BY <1>4, <1>5, <1>6, <1>7, <1>8, <1>9 DEF HeldInv

(* open of ffmpeg/VideoCreater.hpp keeps what is held and leaked in order. *)
LEMMA OpenFfmpegHeld == HeldInv /\ OpenFfmpeg => HeldInv'
<1>. SUFFICES ASSUME HeldInv, OpenFfmpeg PROVE HeldInv'
  OBVIOUS
<1>1. CASE Open
  BY <1>1 DEF Open, HeldInv, HeldBefore
<1>2. CASE AllocOutput
  <2>1. <<"oc">> \in Seq({"oc"}) /\ "oc" \in {<<"oc">>[i] : i \in 1 .. Len(<<"oc">>)}
    OBVIOUS
  <2>2. StageFits("oc", {"oc"}, "hardware", "failed")
    BY <1>2 DEF AllocOutput, StageFits, HeldBefore
  <2>3. Stage("oc", <<"oc">>, "hardware", "failed")
    BY <1>2 DEF AllocOutput
  <2>. QED
    BY <2>1, <2>2, <2>3, StageHeld
<1>3. ASSUME NEW from \in {"hardware", "software"}, NEW otherwise \in {"software", "failed"},
             OpenVideo(from, otherwise)
      PROVE  HeldInv'
  <2>1. CASE Stage(from, <<"looseCtx", "sws">>, "videoStream", otherwise)
    <3>1. <<"looseCtx", "sws">> \in Seq({"looseCtx", "sws"})
      OBVIOUS
    <3>2. lib # "ryulib"
      BY <2>1 DEF HeldInv, Stage
    <3>3. StageFits(from, {"looseCtx", "sws"}, "videoStream", otherwise)
      BY <3>2 DEF StageFits, HeldBefore
    <3>. QED
      BY <2>1, <3>1, <3>3, StageHeld
  <2>2. CASE ~Stage(from, <<"looseCtx", "sws">>, "videoStream", otherwise)
    BY <1>3, <2>2 DEF OpenVideo, HeldInv
  <2>. QED
    BY <2>1, <2>2
<1>4. CASE UseSoftware
  BY <1>4 DEF UseSoftware, HeldInv, HeldBefore
<1>5. CASE AddVideoStream
  BY <1>5 DEF AddVideoStream, HeldInv, HeldBefore
<1>6. CASE AddAudioStream
  <2>1. <<"audioCtx">> \in Seq({"audioCtx"})
    OBVIOUS
  <2>2. StageFits("audioStream", {"audioCtx"}, "audio", "failed")
    BY <1>6 DEF AddAudioStream, StageFits, HeldBefore
  <2>3. Stage("audioStream", <<"audioCtx">>, "audio", "failed")
    BY <1>6 DEF AddAudioStream
  <2>. QED
    BY <2>1, <2>2, <2>3, StageHeld
<1>7. CASE OpenAudio
  <2>1. <<"swr">> \in Seq({"swr"})
    OBVIOUS
  <2>2. StageFits("audio", {"swr"}, "file", "failed")
    BY <1>7 DEF OpenAudio, StageFits, HeldBefore
  <2>3. Stage("audio", <<"swr">>, "file", "failed")
    BY <1>7 DEF OpenAudio
  <2>. QED
    BY <2>1, <2>2, <2>3, StageHeld
<1>8. CASE OpenFile
  <2>1. <<"pb">> \in Seq({"pb"})
    OBVIOUS
  <2>2. StageFits("file", {"pb"}, "opened", "failed")
    BY <1>8 DEF OpenFile, StageFits, HeldBefore
  <2>3. Stage("file", <<"pb">>, "opened", "failed")
    BY <1>8 DEF OpenFile
  <2>. QED
    BY <2>1, <2>2, <2>3, StageHeld
<1>. QED
  BY <1>1, <1>2, <1>3, <1>4, <1>5, <1>6, <1>7, <1>8 DEF OpenFfmpeg

(* So does the constructor of ryulib/VideoCreater.hpp. *)
LEMMA OpenRyulibHeld == HeldInv /\ OpenRyulib => HeldInv'
<1>. SUFFICES ASSUME HeldInv, OpenRyulib PROVE HeldInv'
  OBVIOUS
<1>1. CASE Construct
  <2>1. <<"oc">> \in Seq({"oc"}) /\ "oc" \in {<<"oc">>[i] : i \in 1 .. Len(<<"oc">>)}
    OBVIOUS
  <2>2. StageFits("fresh", {"oc"}, "videoStream", "failed")
    BY <1>1 DEF Construct, StageFits, HeldBefore
  <2>3. Stage("fresh", <<"oc">>, "videoStream", "failed")
    BY <1>1 DEF Construct
  <2>. QED
    BY <2>1, <2>2, <2>3, StageHeld
<1>2. CASE AddVideoStream_ryulib
  <2>1. <<"videoCtx">> \in Seq({"videoCtx"})
    OBVIOUS
  <2>2. StageFits("videoStream", {"videoCtx"}, "video", "failed")
    BY <1>2 DEF AddVideoStream_ryulib, StageFits, HeldBefore
  <2>3. Stage("videoStream", <<"videoCtx">>, "video", "failed")
    BY <1>2 DEF AddVideoStream_ryulib
  <2>. QED
    BY <2>1, <2>2, <2>3, StageHeld
<1>3. CASE OpenVideo_ryulib
  <2>1. <<"videoFrame", "videoTmp">> \in Seq({"videoFrame", "videoTmp"})
    OBVIOUS
  <2>2. StageFits("video", {"videoFrame", "videoTmp"}, "audioStream", "failed")
    BY <1>3 DEF OpenVideo_ryulib, StageFits, HeldBefore
  <2>3. Stage("video", <<"videoFrame", "videoTmp">>, "audioStream", "failed")
    BY <1>3 DEF OpenVideo_ryulib
  <2>. QED
    BY <2>1, <2>2, <2>3, StageHeld
<1>4. CASE AddAudioStream_ryulib
  <2>1. <<"audioCtx">> \in Seq({"audioCtx"})
    OBVIOUS
  <2>2. StageFits("audioStream", {"audioCtx"}, "audio", "failed")
    BY <1>4 DEF AddAudioStream_ryulib, StageFits, HeldBefore
  <2>3. Stage("audioStream", <<"audioCtx">>, "audio", "failed")
    BY <1>4 DEF AddAudioStream_ryulib
  <2>. QED
    BY <2>1, <2>2, <2>3, StageHeld
<1>5. CASE OpenAudio_ryulib
  <2>. DEFINE parts == {"audioFrame", "audioTmp", "swr"}
  <2>1. PICK frames \in FramesOrNone : Stage("audio", frames \o <<"swr">>, "file", "failed")
    BY <1>5 DEF OpenAudio_ryulib
  <2>2. frames \in Seq(parts) /\ <<"swr">> \in Seq(parts)
    <3>1. <<>> \in Seq(parts) /\ <<"audioFrame">> \in Seq(parts) /\ <<"audioTmp">> \in Seq(parts)
      BY EmptySeq
    <3>2. <<"audioFrame", "audioTmp">> \in Seq(parts) /\ <<"swr">> \in Seq(parts)
      OBVIOUS
    <3>. QED
      BY <3>1, <3>2 DEF FramesOrNone
  <2>3. frames \o <<"swr">> \in Seq(parts)
    BY <2>2, ConcatProperties
  <2>4. StageFits("audio", parts, "file", "failed")
    BY DEF StageFits, HeldBefore
  <2>. QED
    BY <2>1, <2>3, <2>4, StageHeld
<1>6. CASE ThrowChannels
  BY <1>6 DEF ThrowChannels, HeldInv
<1>7. CASE OpenFile_ryulib
  <2>1. <<"pb">> \in Seq({"pb"})
    OBVIOUS
  <2>2. StageFits("file", {"pb"}, "opened", "failed")
    BY <1>7 DEF OpenFile_ryulib, StageFits, HeldBefore
  <2>3. Stage("file", <<"pb">>, "opened", "failed")
    BY <1>7 DEF OpenFile_ryulib
  <2>. QED
    BY <2>1, <2>2, <2>3, StageHeld
<1>. QED
  BY <1>1, <1>2, <1>3, <1>4, <1>5, <1>6, <1>7 DEF OpenRyulib

(* So does every call. *)
LEMMA HeldStep == HeldInv /\ [CreaterNext]_allVars => HeldInv'
<1>. SUFFICES ASSUME HeldInv, [CreaterNext]_allVars PROVE HeldInv'
  OBVIOUS
<1>1. CASE WriteBitmap
  BY <1>1 DEF WriteBitmap, Bitmap, AllocFails, HeldInv
<1>2. CASE WriteBitmap_ryulib
  BY <1>2 DEF WriteBitmap_ryulib, Bitmap, CanWrite, HeldInv, HeldBefore
<1>3. CASE Misuse
  BY <1>3 DEF Misuse, HeldInv
<1>4. CASE \E n \in WriteSizes : WriteAudioPacket(n)
  BY <1>4 DEF WriteAudioPacket, objectVars, HeldInv
<1>5. CASE AudioLoop
  <2>1. UNCHANGED <<lib, state, held, header, behaved, unfinished>> /\ leaked' \in {leaked, leaked \cup {"frame"}}
    BY <1>5 DEF AudioLoop, ReadFrame, WriteReturn, DoWriteAudioPacket, DoWriteAudioPacket_ryulib,
                Frame, AllocFails, objectVars
  <2>. QED
    BY <2>1 DEF HeldInv
<1>6. CASE Close
  BY <1>6 DEF Close, HeldInv, HeldBefore
<1>7. CASE Destroy_ryulib
  BY <1>7 DEF Destroy_ryulib, HeldInv, HeldBefore
<1>8. CASE UNCHANGED allVars
  BY <1>8 DEF allVars, objectVars, HeldInv
<1>. QED
  BY <1>1, <1>2, <1>3, <1>4, <1>5, <1>6, <1>7, <1>8, OpenFfmpegHeld, OpenRyulibHeld DEF CreaterNext

-----------------------------------------------------------------------------
(* The invariant, and what follows from it *)

(* Nothing is held, written or counted in the beginning.                     *)
LEMMA CreaterBegins == CreaterInit => CreaterInv
<1>. SUFFICES ASSUME CreaterInit PROVE CreaterInv
  OBVIOUS
<1>1. BufferInv
  BY BufferInit DEF CreaterInit
<1>2. PICK first \in IF lib = "ffmpeg" THEN [1 .. 3 -> Garbage] ELSE {<<0, 0, 0>>} :
        /\ videoPts = first[1] /\ audioPts = first[2] /\ samples = first[3]
        /\ turns = (first = <<0, 0, 0>>)
  BY DEF CreaterInit
<1>3. first[1] \in Nat /\ first[2] \in Nat /\ first[3] \in Nat
  <2>1. CASE first \in [1 .. 3 -> Garbage]
    <3>1. first[1] \in Garbage /\ first[2] \in Garbage /\ first[3] \in Garbage
      BY <2>1
    <3>. QED
      BY <3>1, FrameAssumption
  <2>2. CASE first = <<0, 0, 0>>
    BY <2>2
  <2>. QED
    BY <1>2, <2>1, <2>2
<1>4. CountsOK
  BY <1>2, <1>3, EmptySeq DEF CreaterInit, CountsOK
<1>5. ReadsFrames /\ HeldInv
  BY DEF CreaterInit, Init, Idle, ReadsFrames, HeldInv
<1>6. FramesInv
  <2>1. FrameSize \in Nat \ {0} /\ next = 0 /\ encoded = <<>> /\ lost = {} /\ size = 0
    BY FrameSizeNat DEF CreaterInit, Init
  <2>2. (FrameSize * 0) \div FrameSize = 0 /\ FrameSize * 0 = 0
    BY <2>1, QuotientIs
  <2>3. next \div FrameSize = 0 /\ next = FrameSize * (next \div FrameSize)
    BY <2>1, <2>2
  <2>4. {encoded[i] : i \in DOMAIN encoded} \cup lost = {FrameSize * k : k \in 0 .. (next \div FrameSize) - 1}
    BY <2>1, <2>3, EmptySeq
  <2>. QED
    BY <2>1, <2>3, <2>4, EmptySeq DEF FramesInv
<1>7. TurnsInv
  <2>1. turns => videoPts = 0 /\ audioPts = 0 /\ samples = 0
    <3>1. turns => first = <<0, 0, 0>>
      BY <1>2, Zenon
    <3>2. first = <<0, 0, 0>> => first[1] = 0 /\ first[2] = 0 /\ first[3] = 0
      OBVIOUS
    <3>. QED
      BY <1>2, <3>1, <3>2
  <2>2. uncounted = 0 /\ Unread = 0
    BY DEF CreaterInit, Init, Unread, Idle
  <2>3. turns => Video = 0 /\ Audio = 0
    BY <2>1, Durations DEF Video, Audio
  <2>4. turns => Video <= Audio + VideoUnit /\ audioPts <= samples + uncounted /\ samples = audioPts
    BY <2>1, <2>2, <2>3, Durations
  <2>5. ASSUME turns PROVE AudioBounded(Unread)
    <3>1. ASSUME NEW k \in Nat, Bytes(k) <= 0 PROVE Duration(k) <= MostAudio
      <4>1. CASE k = 0
        BY <4>1, Durations
      <4>2. CASE k # 0
        <5>1. PICK j \in Nat : k = j + 1
          BY <4>2
        <5>2. Bytes(k) = Bytes(j) + FrameSize /\ Bytes(j) \in Nat /\ FrameSize \in Nat \ {0}
          BY <5>1, Durations
        <5>. QED
          BY <3>1, <5>2
      <4>. QED
        BY <4>1, <4>2
    <3>2. \A k \in Nat : Duration(k) \in Nat
      BY Durations
    <3>. QED
      BY <2>2, <2>3, <2>5, <3>1, <3>2, Durations DEF AudioBounded
  <2>. QED
    BY <2>4, <2>5 DEF TurnsInv, TurnsKept, AudioBounded, Video, Audio, Duration, Bytes, MostAudio
<1>. QED
  BY <1>1, <1>4, <1>5, <1>6, <1>7 DEF CreaterInv

(* Every step keeps all parts of the invariant.                              *)
LEMMA CreaterStep == CreaterInv /\ [CreaterNext]_allVars => CreaterInv'
<1>. SUFFICES ASSUME CreaterInv, [CreaterNext]_allVars PROVE CreaterInv'
  OBVIOUS
<1>1. TypeOK /\ BufferInv /\ CountsOK /\ ReadsFrames /\ FramesInv /\ TurnsInv /\ HeldInv
  BY DEF CreaterInv, BufferInv
<1>2. BufferInv'
  BY <1>1, BufferMoves, StepBufferInv
<1>3. CountsOK' /\ ReadsFrames'
  BY <1>1, CountsStep, ReadsFramesStep
<1>4. FramesInv' /\ TurnsInv' /\ HeldInv'
  BY <1>1, FramesStep, TurnsStep, HeldStep
<1>. QED
  BY <1>2, <1>3, <1>4 DEF CreaterInv

(* The invariant of a VideoCreater.                                          *)
LEMMA CreaterInvariant == CreaterSpec => []CreaterInv
BY CreaterBegins, CreaterStep, PTL DEF CreaterSpec

(* Every frame read is encoded in order or lost to a failure, once, and less   *)
(* than a frame stays behind (writeAudioPacket of both classes).             *)
THEOREM AudioIsFramed == CreaterSpec => []AudioInFrames
<1>1. CreaterInv => AudioInFrames
  <2>. SUFFICES ASSUME CreaterInv PROVE AudioInFrames
    OBVIOUS
  <2>1. /\ DOMAIN encoded = 1 .. Len(encoded)
        /\ \A i \in 1 .. Len(encoded) : encoded[i] \notin lost
    BY LenProperties DEF CreaterInv, CountsOK, FramesInv
  <2>2. {encoded[i] : i \in DOMAIN encoded} \cap lost = {}
    BY <2>1
  <2>. QED
    BY <2>2 DEF CreaterInv, FramesInv, AudioInFrames, CanWrite
<1>. QED
  BY CreaterInvariant, <1>1, PTL

(* Whoever asks isVideoTurn() first keeps the tracks within a bitmap, or within *)
(* the frames that one packet completes, of each other, for any sizes and     *)
(* durations.                                                                *)
THEOREM TracksKeptTogether == CreaterSpec => []TracksStayTogether
<1>1. CreaterInv => TracksStayTogether
  <2>. SUFFICES ASSUME CreaterInv, turns
                PROVE /\ videoPts * VideoUnit <= samples * AudioUnit + VideoUnit + AudioUnit * uncounted
                      /\ lost = {} => samples * AudioUnit <= videoPts * VideoUnit + AudioUnit * MostFrames
    BY DEF TracksStayTogether, MostFrames
  <2>1. /\ samples \in Nat /\ uncounted \in Nat /\ audioPts \in Nat /\ videoPts \in Nat
        /\ AudioUnit \in Nat /\ VideoUnit \in Nat
    BY Durations DEF CreaterInv, CountsOK
  <2>2. TurnsKept(Unread)
    BY DEF CreaterInv, TurnsInv, TurnsKept, AudioBounded, Video, Audio, Duration, Bytes, MostAudio
  <2>3. /\ Video \in Nat /\ Audio \in Nat /\ Duration(samples) \in Nat
        /\ Duration(uncounted) \in Nat /\ Duration(uncounted) = AudioUnit * uncounted
    BY <2>1, Durations, Products DEF Video, Audio, Duration
  <2>4. Audio <= Duration(samples) + Duration(uncounted)
    <3>1. audioPts <= samples + uncounted /\ samples + uncounted \in Nat
      BY <2>1, <2>2 DEF TurnsKept
    <3>2. audioPts * AudioUnit <= (samples + uncounted) * AudioUnit
      BY <2>1, <3>1, Products
    <3>3. (samples + uncounted) * AudioUnit = samples * AudioUnit + uncounted * AudioUnit
      BY <2>1, Products
    <3>. QED
      BY <3>2, <3>3 DEF Audio, Duration
  <2>5. Video <= Audio + VideoUnit
    BY <2>2 DEF TurnsKept
  <2>6. Video <= Duration(samples) + VideoUnit + Duration(uncounted)
    BY <2>1, <2>3, <2>4, <2>5
  <2>7. ASSUME lost = {} PROVE Duration(samples) <= Video + MostAudio
    <3>1. samples = audioPts /\ AudioBounded(Unread)
      BY <2>2, <2>7 DEF TurnsKept
    <3>2. Bytes(0) <= Unread
      <4>1. Bytes(0) = 0 /\ Unread \in Nat
        BY FrameSizeNat DEF Bytes, Unread, CreaterInv, BufferInv, TypeOK
      <4>. QED
        BY <4>1
    <3>3. Audio + Duration(0) <= Video + MostAudio
      BY <3>1, <3>2 DEF AudioBounded
    <3>. QED
      BY <2>3, <3>1, <3>3, Durations DEF Audio
  <2>. QED
    BY <2>3, <2>6, <2>7 DEF Video, Duration, MostAudio
<1>. QED
  BY CreaterInvariant, <1>1, PTL

(* While open neither fails nor is repeated, nothing but the frame of a failed *)
(* write is ever lost, and every file with a header gets its trailer.        *)
THEOREM NothingLeaks == CreaterSpec => []NothingLeaksUnlessOpenFails
<1>1. CreaterInv => NothingLeaksUnlessOpenFails
  BY DEF CreaterInv, HeldInv, HeldBefore, NothingLeaksUnlessOpenFails
<1>. QED
  BY CreaterInvariant, <1>1, PTL

(* The stream in audio_buffer stays whole whatever fails around it.           *)
THEOREM CreaterContiguous == CreaterSpec => []BuffersContiguous
<1>1. CreaterInv => BuffersContiguous
  BY DEF CreaterInv, BufferInv
<1>. QED
  BY CreaterInvariant, <1>1, PTL
=============================================================================
