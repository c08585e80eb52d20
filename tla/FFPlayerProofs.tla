--------------------------- MODULE FFPlayerProofs ---------------------------
(***************************************************************************)
(* The player, for any file, any wishes and any number of calls.           *)
(*                                                                         *)
(* HeldOnce needs that a packet read is new: each one in a queue or in     *)
(* hand was read before from this stream, with these seeks, or from an     *)
(* earlier one.  Sounds and pictures have queues of their own, so that     *)
(* each queue with the packet in hand (Part) can be looked at by itself.   *)
(*                                                                         *)
(* EofOncePerPlay needs that a play() is used up when the end of the file  *)
(* is found: from then until on_EOF_ the player is not started, and only   *)
(* the scheduler's thread, which is busy, could start it.                  *)
(*                                                                         *)
(* OneStrayPicture needs that close() leaves no picture behind: while it   *)
(* empties the queue there is no context for the video thread to decode    *)
(* with, so that a picture of a closed file can only be the one in hand.   *)
(***************************************************************************)
EXTENDS FFPlayer, SequenceTheorems, TLAPS

Packets == Nat \X Nat \X (1 .. Len(File)) \X Nat
Sounds == {p \in Packets : File[p[3]] = "audio"}
Images == {p \in Packets : File[p[3]] = "video"}

(* how far the file was read *)
reader == [opens |-> opens, stream |-> stream, seeks |-> seeks, pos |-> pos]

(* p was read before *)
Old(p, r) ==
  /\ p[1] \in 1 .. r.opens
  /\ p[2] \in 0 .. r.seeks
  /\ p[1] = r.stream /\ p[2] = r.seeks => p[3] <= r.pos

(* a queue of packets of one kind and the one in hand *)
Part(queue, held, Kind, r) ==
  /\ queue \in Seq(Kind)
  /\ held \in Kind \cup {NoPacket}
  /\ \A i, j \in 1 .. Len(queue) : i # j => queue[i] # queue[j]
  /\ \A i \in 1 .. Len(queue) : Old(queue[i], r) /\ queue[i] # held
  /\ held # NoPacket => Old(held, r)

(* The contexts are those of streams that were opened, or none. *)
ContextInv ==
  /\ opens \in Nat
  /\ audio \in 0 .. opens
  /\ video \in 0 .. opens

ReaderInv ==
  /\ opens \in Nat /\ seeks \in Nat /\ pos \in 0 .. Len(File)
  /\ stream \in 0 .. opens
  /\ apc = "decode" => job # NoPacket
  /\ vpc = "decode" => picture # NoPacket

PacketInv == ReaderInv /\ Part(jobs, job, Sounds, reader) /\ Part(pictures, picture, Images, reader)

-----------------------------------------------------------------------------
(* No sound is an image, and none of them is NULL. *)
LEMMA Kinds ==
  /\ NoPacket \notin Sounds /\ NoPacket \notin Images
  /\ \A p \in Sounds, q \in Images : p # q
  /\ \A p \in Sounds \cup Images : p \in Nat \X Nat \X Nat \X Nat
<1>1. Len(File) \in Nat
  BY PlayerAssumption, LenProperties
<1>2. Packets \subseteq Nat \X Nat \X Nat \X Nat
  BY <1>1 DEF Packets
<1>. QED
  BY <1>2, PlayerAssumption DEF Sounds, Images

(* What was read before stays so when the reader goes on, opens another stream, *)
(* seeks or closes the stream.                                                  *)
LEMMA OldStays ==
  ASSUME NEW Kind \in {Sounds, Images}, NEW p \in Kind, NEW r, NEW s,
         r.opens \in Nat, r.seeks \in Nat, s.opens \in Nat, s.seeks \in Nat, r.pos \in Nat, s.pos \in Nat,
         r.opens <= s.opens, r.seeks <= s.seeks,
         \/ s.stream = 0
         \/ s.stream = r.opens + 1
         \/ s.stream = r.stream /\ (s.seeks = r.seeks => r.pos <= s.pos),
         Old(p, r)
  PROVE  Old(p, s)
<1>1. p \in Nat \X Nat \X Nat \X Nat
  BY Kinds
<1>. QED
  BY <1>1 DEF Old

(* So does a part whose packets are not touched. *)
LEMMA PartStays ==
  ASSUME NEW Kind \in {Sounds, Images}, NEW queue, NEW held, NEW r, NEW s,
         r.opens \in Nat, r.seeks \in Nat, s.opens \in Nat, s.seeks \in Nat, r.pos \in Nat, s.pos \in Nat,
         r.opens <= s.opens, r.seeks <= s.seeks,
         \/ s.stream = 0
         \/ s.stream = r.opens + 1
         \/ s.stream = r.stream /\ (s.seeks = r.seeks => r.pos <= s.pos),
         Part(queue, held, Kind, r)
  PROVE  Part(queue, held, Kind, s)
<1>1. \A p \in Kind : Old(p, r) => Old(p, s)
  BY OldStays
<1>2. /\ queue \in Seq(Kind) /\ held \in Kind \cup {NoPacket}
      /\ \A i, j \in 1 .. Len(queue) : i # j => queue[i] # queue[j]
      /\ \A i \in 1 .. Len(queue) : Old(queue[i], r) /\ queue[i] # held
      /\ held # NoPacket => Old(held, r)
  BY DEF Part
<1>3. \A i \in 1 .. Len(queue) : queue[i] \in Kind
  BY <1>2, LenProperties
<1>. QED
  BY <1>1, <1>2, <1>3 DEF Part

(* A packet just read is in no other place. *)
LEMMA PartPushed ==
  ASSUME NEW Kind \in {Sounds, Images}, NEW queue, NEW held, NEW r, NEW p \in Kind,
         r.opens \in Nat, r.seeks \in Nat, r.pos \in Nat, r.stream \in 1 .. r.opens,
         p[1] = r.stream, p[2] = r.seeks, p[3] = r.pos + 1,
         Part(queue, held, Kind, r)
  PROVE  ~Old(p, r) /\ \A s : /\ s.opens = r.opens /\ s.stream = r.stream
                              /\ s.seeks = r.seeks /\ s.pos = r.pos + 1
                              => Part(Append(queue, p), held, Kind, s)
<1>1. /\ queue \in Seq(Kind) /\ held \in Kind \cup {NoPacket}
      /\ \A i, j \in 1 .. Len(queue) : i # j => queue[i] # queue[j]
      /\ \A i \in 1 .. Len(queue) : Old(queue[i], r) /\ queue[i] # held
      /\ held # NoPacket => Old(held, r)
  BY DEF Part
<1>2. ~Old(p, r)
  BY DEF Old
<1>3. /\ Append(queue, p) \in Seq(Kind)
      /\ Len(Append(queue, p)) = Len(queue) + 1 /\ Len(queue) \in Nat
      /\ \A i \in 1 .. Len(queue) : Append(queue, p)[i] = queue[i]
      /\ Append(queue, p)[Len(queue) + 1] = p
  BY <1>1, AppendProperties, LenProperties
<1>4. ASSUME NEW s, s.opens = r.opens, s.stream = r.stream, s.seeks = r.seeks, s.pos = r.pos + 1
      PROVE  Part(Append(queue, p), held, Kind, s)
  <2>1. \A q \in Kind : Old(q, r) => Old(q, s)
    BY <1>4, OldStays
  <2>2. Old(p, s)
    BY <1>4 DEF Old
  <2>3. \A i \in 1 .. Len(queue) : queue[i] \in Kind /\ queue[i] # p
    BY <1>1, <1>2, LenProperties
  <2>4. p # held
    BY <1>1, <1>2, Kinds
  <2>5. \A i \in 1 .. Len(Append(queue, p)) : i \in 1 .. Len(queue) \/ i = Len(queue) + 1
    BY <1>3
  <2>6. \A i \in 1 .. Len(Append(queue, p)) : Old(Append(queue, p)[i], s) /\ Append(queue, p)[i] # held
    BY <1>1, <1>3, <2>1, <2>2, <2>3, <2>4, <2>5
  <2>7. \A i, j \in 1 .. Len(Append(queue, p)) : i # j => Append(queue, p)[i] # Append(queue, p)[j]
    BY <1>1, <1>3, <2>3, <2>5
  <2>. QED
    BY <1>1, <1>3, <2>1, <2>6, <2>7 DEF Part
<1>. QED
  BY <1>2, <1>4

(* Taking the first packet of a queue in hand. *)
LEMMA PartPopped ==
  ASSUME NEW Kind \in {Sounds, Images}, NEW queue, NEW held, NEW r, queue # <<>>,
         Part(queue, held, Kind, r)
  PROVE  Part(Tail(queue), Head(queue), Kind, r) /\ Part(Tail(queue), held, Kind, r) /\ Head(queue) # NoPacket
<1>1. /\ queue \in Seq(Kind) /\ held \in Kind \cup {NoPacket}
      /\ \A i, j \in 1 .. Len(queue) : i # j => queue[i] # queue[j]
      /\ \A i \in 1 .. Len(queue) : Old(queue[i], r) /\ queue[i] # held
      /\ held # NoPacket => Old(held, r)
  BY DEF Part
<1>2. /\ Head(queue) \in Kind /\ Tail(queue) \in Seq(Kind) /\ Len(queue) \in Nat
      /\ Len(Tail(queue)) = Len(queue) - 1 /\ Len(Tail(queue)) \in Nat
      /\ \A i \in 1 .. Len(Tail(queue)) : Tail(queue)[i] = queue[i + 1]
      /\ Head(queue) = queue[1]
  BY <1>1, HeadTailProperties, LenProperties
<1>3. /\ 1 \in 1 .. Len(queue)
      /\ \A i \in 1 .. Len(Tail(queue)) : i + 1 \in 1 .. Len(queue) /\ i + 1 # 1
  BY <1>2
<1>4. \A i \in 1 .. Len(Tail(queue)) :
        Old(Tail(queue)[i], r) /\ Tail(queue)[i] # held /\ Tail(queue)[i] # Head(queue)
  BY <1>1, <1>2, <1>3
<1>5. \A i, j \in 1 .. Len(Tail(queue)) : i # j => Tail(queue)[i] # Tail(queue)[j]
  <2>1. \A i, j \in 1 .. Len(Tail(queue)) : i # j => i + 1 # j + 1
    BY <1>2
  <2>. QED
    BY <1>1, <1>2, <1>3, <2>1
<1>6. Old(Head(queue), r)
  BY <1>1, <1>2, <1>3
<1>. QED
  BY <1>1, <1>2, <1>4, <1>5, <1>6, Kinds DEF Part

(* Freeing the packet in hand. *)
LEMMA PartFreed ==
  ASSUME NEW Kind \in {Sounds, Images}, NEW queue, NEW held, NEW r,
         Part(queue, held, Kind, r)
  PROVE  Part(queue, NoPacket, Kind, r)
<1>1. /\ queue \in Seq(Kind) /\ held \in Kind \cup {NoPacket}
      /\ \A i, j \in 1 .. Len(queue) : i # j => queue[i] # queue[j]
      /\ \A i \in 1 .. Len(queue) : Old(queue[i], r) /\ queue[i] # held
      /\ held # NoPacket => Old(held, r)
  BY DEF Part
<1>2. \A i \in 1 .. Len(queue) : queue[i] \in Kind
  BY <1>1, LenProperties
<1>. QED
  BY <1>1, <1>2, Kinds DEF Part
-----------------------------------------------------------------------------
(* Nothing was read yet. *)
LEMMA PacketInit == Init => PacketInv
<1>. SUFFICES ASSUME Init PROVE PacketInv
  OBVIOUS
<1>1. Len(File) \in Nat
  BY PlayerAssumption, LenProperties
<1>2. ReaderInv
  BY <1>1 DEF Init, ReaderInv
<1>3. <<>> \in Seq(Sounds) /\ <<>> \in Seq(Images) /\ Len(<<>>) = 0
  BY EmptySeq
<1>. QED
  BY <1>2, <1>3 DEF Init, PacketInv, Part

(* What the parts say does not change while nobody touches them and the reader *)
(* moves as a reader may.                                                      *)
LEMMA PartsStay ==
  ASSUME PacketInv, ReaderInv', UNCHANGED <<jobs, job, pictures, picture>>,
         opens <= opens', seeks <= seeks',
         \/ stream' = 0
         \/ stream' = opens + 1
         \/ stream' = stream /\ (seeks' = seeks => pos <= pos')
  PROVE  PacketInv'
<1>1. /\ opens \in Nat /\ seeks \in Nat /\ pos \in Nat /\ opens' \in Nat /\ seeks' \in Nat /\ pos' \in Nat
      /\ Part(jobs, job, Sounds, reader) /\ Part(pictures, picture, Images, reader)
  BY DEF PacketInv, ReaderInv
<1>2. /\ reader.opens = opens /\ reader.seeks = seeks /\ reader.stream = stream /\ reader.pos = pos
      /\ reader'.opens = opens' /\ reader'.seeks = seeks' /\ reader'.stream = stream' /\ reader'.pos = pos'
  BY DEF reader
<1>3. Part(jobs, job, Sounds, reader') /\ Part(pictures, picture, Images, reader')
  BY <1>1, <1>2, PartStays
<1>. QED
  BY <1>3 DEF PacketInv

LEMMA ContextStep == ContextInv /\ [Next]_vars => ContextInv'
<1>. SUFFICES ASSUME ContextInv, [Next]_vars PROVE ContextInv'
  OBVIOUS
<1>. USE DEF ContextInv
<1>1. CASE OpenStream
  <2>1. UNCHANGED <<audio, video>> /\ (opens' = opens \/ opens' = opens + 1)
    BY <1>1 DEF OpenStream, audioVars, videoVars
  <2>. QED
    BY <2>1
<1>2. CASE OpenAudio
  <2>1. UNCHANGED <<video, opens>> /\ (audio' = audio \/ audio' = opens)
    BY <1>2 DEF OpenAudio, videoVars, counts
  <2>. QED
    BY <2>1
<1>3. CASE OpenVideo
  <2>1. UNCHANGED <<audio, opens>> /\ (video' = video \/ video' = opens)
    BY <1>3 DEF OpenVideo, audioVars, counts
  <2>. QED
    BY <2>1
<1>4. ASSUME UNCHANGED opens, audio' \in {audio, 0}, video' \in {video, 0} PROVE ContextInv'
  BY <1>4
<1>5. CASE \/ Leave \/ PopTask \/ Play \/ Pause \/ Move \/ Read \/ Sync \/ CloseContexts \/ CloseDevice
           \/ CloseVideo \/ IsEmpty \/ DropPicture
  BY <1>4, <1>5 DEF Leave, PopTask, Play, Pause, Move, Read, Sync, CloseContexts, CloseDevice, CloseVideo, IsEmpty,
                    DropPicture, audioVars, videoVars, counts
<1>6. CASE \/ PopJob \/ DecodeJob \/ Callback \/ FrontPicture \/ TestPts \/ PopPicture \/ ShowPicture
           \/ (\E t \in Wishes : Call(t)) \/ UNCHANGED vars
  BY <1>4, <1>6 DEF PopJob, DecodeJob, Callback, FrontPicture, TestPts, PopPicture, ShowPicture, Call, vars,
                    audioVars, videoVars, counts
<1>7. CASE KillVideo \/ EndVideo \/ EndIsEmpty \/ EndDropPicture \/ KillAudio \/ EndAudio \/ EndDevice \/ Join
  BY <1>4, <1>7 DEF KillVideo, EndVideo, EndIsEmpty, EndDropPicture, KillAudio, EndAudio, EndDevice, Join, EGoes,
                    audioVars, videoVars, counts
<1>. QED
  BY <1>1, <1>2, <1>3, <1>5, <1>6, <1>7 DEF Next, SchedulerStep, WorkerStep, VideoStep, EndStep

LEMMA ContextInvHolds == SafeSpec => []ContextInv
<1>1. Init => ContextInv
  BY DEF Init, ContextInv
<1>. QED
  BY <1>1, ContextStep, PTL DEF SafeSpec

(* The scheduler's thread, but for reading the file and emptying the queue of pictures. *)
LEMMA PacketTask ==
  ASSUME PacketInv,
         \/ Leave \/ PopTask \/ OpenStream \/ OpenAudio \/ OpenVideo \/ Play \/ Pause \/ Move \/ Sync
         \/ CloseContexts \/ CloseDevice \/ CloseVideo
  PROVE  PacketInv'
<1>1. UNCHANGED <<jobs, apc, job, pictures, vpc, picture>>
  BY DEF Leave, PopTask, OpenStream, OpenAudio, OpenVideo, Play, Pause, Move, Sync, CloseContexts, CloseDevice,
         CloseVideo, workerVars, pictureVars
<1>2. ReaderInv
  BY DEF PacketInv
<1>3. Len(File) \in Nat
  BY PlayerAssumption, LenProperties
<1>4. CASE OpenStream
  <2>1. ReaderInv' /\ opens <= opens' /\ seeks <= seeks' /\ (stream' = 0 \/ stream' = opens + 1)
    <3>1. \/ stream' = opens + 1 /\ opens' = opens + 1
          \/ stream' = 0 /\ opens' = opens
      BY <1>4 DEF OpenStream
    <3>2. pos' = 0 /\ seeks' = seeks
      BY <1>4 DEF OpenStream
    <3>. QED
      BY <1>1, <1>2, <1>3, <3>1, <3>2 DEF ReaderInv
  <2>. QED
    BY <1>1, <2>1, PartsStay
<1>5. CASE Move
  <2>1. \/ UNCHANGED <<pos, seeks>>
        \/ pos' \in 0 .. Len(File) /\ seeks' = seeks + 1
    BY <1>5 DEF Move
  <2>2. UNCHANGED <<opens, stream>>
    BY <1>5 DEF Move, counts
  <2>3. ReaderInv' /\ opens <= opens' /\ seeks <= seeks' /\ (seeks' = seeks => pos <= pos')
    BY <1>1, <1>2, <1>3, <2>1, <2>2 DEF ReaderInv
  <2>. QED
    BY <1>1, <2>2, <2>3, PartsStay
<1>6. ASSUME UNCHANGED <<opens, seeks, pos>>, stream' = 0 \/ stream' = stream
      PROVE  PacketInv'
  <2>1. ReaderInv' /\ opens <= opens' /\ seeks <= seeks' /\ pos <= pos'
    BY <1>1, <1>2, <1>3, <1>6 DEF ReaderInv
  <2>. QED
    BY <1>1, <1>6, <2>1, PartsStay
<1>7. CASE Leave \/ PopTask \/ OpenAudio \/ OpenVideo \/ Play \/ Pause \/ Sync \/ CloseContexts \/ CloseDevice \/ CloseVideo
  BY <1>6, <1>7 DEF Leave, PopTask, OpenAudio, OpenVideo, Play, Pause, Sync, CloseContexts, CloseDevice, CloseVideo,
                    streamVars, counts
<1>. QED
  BY <1>4, <1>5, <1>7

(* Reading appends a new packet to one of the queues, or to none. *)
LEMMA PacketRead ==
  ASSUME PacketInv, ContextInv, Read
  PROVE  PacketInv'
<1>1. UNCHANGED <<stream, seeks, opens, apc, job, vpc, picture>>
  BY DEF Read, counts
<1>2. /\ ReaderInv /\ opens \in Nat /\ seeks \in Nat /\ pos \in Nat /\ stream \in 0 .. opens
      /\ Part(jobs, job, Sounds, reader) /\ Part(pictures, picture, Images, reader)
  BY DEF PacketInv, ReaderInv
<1>3. CASE UNCHANGED <<pos, jobs, pictures>>
  BY <1>1, <1>2, <1>3, PartsStay DEF ReaderInv
<1>4. CASE stream # 0 /\ pos < Len(File) /\ pos' = pos + 1
  <2>. DEFINE packet(context) == <<stream, seeks, pos + 1, context>>
  <2>0. Len(File) \in Nat
    BY PlayerAssumption, LenProperties
  <2>1. ReaderInv'
    BY <1>1, <1>2, <1>4, <2>0 DEF ReaderInv
  <2>2. /\ reader.opens = opens /\ reader.seeks = seeks /\ reader.stream = stream /\ reader.pos = pos
        /\ reader'.opens = opens /\ reader'.seeks = seeks /\ reader'.stream = stream /\ reader'.pos = pos + 1
    BY <1>1, <1>4 DEF reader
  <2>3. Part(jobs, job, Sounds, reader') /\ Part(pictures, picture, Images, reader')
    BY <1>2, <2>2, PartStays
  <2>4. /\ reader.stream \in 1 .. reader.opens
        /\ \A c \in Nat : /\ packet(c) \in Packets /\ packet(c)[1] = stream
                          /\ packet(c)[2] = seeks /\ packet(c)[3] = pos + 1
    BY <1>2, <1>4, <2>0, <2>2 DEF Packets
  <2>8. audio \in Nat /\ video \in Nat
    BY DEF ContextInv
  <2>5. CASE File[pos + 1] = "audio" /\ jobs' = Append(jobs, packet(audio)) /\ pictures' = pictures
    <3>1. packet(audio) \in Sounds
      BY <2>4, <2>5, <2>8 DEF Sounds
    <3>2. Part(Append(jobs, packet(audio)), job, Sounds, reader')
      BY <1>2, <2>2, <2>4, <2>8, <3>1, PartPushed
    <3>. QED
      BY <1>1, <2>1, <2>3, <2>5, <3>2 DEF PacketInv
  <2>6. CASE File[pos + 1] = "video" /\ pictures' = Append(pictures, packet(video)) /\ jobs' = jobs
    <3>1. packet(video) \in Images
      BY <2>4, <2>6, <2>8 DEF Images
    <3>2. Part(Append(pictures, packet(video)), picture, Images, reader')
      BY <1>2, <2>2, <2>4, <2>8, <3>1, PartPushed
    <3>. QED
      BY <1>1, <2>1, <2>3, <2>6, <3>2 DEF PacketInv
  <2>7. CASE UNCHANGED <<jobs, pictures>>
    BY <1>1, <2>1, <2>3, <2>7 DEF PacketInv
  <2>. QED
    BY <1>3, <1>4, <2>5, <2>6, <2>7 DEF Read, PictureQueue!Push
<1>. QED
  BY <1>3, <1>4 DEF Read

(* The threads that take packets, and the calls that drain a queue. *)
LEMMA PacketTaken ==
  ASSUME PacketInv, PopJob \/ DecodeJob \/ FrontPicture \/ TestPts \/ PopPicture \/ ShowPicture
  PROVE  PacketInv'
<1>1. UNCHANGED reader /\ UNCHANGED <<opens, seeks, pos, stream>>
  BY DEF PopJob, DecodeJob, FrontPicture, TestPts, PopPicture, ShowPicture, reader, streamVars, counts
<1>2. ReaderInv /\ Part(jobs, job, Sounds, reader) /\ Part(pictures, picture, Images, reader)
  BY DEF PacketInv
<1>3. CASE PopJob
  <2>1. UNCHANGED <<pictures, vpc, picture>> /\ jobs # <<>> /\ jobs' = Tail(jobs)
    BY <1>3 DEF PopJob, pictureVars
  <2>2. Part(Tail(jobs), Head(jobs), Sounds, reader) /\ Part(Tail(jobs), job, Sounds, reader) /\ Head(jobs) # NoPacket
    BY <1>2, <2>1, PartPopped
  <2>3. UNCHANGED <<apc, job>> \/ (apc' = "decode" /\ job' = Head(jobs))
    BY <1>3 DEF PopJob
  <2>4. ReaderInv'
    BY <1>1, <1>2, <2>1, <2>2, <2>3 DEF ReaderInv
  <2>. QED
    BY <1>1, <1>2, <2>1, <2>2, <2>3, <2>4 DEF PacketInv
<1>4. CASE DecodeJob
  <2>1. UNCHANGED <<jobs, pictures, vpc, picture>> /\ apc' = "pop" /\ job' = NoPacket
    BY <1>4 DEF DecodeJob, pictureVars
  <2>2. Part(jobs, NoPacket, Sounds, reader)
    BY <1>2, PartFreed
  <2>. QED
    BY <1>1, <1>2, <2>1, <2>2 DEF PacketInv, ReaderInv
<1>5. CASE FrontPicture \/ TestPts
  <2>1. UNCHANGED <<jobs, apc, job, pictures, picture>> /\ (vpc' = vpc \/ vpc' # "decode")
    BY <1>5 DEF FrontPicture, TestPts, VGoes, workerVars, pictureVars
  <2>. QED
    BY <1>1, <1>2, <2>1 DEF PacketInv, ReaderInv
<1>6. CASE PopPicture
  <2>1. UNCHANGED <<jobs, apc, job>> /\ vpc' = IF pictures = <<>> THEN "front" ELSE "decode"
    BY <1>6 DEF PopPicture, workerVars
  <2>2. CASE pictures = <<>>
    <3>1. picture' = NoPacket /\ pictures' = pictures
      BY <1>6, <2>2 DEF PopPicture, PictureQueue!Pop, PictureQueue!Front
    <3>2. Part(pictures, NoPacket, Images, reader)
      BY <1>2, PartFreed
    <3>. QED
      BY <1>1, <1>2, <2>1, <2>2, <3>1, <3>2 DEF PacketInv, ReaderInv
  <2>3. CASE pictures # <<>>
    <3>1. picture' = Head(pictures) /\ pictures' = Tail(pictures)
      BY <1>6, <2>3 DEF PopPicture, PictureQueue!Pop, PictureQueue!Front
    <3>2. Part(Tail(pictures), Head(pictures), Images, reader) /\ Head(pictures) # NoPacket
      BY <1>2, <2>3, PartPopped
    <3>. QED
      BY <1>1, <1>2, <2>1, <2>3, <3>1, <3>2 DEF PacketInv, ReaderInv
  <2>. QED
    BY <2>2, <2>3
<1>7. CASE ShowPicture
  <2>1. UNCHANGED <<jobs, apc, job, pictures>> /\ vpc' = "front" /\ picture' = NoPacket
    BY <1>7 DEF ShowPicture, workerVars
  <2>2. Part(pictures, NoPacket, Images, reader)
    BY <1>2, PartFreed
  <2>. QED
    BY <1>1, <1>2, <2>1, <2>2 DEF PacketInv, ReaderInv
<1>. QED
  BY <1>3, <1>4, <1>5, <1>6, <1>7

LEMMA PacketRest ==
  ASSUME PacketInv,
         \/ IsEmpty \/ EndIsEmpty \/ DropPicture \/ EndDropPicture
         \/ Callback \/ (\E t \in Wishes : Call(t)) \/ KillVideo
         \/ EndVideo \/ KillAudio \/ EndAudio \/ EndDevice \/ Join \/ UNCHANGED vars
  PROVE  PacketInv'
<1>1. ReaderInv /\ Part(jobs, job, Sounds, reader) /\ Part(pictures, picture, Images, reader)
  BY DEF PacketInv
<1>2. ASSUME UNCHANGED <<opens, seeks, pos, stream, jobs, job, picture>>,
             apc' = apc \/ apc' = "gone", vpc' = vpc \/ vpc' = "gone",
             pictures' = pictures \/ (pictures # <<>> /\ pictures' = Tail(pictures))
      PROVE  PacketInv'
  <2>1. reader' = reader /\ ReaderInv'
    BY <1>1, <1>2 DEF reader, ReaderInv
  <2>2. Part(pictures', picture, Images, reader)
    BY <1>1, <1>2, PartPopped
  <2>. QED
    BY <1>1, <1>2, <2>1, <2>2 DEF PacketInv
<1>3. CASE IsEmpty \/ EndIsEmpty
  BY <1>2, <1>3 DEF IsEmpty, EndIsEmpty, EGoes, streamVars, workerVars, pictureVars, counts
<1>8. CASE DropPicture \/ EndDropPicture
  BY <1>2, <1>8 DEF DropPicture, EndDropPicture, PictureQueue!Pop, EGoes, streamVars, workerVars, counts
<1>4. CASE Callback \/ \E t \in Wishes : Call(t)
  BY <1>2, <1>4 DEF Callback, Call, streamVars, workerVars, pictureVars, counts
<1>5. CASE KillVideo \/ KillAudio
  BY <1>2, <1>5 DEF KillVideo, KillAudio, EGoes, streamVars, workerVars, pictureVars, counts
<1>6. CASE EndVideo \/ EndAudio \/ EndDevice \/ Join
  BY <1>2, <1>6 DEF EndVideo, EndAudio, EndDevice, Join, EGoes, streamVars, workerVars, pictureVars, counts
<1>7. CASE UNCHANGED vars
  BY <1>2, <1>7 DEF vars, streamVars, workerVars, pictureVars, counts
<1>. QED
  BY <1>3, <1>4, <1>5, <1>6, <1>7, <1>8

LEMMA PacketStep == PacketInv /\ ContextInv /\ [Next]_vars => PacketInv'
BY PacketTask, PacketRead, PacketTaken, PacketRest DEF Next, SchedulerStep, WorkerStep, VideoStep, EndStep

LEMMA PacketInvHolds == SafeSpec => []PacketInv
BY PacketInit, PacketStep, ContextInvHolds, PTL DEF SafeSpec
Distinct(s) == \A i, j \in 1 .. Len(s) : i # j => s[i] # s[j]

(* Two sequences of distinct packets that share none, one after the other. *)
LEMMA DistinctConcat ==
  ASSUME NEW S, NEW s \in Seq(S), NEW t \in Seq(S), Distinct(s), Distinct(t),
         \A i \in 1 .. Len(s), j \in 1 .. Len(t) : s[i] # t[j]
  PROVE  /\ s \o t \in Seq(S) /\ Distinct(s \o t)
         /\ \A p : /\ \A i \in 1 .. Len(s) : s[i] # p
                   /\ \A i \in 1 .. Len(t) : t[i] # p
                   => \A i \in 1 .. Len(s \o t) : (s \o t)[i] # p
<1>1. /\ Len(s) \in Nat /\ Len(t) \in Nat /\ s \o t \in Seq(S) /\ Len(s \o t) = Len(s) + Len(t)
      /\ \A i \in 1 .. Len(s) + Len(t) : (s \o t)[i] = IF i <= Len(s) THEN s[i] ELSE t[i - Len(s)]
  BY ConcatProperties, LenProperties
<1>2. \A i \in 1 .. Len(s \o t) :
        \/ i \in 1 .. Len(s) /\ (s \o t)[i] = s[i]
        \/ i - Len(s) \in 1 .. Len(t) /\ (s \o t)[i] = t[i - Len(s)]
  BY <1>1
<1>3. ASSUME NEW i \in 1 .. Len(s \o t), NEW j \in 1 .. Len(s \o t), i # j
      PROVE  (s \o t)[i] # (s \o t)[j]
  <2>1. i - Len(s) # j - Len(s)
    BY <1>1, <1>3
  <2>. QED
    BY <1>2, <1>3, <2>1 DEF Distinct
<1>4. Distinct(s \o t)
  BY <1>3 DEF Distinct
<1>5. ASSUME NEW p, \A i \in 1 .. Len(s) : s[i] # p, \A i \in 1 .. Len(t) : t[i] # p
      PROVE  \A i \in 1 .. Len(s \o t) : (s \o t)[i] # p
  BY <1>2, <1>5
<1>. QED
  BY <1>1, <1>4, <1>5

(* The packets in all places: sounds and pictures differ, and so do those of  *)
(* one part.                                                                  *)
LEMMA PartsAreDistinct == PacketInv => HeldOnce
<1>. SUFFICES ASSUME PacketInv PROVE HeldOnce
  OBVIOUS
<1>. DEFINE S == Sounds \cup Images
            one(p) == IF p = NoPacket THEN <<>> ELSE <<p>>
<1>1. /\ jobs \in Seq(Sounds) /\ job \in Sounds \cup {NoPacket} /\ Distinct(jobs)
      /\ \A i \in 1 .. Len(jobs) : jobs[i] # job
      /\ pictures \in Seq(Images) /\ picture \in Images \cup {NoPacket} /\ Distinct(pictures)
      /\ \A i \in 1 .. Len(pictures) : pictures[i] # picture
  BY DEF PacketInv, Part, Distinct
<1>2. /\ \A i \in 1 .. Len(jobs) : jobs[i] \in Sounds
      /\ \A i \in 1 .. Len(pictures) : pictures[i] \in Images
  BY <1>1, LenProperties
<1>3. jobs \in Seq(S) /\ pictures \in Seq(S)
  BY <1>1
<1>4. ASSUME NEW p \in S \cup {NoPacket}
      PROVE  /\ one(p) \in Seq(S) /\ Distinct(one(p))
             /\ \A i \in 1 .. Len(one(p)) : one(p)[i] = p /\ p # NoPacket
  <2>1. CASE p = NoPacket
    BY <2>1 DEF Distinct
  <2>2. CASE p # NoPacket
    <3>1. one(p) = <<p>> /\ p \in S
      BY <2>2
    <3>2. <<p>> \in Seq(S) /\ Len(<<p>>) = 1 /\ <<p>>[1] = p
      BY <3>1
    <3>. QED
      BY <2>2, <3>1, <3>2 DEF Distinct
  <2>. QED
    BY <2>1, <2>2
<1>. DEFINE jp == jobs \o pictures
            jpj == jp \o one(job)
<1>5. /\ jp \in Seq(S) /\ Distinct(jp)
      /\ job # NoPacket => \A i \in 1 .. Len(jp) : jp[i] # job
      /\ picture # NoPacket => \A i \in 1 .. Len(jp) : jp[i] # picture
  <2>1. \A i \in 1 .. Len(jobs), j \in 1 .. Len(pictures) : jobs[i] # pictures[j]
    BY <1>2, Kinds
  <2>2. /\ jp \in Seq(S) /\ Distinct(jp)
        /\ \A p : /\ \A i \in 1 .. Len(jobs) : jobs[i] # p
                  /\ \A i \in 1 .. Len(pictures) : pictures[i] # p
                  => \A i \in 1 .. Len(jp) : jp[i] # p
    BY <1>1, <1>3, <2>1, DistinctConcat
  <2>3. job # NoPacket => \A i \in 1 .. Len(pictures) : pictures[i] # job
    BY <1>1, <1>2, Kinds
  <2>4. picture # NoPacket => \A i \in 1 .. Len(jobs) : jobs[i] # picture
    BY <1>1, <1>2, Kinds
  <2>. QED
    BY <1>1, <2>2, <2>3, <2>4
<1>. HIDE DEF jp, one
<1>6. /\ jpj \in Seq(S) /\ Distinct(jpj)
      /\ picture # NoPacket => \A i \in 1 .. Len(jpj) : jpj[i] # picture
  <2>1. \A i \in 1 .. Len(jp), j \in 1 .. Len(one(job)) : jp[i] # one(job)[j]
    BY <1>1, <1>4, <1>5
  <2>2. /\ jpj \in Seq(S) /\ Distinct(jpj)
        /\ \A p : /\ \A i \in 1 .. Len(jp) : jp[i] # p
                  /\ \A i \in 1 .. Len(one(job)) : one(job)[i] # p
                  => \A i \in 1 .. Len(jpj) : jpj[i] # p
    <3>1. one(job) \in Seq(S) /\ Distinct(one(job))
      BY <1>1, <1>4
    <3>. QED
      BY <1>5, <2>1, <3>1, DistinctConcat
  <2>3. job # NoPacket => job # picture
    BY <1>1, Kinds
  <2>4. \A i \in 1 .. Len(one(job)) : one(job)[i] = job /\ job # NoPacket
    BY <1>1, <1>4
  <2>. QED
    BY <1>5, <2>2, <2>3, <2>4
<1>. HIDE DEF jpj
<1>7. Distinct(jpj \o one(picture))
  <2>1. \A i \in 1 .. Len(jpj), j \in 1 .. Len(one(picture)) : jpj[i] # one(picture)[j]
    BY <1>1, <1>4, <1>6
  <2>2. one(picture) \in Seq(S) /\ Distinct(one(picture))
    BY <1>1, <1>4
  <2>. QED
    BY <1>6, <2>1, <2>2, DistinctConcat
<1>8. Held = jpj \o one(picture)
  BY DEF Held, jpj, jp, one
<1>. QED
  BY <1>7, <1>8 DEF HeldOnce, Distinct

(* For any file, wishes and number of calls: no packet is in two places, so    *)
(* that whoever frees it frees it alone, however the threads and close() take  *)
(* turns (FFAudio.hpp:19-28, FFVideo.hpp:19-30, 77-87).                        *)
THEOREM PacketsHeldOnce == SafeSpec => []HeldOnce
BY PacketInvHolds, PartsAreDistinct, PTL

-----------------------------------------------------------------------------
(* The end of the file, between the last read and on_EOF_ *)

EofUnderway == task = NoTask /\ spc \in {"closeDevice", "closeVideo", "isEmpty", "drop"}
EofComing == EofUnderway \/ (task = NoTask /\ spc \in {"read", "close"})

EofInv ==
  /\ eofs \in Nat /\ plays \in Nat
  /\ eofs <= plays
  /\ started \/ EofComing => eofs < plays
  /\ EofUnderway => ~started
  /\ spc \in {"open", "openAudio", "openVideo", "closeAudio"} => task = "open"

(* The steps of the scheduler's thread. *)
LEMMA EofTask ==
  ASSUME EofInv, SchedulerStep
  PROVE  EofInv'
<1>1. /\ eofs \in Nat /\ plays \in Nat /\ eofs <= plays
      /\ started => eofs < plays
      /\ EofComing => eofs < plays
      /\ EofUnderway => ~started
      /\ spc \in {"open", "openAudio", "openVideo", "closeAudio"} => task = "open"
  BY DEF EofInv
<1>2. NoTask \notin {"open", "close", "play", "pause", "move"}
  BY PlayerAssumption
<1>. USE DEF EofUnderway, EofComing, SGoes, counts
<1>3. CASE PopTask
  <2>1. PICK t \in Wishes \cup {NoTask} :
          /\ task' = t
          /\ spc' = IF t # NoTask THEN t ELSE IF started THEN "read" ELSE "top"
    BY <1>3 DEF PopTask
  <2>2. started' = started /\ eofs' = eofs /\ plays' = plays
    BY <1>3 DEF PopTask
  <2>3. t # NoTask => spc' \in {"open", "close", "play", "pause", "move"} /\ task' = spc'
    BY <2>1, PlayerAssumption
  <2>. QED
    BY <1>1, <1>2, <2>1, <2>2, <2>3 DEF EofInv
<1>4. CASE Play
  <2>1. plays' = plays + 1 /\ eofs' = eofs /\ spc' = "pop"
    BY <1>4 DEF Play
  <2>2. ~EofComing' /\ ~EofUnderway' /\ spc' \notin {"open", "openAudio", "openVideo", "closeAudio"}
    BY <2>1
  <2>3. eofs' \in Nat /\ plays' \in Nat /\ eofs' < plays' /\ eofs' <= plays'
    <3>1. eofs \in Nat /\ plays \in Nat /\ eofs <= plays
      BY <1>1, Zenon
    <3>. QED
      BY <2>1, <3>1
  <2>. QED
    BY <2>2, <2>3, Zenon DEF EofInv
<1>5. CASE IsEmpty /\ pictures = <<>>
  <2>1. /\ spc = "isEmpty" /\ spc' \in {"top", "pop"} /\ started' = started /\ plays' = plays
        /\ eofs' = IF task = NoTask THEN eofs + 1 ELSE eofs
    BY <1>5 DEF IsEmpty
  <2>2. ~EofComing' /\ ~EofUnderway' /\ spc' \notin {"open", "openAudio", "openVideo", "closeAudio"}
    BY <2>1
  <2>3. eofs' \in Nat /\ plays' \in Nat /\ eofs' <= plays'
    BY <1>1, <2>1
  <2>4. started' => eofs' < plays'
    <3>1. CASE task = NoTask
      BY <1>1, <2>1, <3>1, Zenon
    <3>2. CASE task # NoTask
      <4>1. eofs' = eofs
        BY <2>1, <3>2
      <4>. QED
        BY <1>1, <2>1, <4>1, Zenon
    <3>. QED
      BY <3>1, <3>2
  <2>. QED
    BY <2>2, <2>3, <2>4, Zenon DEF EofInv
<1>6. CASE CloseContexts
  <2>1. /\ spc \in {"close", "closeAudio"} /\ spc' = "closeDevice" /\ task' = task
        /\ eofs' = eofs /\ plays' = plays
    BY <1>6 DEF CloseContexts
  <2>2. (spc = "close" => ~started') /\ (started' => started)
    BY <1>6, Zenon DEF CloseContexts
  <2>. QED
    BY <1>1, <1>2, <2>1, <2>2 DEF EofInv
<1>7. CASE Read
  <2>1. /\ spc = "read" /\ spc' \in {"top", "sync", "close"}
        /\ UNCHANGED <<task, started, eofs, plays>>
    BY <1>7 DEF Read
  <2>. QED
    BY <1>1, <2>1 DEF EofInv
<1>8. CASE Pause
  <2>1. spc' = "pop" /\ started' = FALSE /\ UNCHANGED <<eofs, plays>>
    BY <1>8 DEF Pause
  <2>. QED
    BY <1>1, <2>1 DEF EofInv
<1>9. CASE CloseDevice \/ CloseVideo \/ DropPicture \/ (IsEmpty /\ pictures # <<>>)
  <2>1. /\ spc \in {"closeDevice", "closeVideo", "isEmpty", "drop"}
        /\ spc' \in {"pop", "closeVideo", "isEmpty", "drop"}
        /\ UNCHANGED <<task, started, eofs, plays>>
    BY <1>9 DEF CloseDevice, CloseVideo, DropPicture, IsEmpty
  <2>. QED
    BY <1>1, <2>1 DEF EofInv
<1>10. CASE OpenStream \/ OpenAudio \/ OpenVideo
  <2>1. /\ spc \in {"open", "openAudio", "openVideo"}
        /\ spc' \in {"openAudio", "openVideo", "closeAudio", "pop"}
        /\ UNCHANGED <<task, started, eofs, plays>>
    BY <1>10 DEF OpenStream, OpenAudio, OpenVideo
  <2>. QED
    BY <1>1, <2>1 DEF EofInv
<1>11. CASE Leave \/ Move \/ Sync
  <2>1. spc' \in {"over", "pop", "top"} /\ UNCHANGED <<task, started, eofs, plays>>
    BY <1>11 DEF Leave, Move, Sync
  <2>. QED
    BY <1>1, <2>1 DEF EofInv
<1>. QED
  BY <1>3, <1>4, <1>5, <1>6, <1>7, <1>8, <1>9, <1>10, <1>11 DEF SchedulerStep

(* The others only ever stop the scheduler. *)
LEMMA EofRest ==
  ASSUME EofInv, UNCHANGED <<spc, task, eofs, plays>>, started' => started
  PROVE  EofInv'
<1>1. EofComing' = EofComing /\ EofUnderway' = EofUnderway
  BY DEF EofComing, EofUnderway
<1>2. spc' = spc /\ task' = task /\ eofs' = eofs /\ plays' = plays
  OBVIOUS
<1>. QED
  BY <1>1, <1>2, Zenon DEF EofInv

LEMMA EofStep == EofInv /\ [Next]_vars => EofInv'
<1>. SUFFICES ASSUME EofInv, [Next]_vars PROVE EofInv'
  OBVIOUS
<1>1. CASE SchedulerStep
  BY <1>1, EofTask
<1>2. CASE WorkerStep \/ VideoStep \/ Callback \/ (\E t \in Wishes : Call(t)) \/ KillVideo
  BY <1>2, EofRest DEF WorkerStep, VideoStep, PopJob, DecodeJob, FrontPicture, TestPts, PopPicture, ShowPicture,
                       Callback, Call, KillVideo, EGoes, scheduler, counts
<1>3. CASE EndStep
  BY <1>3, EofRest DEF EndStep, EndVideo, EndIsEmpty, EndDropPicture, KillAudio, EndAudio, EndDevice, Join, EGoes,
                       scheduler, counts
<1>4. CASE UNCHANGED vars
  BY <1>4, EofRest DEF vars, scheduler, counts
<1>. QED
  BY <1>1, <1>2, <1>3, <1>4 DEF Next

(* For any file, wishes and number of calls: on_EOF_ is called at most once    *)
(* for each play(), also when opens fail and closes race with the end of the   *)
(* file (FFPlayer.hpp:23-79, 148-157).                                         *)
THEOREM EofIsPlayedOut == SafeSpec => []EofOncePerPlay
<1>1. Init => EofInv
  BY DEF Init, EofInv, EofComing, EofUnderway
<1>2. EofInv => EofOncePerPlay
  BY DEF EofInv, EofOncePerPlay
<1>. QED
  BY <1>1, <1>2, EofStep, PTL DEF SafeSpec

-----------------------------------------------------------------------------
(* The pictures of a file that was closed *)

Emptying == spc \in {"isEmpty", "drop"}

StrayInv ==
  /\ strays \in {0, 1}
  /\ gone \subseteq 1 .. opens /\ video \notin gone
  /\ spc \in {"openAudio", "openVideo"} => opens \notin gone
  /\ Emptying => video = 0 /\ strays = 0
  /\ \A i \in 1 .. Len(pictures) : pictures[i][4] \in gone => Emptying
  /\ vpc = "decode" /\ picture[4] \in gone => strays = 0

(* A queue that was popped holds what it held. *)
LEMMA TailIsOld ==
  ASSUME NEW q \in Seq(Images), q # <<>>
  PROVE  /\ \A i \in 1 .. Len(Tail(q)) : \E j \in 1 .. Len(q) : Tail(q)[i] = q[j]
         /\ \E j \in 1 .. Len(q) : Head(q) = q[j]
<1>1. /\ Len(q) \in Nat /\ Len(Tail(q)) = Len(q) - 1 /\ Len(Tail(q)) \in Nat
      /\ \A i \in 1 .. Len(Tail(q)) : Tail(q)[i] = q[i + 1]
      /\ Head(q) = q[1]
  BY HeadTailProperties, LenProperties
<1>2. 1 \in 1 .. Len(q) /\ \A i \in 1 .. Len(Tail(q)) : i + 1 \in 1 .. Len(q)
  BY <1>1
<1>. QED
  BY <1>1, <1>2

(* Steps that leave pictures, strays and the closed contexts alone, or take a *)
(* picture from the queue for nobody.                                        *)
LEMMA StrayStays ==
  ASSUME PacketInv, StrayInv, UNCHANGED <<opens, strays, gone, picture>>,
         video' \in {video, 0}, vpc' = vpc \/ vpc' # "decode",
         pictures' = pictures \/ (pictures # <<>> /\ pictures' = Tail(pictures)),
         Emptying' <=> Emptying, spc' \in {"openAudio", "openVideo"} => spc' = spc \/ spc = "openAudio"
  PROVE  StrayInv'
<1>1. pictures \in Seq(Images)
  BY DEF PacketInv, Part
<1>2. \A i \in 1 .. Len(pictures') : \E j \in 1 .. Len(pictures) : pictures'[i] = pictures[j]
  BY <1>1, TailIsOld
<1>3. 0 \notin gone
  BY DEF StrayInv
<1>. QED
  BY <1>2, <1>3 DEF StrayInv

(* Opening: the number of the new contexts is new. *)
LEMMA StrayOpened ==
  ASSUME PacketInv, ContextInv, StrayInv, OpenStream \/ OpenAudio \/ OpenVideo
  PROVE  StrayInv'
<1>1. UNCHANGED <<strays, gone, pictures, picture, vpc>>
  BY DEF OpenStream, OpenAudio, OpenVideo, videoVars, pictureVars
<1>2. ~Emptying /\ ~Emptying'
  BY DEF OpenStream, OpenAudio, OpenVideo, SGoes, Emptying
<1>3. /\ opens \in Nat /\ gone \subseteq 1 .. opens /\ video \notin gone
      /\ spc \in {"openAudio", "openVideo"} => opens \notin gone
  BY DEF ContextInv, StrayInv
<1>4. /\ gone \subseteq 1 .. opens' /\ video' \notin gone
      /\ spc' \in {"openAudio", "openVideo"} => opens' \notin gone
  <2>1. CASE OpenStream
    <3>1. video' = video /\ \/ opens' = opens + 1
                            \/ opens' = opens /\ spc' = "pop"
      BY <2>1 DEF OpenStream, SGoes, videoVars
    <3>. QED
      BY <1>3, <3>1
  <2>2. CASE OpenAudio
    <3>1. spc = "openAudio" /\ UNCHANGED <<video, opens>>
      BY <2>2 DEF OpenAudio, videoVars, counts
    <3>. QED
      BY <1>3, <3>1
  <2>3. CASE OpenVideo
    <3>1. spc = "openVideo" /\ opens' = opens /\ (video' = video \/ video' = opens)
      BY <2>3 DEF OpenVideo, counts
    <3>. QED
      BY <1>3, <3>1
  <2>. QED
    BY <2>1, <2>2, <2>3
<1>. QED
  BY <1>1, <1>2, <1>4 DEF StrayInv

(* Reading: the context of a packet is the one in use, which was not closed. *)
LEMMA StrayRead ==
  ASSUME PacketInv, StrayInv, Read
  PROVE  StrayInv'
<1>1. /\ UNCHANGED <<strays, gone, video, opens, vpc, picture>>
      /\ spc = "read" /\ spc' \in {"top", "sync", "close"}
  BY DEF Read, SGoes, videoVars, counts
<1>2. ~Emptying /\ ~Emptying'
  BY <1>1 DEF Emptying
<1>3. PICK p : p[4] = video /\ (pictures' = pictures \/ pictures' = Append(pictures, p))
  <2>1. <<stream, seeks, pos + 1, video>>[4] = video
    OBVIOUS
  <2>. QED
    BY <2>1 DEF Read, PictureQueue!Push
<1>4. \A i \in 1 .. Len(pictures) : pictures[i][4] \notin gone
  BY <1>2 DEF StrayInv
<1>5. \A i \in 1 .. Len(pictures') : pictures'[i][4] \notin gone
  <2>1. pictures \in Seq(Images)
    BY DEF PacketInv, Part
  <2>2. CASE pictures' = Append(pictures, p)
    <3>1. \A i \in 1 .. Len(pictures') : (i \in 1 .. Len(pictures) /\ pictures'[i] = pictures[i]) \/ pictures'[i] = p
      BY <2>1, <2>2, LenProperties
    <3>. QED
      BY <1>3, <1>4, <3>1 DEF StrayInv
  <2>. QED
    BY <1>3, <1>4, <2>2
<1>. QED
  BY <1>1, <1>2, <1>5 DEF StrayInv

(* close() makes the context a closed one, and stays until the queue is empty. *)
LEMMA StrayClosed ==
  ASSUME PacketInv, ContextInv, StrayInv, CloseVideo \/ IsEmpty \/ DropPicture
  PROVE  StrayInv'
<1>1. CASE CloseVideo
  <2>1. /\ UNCHANGED <<opens, pictures, picture, vpc>> /\ video' = 0 /\ strays' = 0
        /\ gone' = gone \cup ({video} \ {0}) /\ spc' = "isEmpty"
    BY <1>1 DEF CloseVideo, SGoes, pictureVars, counts
  <2>2. gone \subseteq 1 .. opens /\ video \in 0 .. opens /\ opens \in Nat
    BY DEF StrayInv, ContextInv
  <2>3. gone' \subseteq 1 .. opens' /\ video' \notin gone'
    BY <2>1, <2>2
  <2>4. Emptying'
    BY <2>1 DEF Emptying
  <2>. QED
    BY <2>1, <2>3, <2>4 DEF StrayInv
<1>2. CASE IsEmpty /\ pictures # <<>>
  <2>1. UNCHANGED <<opens, strays, gone, video, pictures, picture, vpc>> /\ spc = "isEmpty" /\ spc' = "drop"
    BY <1>2 DEF IsEmpty, SGoes, videoVars
  <2>. QED
    BY <2>1, StrayStays DEF Emptying
<1>3. CASE IsEmpty /\ pictures = <<>>
  <2>1. UNCHANGED <<opens, strays, gone, video, pictures, picture, vpc>> /\ spc = "isEmpty" /\ spc' \in {"top", "pop"}
    BY <1>3 DEF IsEmpty, SGoes, videoVars
  <2>2. ~Emptying' /\ Len(pictures') = 0
    BY <1>3, <2>1, EmptySeq DEF Emptying
  <2>. QED
    BY <2>1, <2>2 DEF StrayInv
<1>4. CASE DropPicture
  <2>1. /\ UNCHANGED <<opens, strays, gone, video, picture, vpc>> /\ spc = "drop" /\ spc' = "isEmpty"
        /\ pictures' = pictures \/ (pictures # <<>> /\ pictures' = Tail(pictures))
    BY <1>4 DEF DropPicture, SGoes, PictureQueue!Pop, videoVars, counts
  <2>. QED
    BY <2>1, StrayStays DEF Emptying
<1>. QED
  BY <1>1, <1>2, <1>3, <1>4

(* The video thread: there is no context to decode with while close() is at    *)
(* work, and after it the queue holds pictures of contexts in use only.        *)
LEMMA StrayVideo ==
  ASSUME PacketInv, StrayInv, PopPicture \/ ShowPicture
  PROVE  StrayInv'
<1>1. UNCHANGED <<opens, gone, video, spc>>
  BY DEF PopPicture, ShowPicture, scheduler, videoVars, counts
<1>2. Emptying' <=> Emptying
  BY <1>1 DEF Emptying
<1>3. CASE PopPicture
  <2>1. UNCHANGED strays /\ vpc' = IF pictures = <<>> THEN "front" ELSE "decode"
    BY <1>3 DEF PopPicture, videoVars
  <2>2. CASE pictures = <<>>
    <3>1. pictures' = pictures
      BY <1>3, <2>2 DEF PopPicture, PictureQueue!Pop
    <3>. QED
      BY <1>1, <1>2, <2>1, <2>2, <3>1 DEF StrayInv
  <2>3. CASE pictures # <<>>
    <3>1. picture' = Head(pictures) /\ pictures' = Tail(pictures)
      BY <1>3, <2>3 DEF PopPicture, PictureQueue!Pop, PictureQueue!Front
    <3>2. pictures \in Seq(Images)
      BY DEF PacketInv, Part
    <3>3. /\ \A i \in 1 .. Len(pictures') : \E j \in 1 .. Len(pictures) : pictures'[i] = pictures[j]
          /\ \E j \in 1 .. Len(pictures) : picture' = pictures[j]
      BY <2>3, <3>1, <3>2, TailIsOld
    <3>4. picture'[4] \in gone => strays = 0
      BY <3>3 DEF StrayInv
    <3>. QED
      BY <1>1, <1>2, <2>1, <3>3, <3>4 DEF StrayInv
  <2>. QED
    BY <2>2, <2>3
<1>4. CASE ShowPicture
  <2>1. UNCHANGED pictures /\ vpc = "decode" /\ vpc' = "front"
    BY <1>4 DEF ShowPicture
  <2>2. \/ strays' = strays
        \/ video # 0 /\ picture[4] \in gone /\ strays' = strays + 1
    BY <1>4 DEF ShowPicture
  <2>3. strays' \in {0, 1} /\ (Emptying => strays' = 0)
    BY <2>1, <2>2 DEF StrayInv
  <2>. QED
    BY <1>1, <1>2, <2>1, <2>3 DEF StrayInv
<1>. QED
  BY <1>3, <1>4

(* All others. *)
LEMMA StrayRest ==
  ASSUME PacketInv, StrayInv,
         \/ Leave \/ PopTask \/ Play \/ Pause \/ Move \/ Sync \/ CloseContexts \/ CloseDevice
         \/ PopJob \/ DecodeJob \/ FrontPicture \/ TestPts \/ Callback \/ (\E t \in Wishes : Call(t))
         \/ KillVideo \/ EndVideo \/ EndIsEmpty \/ EndDropPicture \/ KillAudio \/ EndAudio \/ EndDevice \/ Join
         \/ UNCHANGED vars
  PROVE  StrayInv'
<1>1. CASE PopTask
  <2>1. UNCHANGED <<opens, strays, gone, video, pictures, picture, vpc>> /\ spc \in {"top", "pop"}
    BY <1>1 DEF PopTask, videoVars, pictureVars, counts
  <2>2. spc' \in {"open", "close", "play", "pause", "move", "read", "top"}
    BY <1>1, PlayerAssumption DEF PopTask
  <2>. QED
    BY <2>1, <2>2, StrayStays DEF Emptying
<1>2. CASE Leave \/ Play \/ Pause \/ Move \/ Sync \/ CloseContexts \/ CloseDevice
  <2>1. UNCHANGED <<opens, strays, gone, video, pictures, picture, vpc>>
    BY <1>2 DEF Leave, Play, Pause, Move, Sync, CloseContexts, CloseDevice, videoVars, pictureVars, counts
  <2>2. /\ spc \in {"top", "play", "pause", "move", "sync", "close", "closeAudio", "closeDevice"}
        /\ spc' \in {"over", "pop", "top", "closeDevice", "closeVideo"}
    BY <1>2 DEF Leave, Play, Pause, Move, Sync, CloseContexts, CloseDevice, SGoes
  <2>. QED
    BY <2>1, <2>2, StrayStays DEF Emptying
<1>3. CASE PopJob \/ DecodeJob \/ FrontPicture \/ TestPts \/ Callback \/ (\E t \in Wishes : Call(t)) \/ UNCHANGED vars
  <2>1. UNCHANGED <<opens, strays, gone, video, pictures, picture, spc>> /\ (vpc' = vpc \/ vpc' # "decode")
    BY <1>3 DEF PopJob, DecodeJob, FrontPicture, TestPts, Callback, Call, VGoes, vars, scheduler, videoVars,
                pictureVars, counts
  <2>. QED
    BY <2>1, StrayStays DEF Emptying
<1>4. CASE KillVideo \/ EndVideo \/ EndIsEmpty \/ EndDropPicture \/ KillAudio \/ EndAudio \/ EndDevice \/ Join
  <2>1. UNCHANGED <<opens, strays, gone, picture, spc>> /\ video' \in {video, 0} /\ (vpc' = vpc \/ vpc' # "decode")
    BY <1>4 DEF KillVideo, EndVideo, EndIsEmpty, EndDropPicture, KillAudio, EndAudio, EndDevice, Join, EGoes,
                scheduler, videoVars, pictureVars, counts
  <2>2. pictures' = pictures \/ (pictures # <<>> /\ pictures' = Tail(pictures))
    BY <1>4 DEF KillVideo, EndVideo, EndIsEmpty, EndDropPicture, KillAudio, EndAudio, EndDevice, Join,
                PictureQueue!Pop, pictureVars
  <2>. QED
    BY <2>1, <2>2, StrayStays DEF Emptying
<1>. QED
  BY <1>1, <1>2, <1>3, <1>4

LEMMA StrayStep == PacketInv /\ ContextInv /\ StrayInv /\ [Next]_vars => StrayInv'
BY StrayOpened, StrayRead, StrayClosed, StrayVideo, StrayRest DEF Next, SchedulerStep, WorkerStep, VideoStep, EndStep

(* For any file, wishes and number of calls: after video_.close() one picture  *)
(* of the closed file at most is decoded by the decoder of a later one, though *)
(* is_empty(), pop() and the video thread's own pop() are calls of their own   *)
(* (FFVideo.hpp:19-30, 77-87).                                                 *)
THEOREM OneStrayEscapes == SafeSpec => []OneStrayPicture
<1>1. Init => StrayInv
  <2>. SUFFICES ASSUME Init PROVE StrayInv
    OBVIOUS
  <2>1. Len(<<>>) = 0
    BY EmptySeq
  <2>. QED
    BY <2>1 DEF Init, StrayInv, Emptying
<1>2. StrayInv => OneStrayPicture
  BY DEF StrayInv, OneStrayPicture
<1>. QED
  BY <1>1, <1>2, StrayStep, PacketInvHolds, ContextInvHolds, PTL DEF SafeSpec
=============================================================================
