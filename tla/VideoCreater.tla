---------------------------- MODULE VideoCreater ----------------------------
(***************************************************************************)
(* The two VideoCreaters: ffmpeg/VideoCreater.hpp, whose open may fail, be *)
(* repeated and fall back from the hardware's encoder, and                 *)
(* ryulib/VideoCreater.hpp, whose constructor opens and tells nobody how   *)
(* it went.  One thread uses an object: a call is a step, but open is one  *)
(* step per function it calls, and the loop of writeAudioPacket goes       *)
(* through the steps of MemoryBuffer, whose queue is audio_buffer.  Where  *)
(* the classes agree one definition stands for both.  Both sides of the    *)
(* resampler have one sample rate; the encoder's own delay is left out.    *)
(***************************************************************************)
EXTENDS MemoryBuffer, FiniteSets

CONSTANTS
  FrameSize,   \* bytes of audio in a frame of the encoder
  VideoUnit,   \* duration of a bitmap
  AudioUnit,   \* duration of an audio frame, in the same unit
  Garbage,     \* what ffmpeg's next_pts and samples_count hold: nothing sets them
  MaxOpens,    \* bound: calls of open
  MaxBitmaps   \* bound: bitmaps written

ASSUME FrameAssumption ==
  /\ ReadSizes = {FrameSize}
  /\ \E n \in WriteSizes : \A m \in WriteSizes : m <= n
  /\ VideoUnit \in Nat \ {0} /\ AudioUnit \in Nat \ {0}
  /\ Garbage \subseteq Nat

VARIABLES
  lib,        \* whose class: "ffmpeg" or "ryulib"
  state,      \* what open does next, or "fresh", "opened", "failed", "closed", "undefined"
  held,       \* what the object's pointers refer to
  leaked,     \* what was acquired and nothing will free
  header,     \* the file has its header and not yet its trailer
  videoPts,   \* video_st.next_pts
  audioPts,   \* audio_st.next_pts, in frames
  samples,    \* audio_st.samples_count, in frames
  writing,    \* writeAudioPacket is in its loop
  opens,      \* history: calls of open
  encoded,    \* history: first byte of each frame given to the encoder
  lost,       \* history: first byte of each frame that was read and then failed
  uncounted,  \* history: how many of those failed before samples_count grew
  behaved,    \* history: no part of open failed, none was opened twice
  unfinished, \* history: a file with a header was given up without its trailer
  turns       \* history: the tracks began at 0, everything came at its turn

objectVars == <<lib, state, held, leaked, header, opens, behaved, unfinished>>
trackVars == <<videoPts, audioPts, samples, encoded, lost, uncounted, turns>>
allVars == <<vars, objectVars, trackVars, writing>>

CreaterInit ==
  /\ Init
  /\ lib \in {"ffmpeg", "ryulib"}
  /\ state = "fresh"
  /\ held = {} /\ leaked = {}
  /\ header = FALSE
  /\ \E first \in IF lib = "ffmpeg" THEN [1 .. 3 -> Garbage] ELSE {<<0, 0, 0>>} :
       /\ videoPts = first[1] /\ audioPts = first[2] /\ samples = first[3]
       /\ turns = (first = <<0, 0, 0>>)
  /\ writing = FALSE
  /\ opens = 0
  /\ encoded = <<>> /\ lost = {} /\ uncounted = 0
  /\ behaved = TRUE /\ unfinished = FALSE

-----------------------------------------------------------------------------
(* Opening *)

(* a pointer that is set again forgets what it referred to, but open_video    *)
(* frees sws_ctx before                                                      *)
Acquire(new) ==
  /\ held' = held \cup new
  /\ leaked' = leaked \cup ((held \cap new) \ {"sws"})

(* a function of open acquires these in this order, and tests more; what it   *)
(* does not get to makes it return false                                     *)
Stage(from, order, to, otherwise) ==
  /\ state = from
  /\ \E k \in 0 .. Len(order) :
       /\ Acquire({order[i] : i \in 1 .. k})
       /\ state' \in {otherwise} \cup (IF k = Len(order) THEN {to} ELSE {})
  /\ behaved' = (behaved /\ state' = to)
  /\ header' = (state' = "opened")
  /\ UNCHANGED <<vars, trackVars, lib, opens, unfinished, writing>>

(* oc is overwritten, and with it what it refers to *)
Open ==
  /\ lib = "ffmpeg"
  /\ state \in {"fresh", "opened", "failed", "closed"}
  /\ ~writing
  /\ opens < MaxOpens
  /\ opens' = opens + 1
  /\ state' = "oc"
  /\ held' = held \ {"oc", "pb"}
  /\ leaked' = leaked \cup (held \cap {"oc", "pb"})
  /\ behaved' = (behaved /\ "oc" \notin held)
  /\ unfinished' = (unfinished \/ header)
  /\ header' = FALSE
  /\ UNCHANGED <<vars, trackVars, lib, writing>>

AllocOutput == lib = "ffmpeg" /\ Stage("oc", <<"oc">>, "hardware", "failed")

(* "looseCtx": codec_ctx_video, as long as video_st.enc does not refer to it *)
OpenVideo(from, otherwise) ==
  \/ Stage(from, <<"looseCtx", "sws">>, "videoStream", otherwise)
  \/ /\ state = from /\ state' = otherwise
     /\ held' = (held \cup {"looseCtx"}) \ {"sws"}
     /\ leaked' = leaked \cup (held \cap {"looseCtx"})
     /\ behaved' = FALSE
     /\ UNCHANGED <<vars, trackVars, lib, header, opens, unfinished, writing>>

(* nvenc is not wanted, or not there, or fails: then the other encoder *)
UseSoftware ==
  /\ state = "hardware" /\ state' = "software"
  /\ UNCHANGED <<vars, trackVars, lib, held, leaked, header, opens, behaved, unfinished, writing>>

AddVideoStream ==
  /\ lib = "ffmpeg" /\ state = "videoStream"
  /\ \/ UNCHANGED <<held, leaked>> /\ state' = "failed"
     \/ /\ held' = (held \ {"looseCtx"}) \cup {"videoCtx"}
        /\ leaked' = leaked \cup (held \cap {"videoCtx"})
        /\ state' \in {"audioStream", "failed"}
  /\ behaved' = (behaved /\ state' # "failed")
  /\ UNCHANGED <<vars, trackVars, lib, header, opens, unfinished, writing>>

AddAudioStream == lib = "ffmpeg" /\ Stage("audioStream", <<"audioCtx">>, "audio", "failed")

OpenAudio == lib = "ffmpeg" /\ Stage("audio", <<"swr">>, "file", "failed")

OpenFile == lib = "ffmpeg" /\ Stage("file", <<"pb">>, "opened", "failed")

OpenFfmpeg ==
  \/ Open \/ AllocOutput
  \/ OpenVideo("hardware", "software") \/ UseSoftware \/ OpenVideo("software", "failed")
  \/ AddVideoStream \/ AddAudioStream \/ OpenAudio \/ OpenFile

Construct == lib = "ryulib" /\ Stage("fresh", <<"oc">>, "videoStream", "failed")

AddVideoStream_ryulib ==
  lib = "ryulib" /\ Stage("videoStream", <<"videoCtx">>, "video", "failed")

OpenVideo_ryulib ==
  lib = "ryulib" /\ Stage("video", <<"videoFrame", "videoTmp">>, "audioStream", "failed")

AddAudioStream_ryulib ==
  lib = "ryulib" /\ Stage("audioStream", <<"audioCtx">>, "audio", "failed")

(* the two frames are not tested (nor what alloc_audio_frame drops counted)   *)
FramesOrNone == {<<>>, <<"audioFrame">>, <<"audioTmp">>, <<"audioFrame", "audioTmp">>}

OpenAudio_ryulib ==
  /\ lib = "ryulib"
  /\ \E frames \in FramesOrNone : Stage("audio", frames \o <<"swr">>, "file", "failed")

(* a channel_ that is not 1 or 2: no destructor runs for what was constructed *)
ThrowChannels ==
  /\ lib = "ryulib"
  /\ state = "audio" /\ state' = "closed"
  /\ held' = {} /\ leaked' = held
  /\ behaved' = FALSE
  /\ UNCHANGED <<vars, trackVars, lib, header, opens, unfinished, writing>>

OpenFile_ryulib == lib = "ryulib" /\ Stage("file", <<"pb">>, "opened", "failed")

OpenRyulib ==
  \/ Construct \/ AddVideoStream_ryulib \/ OpenVideo_ryulib
  \/ AddAudioStream_ryulib \/ OpenAudio_ryulib \/ ThrowChannels \/ OpenFile_ryulib

-----------------------------------------------------------------------------
(* Writing *)

IsVideoTurn == videoPts * VideoUnit <= audioPts * AudioUnit

IsAudioTurn == ~IsVideoTurn

CanWrite == state = "opened" /\ ~writing

Bitmap(counts) ==
  /\ CanWrite
  /\ videoPts' = videoPts + counts
  /\ turns' = (turns /\ IsVideoTurn)
  /\ UNCHANGED <<vars, audioPts, samples, encoded, lost, uncounted, writing>>
  /\ UNCHANGED <<lib, state, header, opens, behaved, unfinished>>

(* one of two frames cannot be allocated: the other one, or the frame that     *)
(* got no buffer, is not freed                                               *)
AllocFails == leaked' \in {leaked, leaked \cup {"frame"}}

(* next_pts counts the bitmaps that got as far as the encoder *)
WriteBitmap ==
  /\ lib = "ffmpeg" /\ videoPts < MaxBitmaps
  /\ UNCHANGED held
  /\ \/ Bitmap(1) /\ UNCHANGED leaked
     \/ Bitmap(0) /\ AllocFails

(* the frames are the object's, sws_ctx is made when it is first needed *)
WriteBitmap_ryulib ==
  /\ lib = "ryulib" /\ videoPts < MaxBitmaps
  /\ UNCHANGED leaked
  /\ \/ Bitmap(1) /\ held' = held \cup {"sws"}
     \/ Bitmap(0) /\ UNCHANGED held

(* a caller of ryulib's class cannot know what is missing *)
Misuse ==
  /\ lib = "ryulib" /\ ~writing
  /\ state = "failed" \/ (state = "opened" /\ ~({"audioFrame", "audioTmp"} \subseteq held))
  /\ state' = "undefined"
  /\ UNCHANGED <<vars, trackVars, lib, held, leaked, header, opens, behaved, unfinished, writing>>

(* writeAudioPacket: audio_buffer.write, ... *)
WriteAudioPacket(n) ==
  /\ CanWrite
  /\ lib = "ryulib" => {"audioFrame", "audioTmp"} \subseteq held
  /\ Write(n)
  /\ writing' = TRUE
  /\ turns' = (turns /\ IsAudioTurn)
  /\ UNCHANGED <<objectVars, videoPts, audioPts, samples, encoded, lost, uncounted>>

ReadFrame_PacketMutant ==
  /\ ReadBegin(queue[Len(queue)].size)
  /\ UNCHANGED <<objectVars, trackVars, writing>>

(* ... and while there is a frame in it, audio_buffer.read *)
ReadFrame ==
  /\ ReadBegin(FrameSize)
  /\ UNCHANGED <<objectVars, trackVars, writing>>

WriteReturn ==
  /\ Idle /\ ~CanRead(FrameSize)
  /\ writing' = FALSE
  /\ UNCHANGED <<vars, objectVars, trackVars>>

(* do_writeAudioPacket with the frame just read: what it counts before it      *)
(* fails.  A failure ends the loop: what is left waits for the next packet.   *)
Frame(pts, count, given) ==
  /\ ReadReturn
  /\ audioPts' = audioPts + pts
  /\ samples' = samples + count
  /\ encoded' = IF given THEN Append(encoded, next) ELSE encoded
  /\ lost' = IF given THEN lost ELSE lost \cup {next}
  /\ uncounted' = uncounted + (IF given THEN 0 ELSE 1 - count)
  /\ writing' = given
  /\ UNCHANGED <<lib, state, held, header, opens, behaved, unfinished, videoPts, turns>>

(* swr_convert, or making the frame writable, fails between the two counts *)
DoWriteAudioPacket_ryulib ==
  /\ lib = "ryulib"
  /\ \/ Frame(1, 1, TRUE) \/ Frame(1, 1, FALSE) \/ Frame(1, 0, FALSE)
  /\ UNCHANGED leaked

DoWriteAudioPacket_UncountMutant ==
  /\ lib = "ffmpeg"
  /\ \/ (Frame(1, 1, TRUE) \/ Frame(1, 0, TRUE) \/ Frame(1, 0, FALSE)) /\ UNCHANGED leaked
     \/ Frame(0, 0, FALSE) /\ AllocFails

(* two frames are allocated first *)
DoWriteAudioPacket ==
  /\ lib = "ffmpeg"
  /\ \/ (Frame(1, 1, TRUE) \/ Frame(1, 1, FALSE) \/ Frame(1, 0, FALSE)) /\ UNCHANGED leaked
     \/ Frame(0, 0, FALSE) /\ AllocFails

AudioLoop ==
  /\ writing
  /\ \/ ReadFrame \/ WriteReturn
     \/ DoWriteAudioPacket \/ DoWriteAudioPacket_ryulib
     \/ ReadStep /\ UNCHANGED <<objectVars, trackVars, writing>>

-----------------------------------------------------------------------------
(* Closing *)

Close_KeepSwsMutant ==
  /\ lib = "ffmpeg" /\ ~writing
  /\ state \in {"fresh", "opened", "failed", "closed"}
  /\ state' = "closed"
  /\ unfinished' = (unfinished \/ (header /\ state # "opened"))
  /\ header' = FALSE
  /\ held' = held \cap {"sws"}
  /\ leaked' = leaked \cup (held \cap {"looseCtx"})
  /\ UNCHANGED <<vars, trackVars, lib, opens, behaved, writing>>

(* the trailer is written if is_opened_; a context that never got into          *)
(* video_st is forgotten; the counts and audio_buffer stay as they are          *)
Close ==
  /\ lib = "ffmpeg" /\ ~writing
  /\ state \in {"fresh", "opened", "failed", "closed"}
  /\ state' = "closed"
  /\ unfinished' = (unfinished \/ (header /\ state # "opened"))
  /\ header' = FALSE
  /\ held' = {}
  /\ leaked' = leaked \cup (held \cap {"looseCtx"})
  /\ UNCHANGED <<vars, trackVars, lib, opens, behaved, writing>>

(* the trailer is written if there is a context, header or not *)
Destroy_ryulib ==
  /\ lib = "ryulib" /\ ~writing
  /\ state \in {"opened", "failed"}
  /\ state' = IF "oc" \in held /\ ~header THEN "undefined" ELSE "closed"
  /\ header' = FALSE
  /\ held' = {}
  /\ UNCHANGED <<vars, trackVars, lib, leaked, opens, behaved, unfinished, writing>>

CreaterNext ==
  \/ OpenFfmpeg \/ OpenRyulib
  \/ WriteBitmap \/ WriteBitmap_ryulib \/ Misuse
  \/ \E n \in WriteSizes : WriteAudioPacket(n)
  \/ AudioLoop
  \/ Close \/ Destroy_ryulib

CreaterSpec == CreaterInit /\ [][CreaterNext]_allVars

-----------------------------------------------------------------------------
(* Properties *)

(* The encoder gets the audio as it was written, cut into whole frames: what   *)
(* was read is, frame by frame, either given to it, in order, or lost by a   *)
(* failure, never both and never twice; and when writeAudioPacket returns     *)
(* true less than a frame stays behind.                                      *)
AudioInFrames ==
  /\ \A i \in 1 .. Len(encoded) - 1 : encoded[i] < encoded[i + 1]
  /\ {encoded[i] : i \in DOMAIN encoded} \cap lost = {}
  /\ {encoded[i] : i \in DOMAIN encoded} \cup lost = {FrameSize * k : k \in 0 .. (next \div FrameSize) - 1}
  /\ (CanWrite /\ lost = {}) => size < FrameSize

(* A caller that asks isVideoTurn() before it writes keeps the two tracks of   *)
(* the file together: the video is at most a bitmap ahead, and the audio at  *)
(* most what one packet completes, where the timestamps of the audio are      *)
(* short of one frame for each that failed before samples_count grew.        *)
TracksStayTogether ==
  turns =>
    LET video == videoPts * VideoUnit
        audio == samples * AudioUnit
        most == CHOOSE n \in WriteSizes : \A m \in WriteSizes : m <= n
    IN  /\ video <= audio + VideoUnit + AudioUnit * uncounted
        /\ lost = {} => audio <= video + AudioUnit * (most \div FrameSize + 1)

(* Nothing leaks if open() never fails in part, and is not called again        *)
(* without close(): whatever was opened, written and closed, in whatever      *)
(* order, all that is left can be freed; only a frame of a failed write is   *)
(* not.  A file that got a header gets its trailer.                           *)
NothingLeaksUnlessOpenFails ==
  behaved => /\ leaked \subseteq {"frame"}
             /\ ~unfinished
             /\ state = "closed" => held = {}
=============================================================================
