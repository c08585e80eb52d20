---------------------------- MODULE AudioCapture ----------------------------
(***************************************************************************)
(* AudioCapture of ryulib/ and WASAPI/, with the SystemAudioCapture,       *)
(* SystemAudio and AudioResampling below it and the AudioInput of          *)
(* ryulib/AudioIO.hpp.  Four threads: the owner, who starts, stops and     *)
(* destroys; the worker of SystemAudio, which queues what the computer     *)
(* plays; the thread of SystemAudioCapture, which cuts that to frames for  *)
(* the resampler and queues the result; and the microphone's callback,     *)
(* which takes a result and mixes it in.  The two MemoryBuffers, whose     *)
(* bytes MemoryBuffer keeps in order, are sequences of the sessions (the   *)
(* start() calls) their bytes were captured in; a frame is its oldest      *)
(* session.  What is undefined behaviour is put into broken, and ends the  *)
(* behaviour.  The loop of SimpleThread is its iterations; volume and mute *)
(* only decide whether the mixed-in frame is heard.                        *)
(***************************************************************************)
EXTENDS Integers, Sequences

CONSTANTS
  PacketSizes, \* what the system delivers at once
  SrcSize,     \* getSrcBufferSize()
  Conversions, \* what a conversion of SrcSize bytes gives
  DstSize,     \* dst_data_size
  MaxDelay,    \* MAX_DELAY_COUNT
  MaxStarts,   \* bound: calls of start
  MaxPackets   \* bound: packets captured

ASSUME CaptureAssumption ==
  /\ SrcSize \in Nat \ {0} /\ DstSize \in Nat \ {0}
  /\ PacketSizes \subseteq Nat \ {0}
  /\ Conversions \subseteq Nat

VARIABLES
  lib,        \* "ryulib" or "WASAPI", with and without use_system_audio: "mute"
  call,       \* where the owner is: "idle", or what start() or stop() does next
  restarting, \* the stop() in progress is the one of start()
  session,    \* history: the number of start() calls
  mic,        \* mic_ is set
  recording,  \* the stream of the microphone runs its callback
  format,     \* pwfx: "null", "live" or "freed"
  capturing,  \* worker_ runs
  queueIn, queueOut, \* queue_in_ and queue_out_ of SystemAudioCapture
  doing,      \* the thread: "pop", "write", "read", "test", "convert"
  hand,       \* the bytes it holds
  buffer,     \* buffer_ of SystemAudioCapture
  resampler,  \* swr_ctx and dst_data of AudioResampling: "live", "bare" (no dst_data), "null",
              \* or "unset": the members that say how long its frames are, not yet set either
  resampled,  \* memory_buffer_ of AudioResampling
  overIn, overOut, \* history: what packets brought into buffer beyond a frame each, and conversions
                   \* into resampled beyond a result each, since these were cleared
  packets,    \* history: packets captured
  broken,     \* which undefined behaviour was reached
  events,     \* history: "stopped", "failed" (a system device did not open),
              \* "unbuffered" (there was no memory for dst_data),
              \* "unstopped" (destroyed while started), "destroyed"
  underway,   \* history: something was on its way when the last do_clear began
  staleHeard  \* history: a frame of an older session was mixed in since then

deviceVars == <<mic, recording, format, capturing, resampler, resampled, overOut>>
threadVars == <<queueIn, queueOut, doing, hand, buffer, overIn>>
ownerVars == <<call, restarting, session, events, underway>>
vars == <<lib, deviceVars, threadVars, ownerVars, packets, broken, staleHeard>>

Init ==
  /\ lib \in {"ryulib", "WASAPI", "mute"}
  /\ call = "idle" /\ restarting = FALSE /\ session = 0
  /\ mic = FALSE /\ recording = FALSE
  /\ format = "null" /\ capturing = FALSE
  /\ queueIn = <<>> /\ queueOut = <<>>
  /\ doing = "pop" /\ hand = <<>> /\ buffer = <<>>
  /\ resampler = "unset" /\ resampled = <<>>
  /\ overIn = 0 /\ overOut = 0
  /\ packets = 0 /\ broken = {} /\ events = {}
  /\ underway = FALSE /\ staleHeard = FALSE

(* no byte is overtaken, and sessions only grow *)
Oldest(bytes) == bytes[1]

Bytes(s, n) == [i \in 1 .. n |-> s]

Rest(bytes, n) == SubSeq(bytes, n + 1, Len(bytes))

(* by how much n is more than size *)
Beyond(n, size) == IF n > size THEN n - size ELSE 0

(* swr_ctx is set *)
HasContext == resampler \in {"live", "bare"}

Breaks(what, when) == broken' = IF when THEN broken \cup {what} ELSE broken

-----------------------------------------------------------------------------
(* The owner: stop() ... *)

Goes(from, to) == call = from /\ call' = to

Begin(first, again) ==
  /\ Goes("idle", first)
  /\ "destroyed" \notin events
  /\ restarting' = again

Stop ==
  /\ Begin("closeSystem", FALSE)
  /\ UNCHANGED <<lib, deviceVars, threadVars, session, events, underway, packets, broken, staleHeard>>

FinValues == format' = (IF format = "live" THEN "freed" ELSE format)

\* mutant: a close() that does not ask whether there is a worker_
CloseSystem_NoTestMutant ==
  /\ Goes("closeSystem", "closeResampling")
  /\ Breaks("doubleFree", format = "freed")
  /\ FinValues
  /\ capturing' = FALSE
  /\ events' = events \cup {"stopped"}
  /\ UNCHANGED <<lib, mic, recording, resampler, resampled, overOut, threadVars, restarting, session, underway, packets, staleHeard>>

(* SystemAudio.close: joins worker_, if there is one, and frees pwfx *)
CloseSystem ==
  /\ Goes("closeSystem", "closeResampling")
  /\ Breaks("doubleFree", capturing /\ format = "freed")
  /\ IF capturing THEN FinValues ELSE UNCHANGED format
  /\ capturing' = FALSE
  /\ events' = events \cup {"stopped"}
  /\ UNCHANGED <<lib, mic, recording, resampler, resampled, overOut, threadVars, restarting, session, underway, packets, staleHeard>>

(* AudioResampling.close, whose fin_values frees what a conversion uses *)
CloseResampling ==
  /\ Goes("closeResampling", "closeMic")
  /\ Breaks("freedResampler", doing = "convert")
  /\ resampler' = IF HasContext THEN "null" ELSE resampler
  /\ UNCHANGED <<lib, mic, recording, format, capturing, resampled, overOut, threadVars, restarting, session, events, underway, packets, staleHeard>>

CloseMic_KeepMutant ==
  /\ Goes("closeMic", IF restarting THEN "clearBuffer" ELSE "idle")
  /\ mic' = FALSE
  /\ session' = session + (IF restarting THEN 1 ELSE 0)
  /\ UNCHANGED <<lib, recording, format, capturing, resampler, resampled, overOut, threadVars, restarting, events, underway, packets, broken, staleHeard>>

(* AudioInput.close ends the callback; start() then makes the new AudioInput *)
CloseMic ==
  /\ Goes("closeMic", IF restarting THEN "clearBuffer" ELSE "idle")
  /\ mic' = FALSE /\ recording' = FALSE
  /\ session' = session + (IF restarting THEN 1 ELSE 0)
  /\ UNCHANGED <<lib, format, capturing, resampler, resampled, overOut, threadVars, restarting, events, underway, packets, broken, staleHeard>>

(* ... and start() *)
Start ==
  /\ session < MaxStarts
  /\ Begin(IF mic THEN "closeSystem" ELSE "clearBuffer", TRUE)
  /\ session' = session + (IF mic THEN 0 ELSE 1)
  /\ UNCHANGED <<lib, deviceVars, threadVars, events, underway, packets, broken, staleHeard>>

(* do_clear: the buffer, unsynchronised, and the queues, one after the other *)
ClearBuffer ==
  /\ Goes("clearBuffer", "clearIn")
  /\ buffer' = <<>> /\ overIn' = 0
  /\ underway' = (doing # "pop" \/ queueIn # <<>>)
  /\ staleHeard' = FALSE
  /\ Breaks("racedBuffer", doing \in {"write", "read"})
  /\ UNCHANGED <<lib, deviceVars, queueIn, queueOut, doing, hand, restarting, session, events, packets>>

ClearIn ==
  /\ Goes("clearIn", "clearOut")
  /\ queueIn' = <<>>
  /\ UNCHANGED <<lib, deviceVars, queueOut, doing, hand, buffer, overIn, restarting, session, events, underway, packets, broken, staleHeard>>

ClearOut_KeepMutant ==
  /\ Goes("clearOut", "openSystem")
  /\ queueOut' = IF queueOut = <<>> THEN <<>> ELSE Tail(queueOut)
  /\ UNCHANGED <<lib, deviceVars, queueIn, doing, hand, buffer, overIn, restarting, session, events, underway, packets, broken, staleHeard>>

ClearOut ==
  /\ Goes("clearOut", "openSystem")
  /\ queueOut' = <<>>
  /\ UNCHANGED <<lib, deviceVars, queueIn, doing, hand, buffer, overIn, restarting, session, events, underway, packets, broken, staleHeard>>

(* SystemAudio.open, and the start of worker_ *)
OpenSystem ==
  /\ Goes("openSystem", "openResampling")
  /\ format' = "live" /\ capturing' = TRUE
  /\ UNCHANGED <<lib, mic, recording, resampler, resampled, overOut, threadVars, restarting, session, events, underway, packets, broken, staleHeard>>

(* a failure before or after GetMixFormat: fin_values frees pwfx, which an      *)
(* earlier close() may have freed, and never sets it to nullptr.  Only        *)
(* ryulib's start() looks at the result.                                      *)
OpenSystemFails ==
  /\ Goes("openSystem", IF lib = "ryulib" THEN "openMic" ELSE "openResampling")
  /\ \/ Breaks("doubleFree", format = "freed") /\ UNCHANGED format
     \/ format' = "freed" /\ UNCHANGED broken
  /\ events' = events \cup {"failed"}
  /\ UNCHANGED <<lib, mic, recording, capturing, resampler, resampled, overOut, threadVars, restarting, session, underway, packets, staleHeard>>

(* AudioResampling.open, which closes first; *pwfx says from which format.  As *)
(* soon as swr_alloc gives a context execute() follows it.                    *)
OpenResampling ==
  /\ \/ Goes("openResampling", "openConverter") /\ resampler' = "bare"
     \/ Goes("openResampling", "openMic") /\ resampler' = "null"
  /\ broken' = broken \cup (IF format # "live" THEN {"noFormat"} ELSE {})
                      \cup (IF doing = "convert" THEN {"freedResampler"} ELSE {})
  /\ resampled' = <<>> /\ overOut' = 0
  /\ UNCHANGED <<lib, mic, recording, format, capturing, threadVars, restarting, session, events, underway, packets, staleHeard>>

(* The rest of it.  Each failure frees the context, but for those of dst_data. *)
OpenConverter ==
  /\ Goes("openConverter", "openMic")
  /\ \/ resampler' = "live" /\ UNCHANGED <<events, broken>>
     \/ resampler' = "null" /\ Breaks("freedResampler", doing = "convert") /\ UNCHANGED events
     \/ resampler' = "bare" /\ events' = events \cup {"unbuffered"} /\ UNCHANGED broken
  /\ UNCHANGED <<lib, mic, recording, format, capturing, resampled, overOut, threadVars, restarting, session, underway, packets, staleHeard>>

(* AudioInput.open; if it fails, mic_ is set all the same *)
OpenMic ==
  /\ Goes("openMic", "idle")
  /\ mic' = TRUE
  /\ recording' \in BOOLEAN
  /\ UNCHANGED <<lib, format, capturing, resampler, resampled, overOut, threadVars, restarting, session, events, underway, packets, broken, staleHeard>>

(* ~AudioCapture deletes mic_ without closing it, and ~SystemAudioCapture joins  *)
(* its own thread but not worker_                                             *)
Destroy ==
  /\ Begin("idle", FALSE)
  /\ doing = "pop"
  /\ events' = events \cup {"destroyed"} \cup (IF mic \/ capturing THEN {"unstopped"} ELSE {})
  /\ UNCHANGED <<lib, deviceVars, threadVars, session, underway, packets, broken, staleHeard>>

OwnerStep ==
  \/ CloseSystem \/ CloseResampling \/ CloseMic
  \/ ClearBuffer \/ ClearIn \/ ClearOut
  \/ OpenSystem \/ OpenSystemFails \/ OpenResampling \/ OpenConverter \/ OpenMic

-----------------------------------------------------------------------------
(* worker_ of SystemAudio: do_repeat, and the handler of SystemAudioCapture,    *)
(* which drops a packet if the microphone does not take what there is         *)
Capture(size) ==
  /\ capturing
  /\ packets < MaxPackets
  /\ packets' = packets + 1
  /\ queueIn' = IF Len(queueOut) > MaxDelay THEN queueIn ELSE Append(queueIn, Bytes(session, size))
  /\ Breaks("destroyed", "destroyed" \in events)
  /\ UNCHANGED <<lib, deviceVars, queueOut, doing, hand, buffer, overIn, ownerVars, staleHeard>>

(* recordCallback of AudioInput, and on_data of AudioCapture *)
MicCallback ==
  /\ recording
  /\ Breaks("destroyed", "destroyed" \in events)
  /\ IF lib = "mute" \/ queueOut = <<>>
     THEN UNCHANGED <<queueOut, staleHeard>>
     ELSE /\ queueOut' = Tail(queueOut)
          /\ staleHeard' = (staleHeard \/ Head(queueOut) # session)
  /\ UNCHANGED <<lib, deviceVars, queueIn, doing, hand, buffer, overIn, ownerVars, packets>>

(* The thread of SystemAudioCapture: pop, write, read and execute *)
ThreadGoes(from, to) ==
  /\ doing = from /\ doing' = to
  /\ "destroyed" \notin events
  /\ UNCHANGED <<lib, mic, recording, format, capturing, resampler, ownerVars, packets, staleHeard>>

ThreadPop ==
  /\ ThreadGoes("pop", "write")
  /\ queueIn # <<>>
  /\ hand' = Head(queueIn)
  /\ queueIn' = Tail(queueIn)
  /\ UNCHANGED <<queueOut, buffer, resampled, overIn, overOut, broken>>

ThreadWrite ==
  /\ ThreadGoes("write", "read")
  /\ buffer' = buffer \o hand
  /\ overIn' = overIn + Beyond(Len(hand), SrcSize)
  /\ UNCHANGED <<queueIn, queueOut, hand, resampled, overOut, broken>>

ThreadRead_MoreMutant ==
  /\ ThreadGoes("read", IF Len(buffer) > SrcSize THEN "test" ELSE "pop")
  /\ IF Len(buffer) > SrcSize
     THEN hand' = SubSeq(buffer, 1, SrcSize) /\ buffer' = Rest(buffer, SrcSize)
     ELSE hand' = <<>> /\ UNCHANGED buffer
  /\ Breaks("unsized", resampler = "unset")
  /\ UNCHANGED <<queueIn, queueOut, resampled, overIn, overOut>>

(* one read for each write, of getSrcBufferSize() bytes *)
ThreadRead ==
  /\ ThreadGoes("read", IF Len(buffer) >= SrcSize THEN "test" ELSE "pop")
  /\ IF Len(buffer) >= SrcSize
     THEN hand' = SubSeq(buffer, 1, SrcSize) /\ buffer' = Rest(buffer, SrcSize)
     ELSE hand' = <<>> /\ UNCHANGED buffer
  /\ Breaks("unsized", resampler = "unset")
  /\ UNCHANGED <<queueIn, queueOut, resampled, overIn, overOut>>

(* execute: is there a swr_ctx? *)
ThreadTest ==
  /\ ThreadGoes("test", IF HasContext THEN "convert" ELSE "pop")
  /\ hand' = IF HasContext THEN hand ELSE <<>>
  /\ UNCHANGED <<queueIn, queueOut, buffer, resampled, overIn, overOut, broken>>

(* execute: convert, which may fail, write, and one read, whose frame goes to   *)
(* queue_out_                                                                 *)
ThreadConvert ==
  /\ ThreadGoes("convert", "pop")
  /\ hand' = <<>>
  /\ \/ UNCHANGED <<resampled, queueOut, overOut, broken>>
     \/ Breaks("noBuffer", TRUE) /\ resampler = "bare" /\ UNCHANGED <<resampled, queueOut, overOut>>
     \/ /\ resampler # "bare"
        /\ \E n \in Conversions :
             LET all == resampled \o Bytes(Oldest(hand), n) IN
             /\ overOut' = overOut + Beyond(n, DstSize)
             /\ IF Len(all) < DstSize
                THEN resampled' = all /\ UNCHANGED queueOut
                ELSE /\ resampled' = Rest(all, DstSize)
                     /\ queueOut' = Append(queueOut, Oldest(SubSeq(all, 1, DstSize)))
        /\ UNCHANGED broken
  /\ UNCHANGED <<queueIn, buffer, overIn>>

ThreadStep == ThreadPop \/ ThreadWrite \/ ThreadRead \/ ThreadTest \/ ThreadConvert

Next ==
  /\ broken = {}
  /\ \/ Start \/ Stop \/ Destroy \/ OwnerStep
     \/ \E size \in PacketSizes : Capture(size)
     \/ MicCallback
     \/ ThreadStep

Spec == Init /\ [][Next]_vars

-----------------------------------------------------------------------------
(* Properties *)

(* Until it is stopped, restarted or destroyed a capture touches nothing that  *)
(* is gone or not set, if the system's device opens and dst_data is allocated, *)
(* and whatever else fails, but in the first start(): while that opens the     *)
(* resampler the worker delivers, and the thread may follow what is half set,  *)
(* or may still be at it when a failure frees it.  And no format is freed      *)
(* twice, however often a capture is started and stopped, unless a device did  *)
(* not open.                                                                   *)
SafeUntilStopped ==
  /\ broken # {} => \/ events # {}
                    \/ session = 1 /\ call \in {"openResampling", "openConverter"}
                    \/ session = 1 /\ call = "openMic" /\ broken = {"freedResampler"}
  /\ "doubleFree" \in broken => "failed" \in events

(* Nothing calls back into a destroyed object that was stopped first. *)
QuietAfterStop == "destroyed" \in broken => "unstopped" \in events

(* What the computer played before a start() is not heard after it, unless the *)
(* thread had some of it in hand, or queued for it, when do_clear began.       *)
FreshUnlessUnderway == staleHeard => underway

(* One read for each write leaves in the buffer, between two packets, less than *)
(* a frame and what packets longer than a frame brought beyond it, and so with *)
(* the results in that of the resampler: nothing else piles up.               *)
KeepsUp ==
  doing = "pop" => Len(buffer) < SrcSize + overIn /\ Len(resampled) < DstSize + overOut
=============================================================================
