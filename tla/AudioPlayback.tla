---------------------------- MODULE AudioPlayback ----------------------------
(***************************************************************************)
(* ryulib/AudioUnZip.hpp with the AudioOutput of ryulib/AudioIO.hpp: play  *)
(* hands packets to the AudioDecoder this module extends, whose thread     *)
(* pushes what it decoded on the ThreadQueue of the AudioOutput; the sound *)
(* card's callback pops from it, and so does skip().  The constructor      *)
(* opens the output once and ignores the result.                           *)
(***************************************************************************)
EXTENDS AudioDecoder

CONSTANT MaxSkip  \* bound: packets one skip() asks for

VARIABLES
  output,   \* audio_output_.queue_
  stream,   \* stream_: "none", "failed" (nothing assigned), "silent" (open, not
            \* started), "playing", "closed"
  skipping, \* the packets the skip() in progress still wants
  played,   \* history: packets given to the sound card
  skipped   \* history: packets skipped

outputVars == <<output, stream, skipping, played, skipped>>
allVars == <<decoderVars, outputVars>>

Out == INSTANCE ThreadQueue WITH queue <- output, Null <- NoPacket

PlaybackInit ==
  /\ DecoderInit
  /\ output = <<>>
  /\ stream = "none"
  /\ skipping = 0
  /\ played = <<>>
  /\ skipped = {}

Constructed == stream \notin {"none", "closed"}

-----------------------------------------------------------------------------
(* AudioOutput.open: no device or Pa_OpenStream fails, Pa_StartStream fails,  *)
(* or it plays                                                               *)
OpenOutput ==
  /\ stream = "none"
  /\ stream' \in {"failed", "silent", "playing"}
  /\ UNCHANGED <<decoderVars, output, skipping, played, skipped>>

(* AudioUnZip.play is AudioDecoder.add *)
Play(a) ==
  /\ Constructed
  /\ AddCall(a)
  /\ UNCHANGED outputVars

(* OnDecode_ is AudioOutput.play *)
DecodeAndPlay ==
  /\ Decode
  /\ Out!Push(got[PopSide(Decoder)])
  /\ UNCHANGED <<stream, skipping, played, skipped>>

(* the sound card's thread: a packet, or silence *)
PlayCallback ==
  /\ stream = "playing"
  /\ \E packet \in Packets \cup {NoPacket} :
       /\ Out!Pop(packet)
       /\ played' = IF packet = NoPacket THEN played ELSE Append(played, packet)
  /\ UNCHANGED <<decoderVars, stream, skipping, skipped>>

Skip(count) ==
  /\ Constructed
  /\ skipping = 0
  /\ skipping' = count
  /\ UNCHANGED <<decoderVars, output, stream, played, skipped>>

(* each pop is a critical section of its own *)
SkipPop ==
  /\ skipping > 0
  /\ \E packet \in Packets \cup {NoPacket} :
       /\ Out!Pop(packet)
       /\ IF packet = NoPacket
          THEN skipping' = 0 /\ UNCHANGED skipped
          ELSE skipping' = skipping - 1 /\ skipped' = skipped \cup {packet}
  /\ UNCHANGED <<decoderVars, stream, played>>

(* close() stops the callback; nothing stops the decoder's thread, which goes  *)
(* on with what is left in the queue, and plays it to an object that is gone  *)
DestroyUnZip ==
  /\ Constructed
  /\ skipping = 0 /\ \A a \in Adders : adding[a] = "out"
  /\ stream' = "closed"
  /\ UNCHANGED <<decoderVars, output, skipping, played, skipped>>

-----------------------------------------------------------------------------
PlayStep == \E a \in Adders : AdderStep(a) /\ UNCHANGED outputVars

DecoderThreadStep ==
  \/ (DecoderCall \/ DecoderPop) /\ UNCHANGED outputVars
  \/ DecodeAndPlay

PlaybackNext ==
  \/ OpenOutput
  \/ \E a \in Adders : Play(a)
  \/ PlayStep \/ DecoderThreadStep \/ PlayCallback
  \/ \E count \in 1 .. MaxSkip : Skip(count)
  \/ SkipPop
  \/ DestroyUnZip
  \/ SpuriousWakeup /\ UNCHANGED outputVars

(* The threads of AudioDecoder as there; the sound card calls back.           *)
PlaybackFairness ==
  /\ SF_allVars(DecoderThreadStep)
  /\ \A a \in Adders : SF_allVars(AdderStep(a) /\ UNCHANGED outputVars)
  /\ WF_allVars(PlayCallback)

PlaybackSpec == PlaybackInit /\ [][PlaybackNext]_allVars /\ PlaybackFairness

-----------------------------------------------------------------------------
(* Properties *)

Elements(sequence) == {sequence[i] : i \in DOMAIN sequence}

(* What was decoded is played, in the order in which it was queued for the    *)
(* decoder, or skipped, or still in the output: two consumers and the         *)
(* decoder's thread lose nothing and give nothing out twice, and neither a   *)
(* skipped nor a trimmed packet is heard.                                     *)
PlayedInOrder ==
  /\ DecodedInOrder
  /\ \A i, j \in DOMAIN played : i < j => played[i] < played[j]
  /\ \A i \in DOMAIN played, j \in DOMAIN output : played[i] < output[j]
  /\ Elements(played) \cap skipped = {}
  /\ Elements(decoded) = Elements(played) \cup skipped \cup Elements(output)

(* While the sound card plays, every packet that was queued is heard, unless   *)
(* trimmed or skipped, even if a caller is stuck in play().                    *)
EveryPacketIsHeard ==
  \A n \in Packets :
    (Len(pushed) >= n) ~>
      (n \in dropped \cup skipped \cup Elements(played) \/ stream # "playing")
=============================================================================
