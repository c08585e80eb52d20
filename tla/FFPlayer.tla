------------------------------ MODULE FFPlayer ------------------------------
(***************************************************************************)
(* include/ffmpeg: FFPlayer with its FFStream, FFAudio and FFVideo, and    *)
(* the AudioSDL and WindowSDL they play through.  Five threads share them: *)
(* the clients; the scheduler's, which carries out their tasks and reads   *)
(* the file; the audio worker's; the video thread; and SDL's callback.     *)
(* None of the contexts and positions they share is locked.                *)
(*                                                                         *)
(* The scheduler and the worker appear as Scheduler and Worker show them:  *)
(* tasks one at a time and in order, on_repeat_ when there is none.  Each  *)
(* audio packet fills one buffer of the device.  A packet has the time     *)
(* stamp of its own stream, and the code compares those of the sound with  *)
(* those of the pictures as they are, whatever the two time bases.  A      *)
(* stream, and a codec context, is known by the number of the open() that  *)
(* made it, with 0 for nullptr.                                            *)
(***************************************************************************)
EXTENDS Integers, Sequences, FiniteSets

CONSTANTS
  File,     \* the packets of every file, a sequence of "audio" and "video"
  Pts,      \* the time stamp of each, in the time base of its stream
  NoPts,    \* AV_NOPTS_VALUE
  NoTask,   \* NULL
  NoPacket, \* NULL
  Wishes,   \* the tasks the clients may ask for
  MaxCalls  \* bound: number of calls of the clients

ASSUME PlayerAssumption ==
  /\ File \in Seq({"audio", "video"})
  /\ Pts \in [1 .. Len(File) -> Int] /\ NoPts \in Int
  /\ Wishes \subseteq {"open", "close", "play", "pause", "move"}
  /\ NoTask \notin {"open", "close", "play", "pause", "move"}
  /\ NoPacket \notin Nat \X Nat \X Nat \X Nat
  /\ MaxCalls \in Nat

VARIABLES
  tasks, started, spc, task, \* scheduler_: its queue, started_, where its thread is, the task in hand
  stream, pos,               \* stream_: context_, and how much of the file was read
  audio, audioPts,           \* audio_: context_ and its pts_correction_last_pts
  jobs, apc, job,            \* audio_: the queue of worker_, where its thread is, the packet in hand
  frames, device,            \* audio_: queue_ of AudioSDL, and the SDL audio device
  video, videoPts, target,   \* video_: context_, its last pts and target_pts_
  pictures, vpc, picture,    \* video_: queue_, where its thread is, the packet in hand
  window,                    \* video_: is_opened_ of WindowSDL
  ending,                    \* how far terminateNow() is
  locked,                    \* the queues whose mutex a killed thread has left locked
  crashed,                   \* a thread used a context that was closed
  calls, opens, plays, eofs, \* history: calls made, streams opened, TASK_PLAYs, calls of on_EOF_
  seeks,                     \* history: seeks made
  gone, strays               \* history: the contexts video_.close() has closed, and how many
                             \* pictures of theirs were decoded since the last of them

scheduler == <<tasks, started, spc, task>>
streamVars == <<stream, pos, seeks>>
audioVars == <<audio, audioPts>>
workerVars == <<jobs, apc, job>>
sdl == <<frames, device>>
videoVars == <<video, videoPts, target, gone, strays>>
pictureVars == <<pictures, vpc, picture>>
counts == <<calls, opens, plays, eofs>>
vars == <<scheduler, streamVars, audioVars, workerVars, sdl, videoVars, pictureVars,
          window, locked, ending, crashed, counts>>

TaskQueue == INSTANCE ThreadQueue WITH queue <- tasks, Null <- NoTask
PictureQueue == INSTANCE ThreadQueue WITH queue <- pictures, Null <- NoPacket

Init ==
  /\ tasks = <<>> /\ started = FALSE /\ spc = "top" /\ task = NoTask
  /\ stream = 0 /\ pos = 0
  /\ audio = 0 /\ audioPts = NoPts
  /\ jobs = <<>> /\ apc = "pop" /\ job = NoPacket
  /\ frames = 0 /\ device = "closed"
  /\ video = 0 /\ videoPts = NoPts /\ target = 0 /\ gone = {} /\ strays = 0
  /\ pictures = <<>> /\ vpc = "front" /\ picture = NoPacket
  /\ window = FALSE /\ ending = "no" /\ crashed = FALSE
  /\ locked = {} /\ calls = 0 /\ opens = 0 /\ plays = 0 /\ eofs = 0 /\ seeks = 0

-----------------------------------------------------------------------------
(* The scheduler's thread *)

SGoes(to) == spc' = to /\ UNCHANGED <<tasks, started, task>>

\* mutant: terminateAndWait() sets the flag after its join
Leave_LateMutant ==
  /\ spc = "top" /\ ending = "done"
  /\ SGoes("over")
  /\ UNCHANGED <<streamVars, audioVars, workerVars, sdl, videoVars, pictureVars,
                 window, locked, ending, crashed, counts>>

(* isTerminated() *)
Leave ==
  /\ spc = "top" /\ ending = "join"
  /\ SGoes("over")
  /\ UNCHANGED <<streamVars, audioVars, workerVars, sdl, videoVars, pictureVars,
                 window, locked, ending, crashed, counts>>

(* the next task, or else on_repeat_ or sleep *)
PopTask ==
  /\ \/ spc = "top" /\ ending # "join"
     \/ spc = "pop"
  /\ \E t \in Wishes \cup {NoTask} :
       /\ TaskQueue!Pop(t)
       /\ task' = t
       /\ spc' = IF t # NoTask THEN t ELSE IF started THEN "read" ELSE "top"
  /\ UNCHANGED <<started, streamVars, audioVars, workerVars, sdl, videoVars, pictureVars,
                 window, locked, ending, crashed, counts>>

(* TASK_OPEN: stream_.open.  A stream that was open is replaced.  One whose    *)
(* streams cannot be found stays open, though the task has failed.            *)
OpenStream ==
  /\ spc = "open"
  /\ \/ stream' = opens + 1 /\ opens' = opens + 1 /\ pos' = 0 /\ SGoes("openAudio")
     \/ stream' = opens + 1 /\ opens' = opens + 1 /\ pos' = 0 /\ SGoes("pop")
     \/ stream' = 0 /\ pos' = 0 /\ SGoes("pop") /\ UNCHANGED opens
  /\ UNCHANGED <<seeks, audioVars, workerVars, sdl, videoVars, pictureVars, window, locked, ending, crashed,
                 calls, plays, eofs>>

(* audio_.open: no decoder for the file; a context that cannot be opened; or  *)
(* a context and AudioSDL.open, which clears its queue and fails when the     *)
(* device is open.  After a failure stream_ is closed, and audio_ is not.     *)
OpenAudio ==
  /\ spc = "openAudio"
  /\ \/ UNCHANGED <<audio, audioPts, sdl>> /\ stream' = 0 /\ SGoes("pop")
     \/ /\ audio' = opens /\ audioPts' \in {0, NoPts}
        /\ stream' = 0 /\ SGoes("pop")
        /\ frames' \in {frames} \cup (IF "frames" \in locked THEN {} ELSE {0})
        /\ UNCHANGED device
     \/ /\ device = "closed" /\ "frames" \notin locked
        /\ audio' = opens /\ audioPts' = NoPts
        /\ frames' = 0 /\ device' = "paused"
        /\ SGoes("openVideo")
        /\ UNCHANGED stream
  /\ UNCHANGED <<pos, seeks, workerVars, videoVars, pictureVars, window, locked, ending, crashed, counts>>

(* video_.open, the same way; a failure closes stream_ and audio_.  Opening   *)
(* the window first closes one that is open, and that ends all of SDL.        *)
OpenVideo ==
  /\ spc = "openVideo"
  /\ \/ /\ \/ UNCHANGED <<video, videoPts>>
           \/ video' = opens /\ videoPts' \in {0, NoPts}
        /\ stream' = 0 /\ SGoes("closeAudio")
        /\ UNCHANGED <<device, window>>
     \/ /\ video' = opens /\ videoPts' = NoPts
        /\ device' = IF window THEN "closed" ELSE device
        /\ window' = TRUE
        /\ SGoes("pop")
        /\ UNCHANGED stream
  /\ UNCHANGED <<pos, seeks, audioVars, workerVars, frames, target, gone, strays, pictureVars, locked, ending, crashed, counts>>

Play ==
  /\ spc = "play"
  /\ started' = TRUE /\ plays' = plays + 1
  /\ spc' = "pop"
  /\ UNCHANGED <<tasks, task, streamVars, audioVars, workerVars, sdl, videoVars, pictureVars,
                 window, locked, ending, crashed, calls, opens, eofs>>

Pause ==
  /\ spc = "pause"
  /\ started' = FALSE
  /\ spc' = "pop"
  /\ UNCHANGED <<tasks, task, streamVars, audioVars, workerVars, sdl, videoVars, pictureVars,
                 window, locked, ending, crashed, counts>>

(* stream_.move follows context_ without a test *)
Move ==
  /\ spc = "move"
  /\ IF stream = 0
     THEN crashed' = TRUE /\ UNCHANGED <<pos, seeks>>
     ELSE pos' \in 0 .. Len(File) /\ seeks' = seeks + 1 /\ UNCHANGED crashed
  /\ SGoes("pop")
  /\ UNCHANGED <<stream, audioVars, workerVars, sdl, videoVars, pictureVars, window, locked, ending, counts>>

(* on_repeat_: nothing while two buffers wait; stream_.read; the packet to    *)
(* its queue if the context is there                                          *)
Read ==
  /\ spc = "read"
  /\ "frames" \notin locked
  /\ \/ /\ frames >= 2
        /\ SGoes("top")
        /\ UNCHANGED <<pos, jobs, pictures>>
     \/ /\ frames < 2 /\ stream # 0 /\ pos < Len(File)
        /\ pos' = pos + 1
        /\ LET packet(context) == <<stream, seeks, pos + 1, context>> IN
           \/ /\ File[pos + 1] = "audio"
              /\ audio # 0 => "jobs" \notin locked
              /\ jobs' = IF audio # 0 THEN Append(jobs, packet(audio)) ELSE jobs
              /\ SGoes("sync")
              /\ UNCHANGED pictures
           \/ /\ File[pos + 1] = "video"
              /\ video # 0 => "pictures" \notin locked
              /\ IF video # 0 THEN PictureQueue!Push(packet(video)) ELSE UNCHANGED pictures
              /\ SGoes("top")
              /\ UNCHANGED jobs
     \/ /\ frames < 2 /\ (stream = 0 \/ pos = Len(File))
        /\ SGoes("close")
        /\ UNCHANGED <<pos, jobs, pictures>>
  /\ UNCHANGED <<stream, seeks, audioVars, apc, job, sdl, videoVars, vpc, picture,
                 window, locked, ending, crashed, counts>>

(* audioSync, after an audio packet: target_pts_ is the time stamp of the last *)
(* sound that was decoded, or NoPts before the first                          *)
Sync ==
  /\ spc = "sync"
  /\ target' = IF video = 0 THEN target ELSE IF audio = 0 THEN 0 ELSE audioPts
  /\ SGoes("top")
  /\ UNCHANGED <<streamVars, audioVars, workerVars, sdl, video, videoPts, gone, strays, pictureVars,
                 window, locked, ending, crashed, counts>>

(* do_close, for TASK_CLOSE (task = "close") and at the end of the file (no    *)
(* task in hand); its middle part also undoes a failed open (task = "open").  *)
(* started_ and the stream are the thread's own.                              *)
\* mutant: without scheduler_.stop()
CloseContexts_NoStopMutant ==
  /\ spc \in {"close", "closeAudio"}
  /\ stream' = 0
  /\ audio' = 0
  /\ SGoes("closeDevice")
  /\ UNCHANGED <<pos, seeks, audioPts, workerVars, sdl, videoVars, pictureVars,
                 window, locked, ending, crashed, counts>>

CloseContexts ==
  /\ spc \in {"close", "closeAudio"}
  /\ started' = (started /\ spc # "close")
  /\ stream' = 0
  /\ audio' = 0
  /\ spc' = "closeDevice"
  /\ UNCHANGED <<tasks, task, pos, seeks, audioPts, workerVars, sdl, videoVars, pictureVars,
                 window, locked, ending, crashed, counts>>

CloseDevice ==
  /\ spc = "closeDevice"
  /\ "frames" \notin locked
  /\ device' = "closed" /\ frames' = 0
  /\ SGoes(IF task = "open" THEN "pop" ELSE "closeVideo")
  /\ UNCHANGED <<streamVars, audioVars, workerVars, videoVars, pictureVars,
                 window, locked, ending, crashed, counts>>

CloseVideo ==
  /\ spc = "closeVideo"
  /\ video' = 0
  /\ gone' = gone \cup ({video} \ {0}) /\ strays' = 0
  /\ SGoes("isEmpty")
  /\ UNCHANGED <<streamVars, audioVars, workerVars, sdl, videoPts, target, pictureVars,
                 window, locked, ending, crashed, counts>>

\* mutant: the queue is left as it is
IsEmpty_NoLoopMutant ==
  /\ spc = "isEmpty"
  /\ "pictures" \notin locked
  /\ eofs' = (IF task = NoTask THEN eofs + 1 ELSE eofs)
  /\ SGoes(IF task = NoTask THEN "top" ELSE "pop")
  /\ UNCHANGED <<streamVars, audioVars, workerVars, sdl, videoVars, pictures, vpc, picture,
                 window, locked, ending, crashed, calls, opens, plays>>

(* is_empty() ends the loop that empties queue_ ...                           *)
IsEmpty ==
  /\ spc = "isEmpty"
  /\ "pictures" \notin locked
  /\ \/ /\ pictures # <<>>
        /\ SGoes("drop")
        /\ UNCHANGED eofs
     \/ /\ pictures = <<>>
        /\ eofs' = IF task = NoTask THEN eofs + 1 ELSE eofs
        /\ SGoes(IF task = NoTask THEN "top" ELSE "pop")
  /\ UNCHANGED <<streamVars, audioVars, workerVars, sdl, videoVars, pictures, vpc, picture,
                 window, locked, ending, crashed, calls, opens, plays>>

(* ... and pop() takes the next, or NULL if another thread was faster         *)
DropPicture ==
  /\ spc = "drop"
  /\ "pictures" \notin locked
  /\ PictureQueue!Pop(PictureQueue!Front)
  /\ SGoes("isEmpty")
  /\ UNCHANGED <<streamVars, audioVars, workerVars, sdl, videoVars, vpc, picture,
                 window, locked, ending, crashed, counts>>

-----------------------------------------------------------------------------
(* The audio worker, and SDL's callback *)

(* the next packet, which is freed if there is no context *)
PopJob ==
  /\ apc = "pop"
  /\ jobs # <<>> /\ "jobs" \notin locked
  /\ jobs' = Tail(jobs)
  /\ \/ audio = 0 /\ UNCHANGED <<apc, job>>
     \/ audio # 0 /\ apc' = "decode" /\ job' = Head(jobs)
  /\ UNCHANGED <<scheduler, streamVars, audioVars, sdl, videoVars, pictureVars,
                 window, locked, ending, crashed, counts>>

(* decode_and_play: the context may be another by now, or none.  play() lets  *)
(* the device run.                                                           *)
\* mutant: play() without SDL_PauseAudio(0)
DecodeJob_PausedMutant ==
  /\ apc = "decode" /\ "frames" \notin locked
  /\ \/ audio = 0 /\ crashed' = TRUE /\ UNCHANGED <<audioPts, frames>>
     \/ audio # 0 /\ audioPts' = Pts[job[3]] /\ frames' = frames + 1 /\ UNCHANGED crashed
  /\ apc' = "pop" /\ job' = NoPacket
  /\ UNCHANGED <<scheduler, streamVars, audio, jobs, device, videoVars, pictureVars, window, locked, ending, counts>>

DecodeJob ==
  /\ apc = "decode"
  /\ "frames" \notin locked
  /\ \/ audio = 0 /\ crashed' = TRUE /\ UNCHANGED <<audioPts, sdl>>
     \/ /\ audio # 0
        /\ audioPts' = Pts[job[3]]
        /\ frames' = frames + 1
        /\ device' = IF device = "paused" THEN "running" ELSE device
        /\ UNCHANGED crashed
  /\ apc' = "pop" /\ job' = NoPacket
  /\ UNCHANGED <<scheduler, streamVars, audio, jobs, videoVars, pictureVars, window, locked, ending, counts>>

Callback ==
  /\ device = "running"
  /\ frames > 0 /\ "frames" \notin locked
  /\ frames' = frames - 1
  /\ UNCHANGED <<scheduler, streamVars, audioVars, workerVars, device, videoVars, pictureVars,
                 window, locked, ending, crashed, counts>>

-----------------------------------------------------------------------------
(* The video thread.  sleepTight returns at once, so that front() is called   *)
(* over and over.                                                             *)

VGoes(to) == vpc' = to /\ UNCHANGED <<pictures, picture>>

FrontPicture ==
  /\ vpc = "front"
  /\ "pictures" \notin locked
  /\ pictures # <<>>
  /\ VGoes("pts")
  /\ UNCHANGED <<scheduler, streamVars, audioVars, workerVars, sdl, videoVars,
                 window, locked, ending, crashed, counts>>

(* getPTS() <= target_pts_ *)
TestPts ==
  /\ vpc = "pts"
  /\ \/ video = 0 /\ crashed' = TRUE /\ UNCHANGED pictureVars
     \/ /\ video # 0
        /\ VGoes(IF videoPts <= target THEN "pop" ELSE "front")
        /\ UNCHANGED crashed
  /\ UNCHANGED <<scheduler, streamVars, audioVars, workerVars, sdl, videoVars,
                 window, locked, ending, counts>>

\* mutant: front() where pop() should be
PopPicture_FrontMutant ==
  /\ vpc = "pop" /\ "pictures" \notin locked
  /\ picture' = PictureQueue!Front
  /\ vpc' = IF pictures = <<>> THEN "front" ELSE "decode"
  /\ UNCHANGED <<pictures, scheduler, streamVars, audioVars, workerVars, sdl, videoVars,
                 window, locked, ending, crashed, counts>>

PopPicture ==
  /\ vpc = "pop"
  /\ "pictures" \notin locked
  /\ PictureQueue!Pop(picture')
  /\ vpc' = IF pictures = <<>> THEN "front" ELSE "decode"
  /\ UNCHANGED <<scheduler, streamVars, audioVars, workerVars, sdl, videoVars,
                 window, locked, ending, crashed, counts>>

ShowPicture ==
  /\ vpc = "decode"
  /\ \/ video = 0 /\ crashed' = TRUE /\ UNCHANGED <<videoPts, strays>>
     \/ /\ video # 0
        /\ videoPts' = Pts[picture[3]]
        /\ strays' = IF picture[4] \in gone THEN strays + 1 ELSE strays
        /\ UNCHANGED crashed
  /\ vpc' = "front" /\ picture' = NoPacket
  /\ UNCHANGED <<scheduler, streamVars, audioVars, workerVars, sdl, video, target, gone, pictures,
                 window, locked, ending, counts>>

-----------------------------------------------------------------------------
(* The clients, and terminateNow() *)

Call(t) ==
  /\ calls < MaxCalls
  /\ TaskQueue!Push(t)
  /\ calls' = calls + 1
  /\ UNCHANGED <<started, spc, task, streamVars, audioVars, workerVars, sdl, videoVars, pictureVars,
                 window, locked, ending, crashed, opens, plays, eofs>>

EGoes(from, to) == ending = from /\ ending' = to /\ UNCHANGED <<streamVars, counts, crashed>>

(* video_.terminateNow: a thread that is killed keeps the mutex it holds *)
KillVideo ==
  /\ EGoes("no", "video")
  /\ vpc' = "gone"
  /\ locked' \in {locked} \cup (IF vpc \in {"front", "pop"} THEN {locked \cup {"pictures"}} ELSE {})
  /\ UNCHANGED <<scheduler, audioVars, workerVars, sdl, videoVars, pictures, picture, window>>

EndVideo ==
  /\ EGoes("video", "pictures")
  /\ video' = 0
  /\ UNCHANGED <<scheduler, audioVars, workerVars, sdl, videoPts, target, gone, strays, pictureVars, window, locked>>

(* the rest of close(), beside the scheduler's thread, which may be there too; *)
(* and close() of the window, which ends all of SDL                            *)
EndIsEmpty ==
  /\ "pictures" \notin locked
  /\ \/ /\ pictures # <<>>
        /\ EGoes("pictures", "drop")
        /\ UNCHANGED <<device, window>>
     \/ /\ pictures = <<>>
        /\ EGoes("pictures", "audio")
        /\ window' = FALSE
        /\ device' = IF window THEN "closed" ELSE device
  /\ UNCHANGED <<scheduler, audioVars, workerVars, frames, videoVars, pictureVars, locked>>

EndDropPicture ==
  /\ EGoes("drop", "pictures")
  /\ "pictures" \notin locked
  /\ PictureQueue!Pop(PictureQueue!Front)
  /\ UNCHANGED <<scheduler, audioVars, workerVars, sdl, videoVars, vpc, picture, window, locked>>

(* audio_.terminateNow *)
KillAudio ==
  /\ EGoes("audio", "context")
  /\ apc' = "gone"
  /\ locked' \in {locked} \cup (CASE apc = "pop" -> {locked \cup {"jobs"}}
                                 [] apc = "decode" -> {locked \cup {"frames"}}
                                 [] OTHER -> {})
  /\ UNCHANGED <<scheduler, audioVars, jobs, job, sdl, videoVars, pictureVars, window>>

EndAudio ==
  /\ EGoes("context", "device")
  /\ audio' = 0
  /\ UNCHANGED <<scheduler, audioPts, workerVars, sdl, videoVars, pictureVars, window, locked>>

(* AudioSDL.close, and then scheduler_.terminateAndWait *)
EndDevice ==
  /\ EGoes("device", "join")
  /\ "frames" \notin locked
  /\ device' = "closed" /\ frames' = 0
  /\ started' = FALSE
  /\ UNCHANGED <<tasks, spc, task, audioVars, workerVars, videoVars, pictureVars, window, locked>>

Join ==
  /\ EGoes("join", "done")
  /\ spc = "over"
  /\ UNCHANGED <<scheduler, audioVars, workerVars, sdl, videoVars, pictureVars, window, locked>>

-----------------------------------------------------------------------------
SchedulerStep ==
  /\ ~crashed
  /\ \/ Leave \/ PopTask \/ OpenStream \/ OpenAudio \/ OpenVideo \/ Play \/ Pause \/ Move \/ Read \/ Sync
     \/ CloseContexts \/ CloseDevice \/ CloseVideo \/ IsEmpty \/ DropPicture

WorkerStep == ~crashed /\ (PopJob \/ DecodeJob)

VideoStep == ~crashed /\ (FrontPicture \/ TestPts \/ PopPicture \/ ShowPicture)

EndStep == ~crashed /\ (EndVideo \/ EndIsEmpty \/ EndDropPicture \/ KillAudio \/ EndAudio \/ EndDevice \/ Join)

Next ==
  \/ SchedulerStep \/ WorkerStep \/ VideoStep
  \/ ~crashed /\ Callback
  \/ ~crashed /\ \E t \in Wishes : Call(t)
  \/ ~crashed /\ KillVideo
  \/ EndStep

SafeSpec == Init /\ [][Next]_vars

(* Each thread runs while it can, that of terminateNow() included once it has *)
(* begun; SDL calls back for as long as the device runs.                      *)
Fairness ==
  /\ WF_vars(SchedulerStep)
  /\ WF_vars(WorkerStep)
  /\ WF_vars(~crashed /\ Callback)
  /\ WF_vars(EndStep)

Spec == SafeSpec /\ Fairness

-----------------------------------------------------------------------------
(* Properties *)

Held ==
  jobs \o pictures \o (IF job = NoPacket THEN <<>> ELSE <<job>>)
       \o (IF picture = NoPacket THEN <<>> ELSE <<picture>>)

(* No packet is in two places: the video thread, do_close and terminateNow()  *)
(* may all be emptying queue_ between each other's is_empty() and pop(), and   *)
(* whoever gets a packet is the only one to free it (FFVideo.hpp:23, 82-85).   *)
HeldOnce == \A i, j \in 1 .. Len(Held) : i # j => Held[i] # Held[j]

(* on_EOF_ is called at most once for each play(), whatever fails to open.    *)
EofOncePerPlay == eofs <= plays

(* After video_.close() the decoder of a later file gets one picture of the    *)
(* closed one at most, which the video thread had taken: close() leaves none   *)
(* behind though the thread goes on popping (FFVideo.hpp:23-24, 77-86).        *)
OneStrayPicture == strays <= 1

(* A file plays once all three parts have opened it. *)
Plays(n) == started /\ stream = n /\ audio = n /\ video = n

Stopped == ~started \/ crashed \/ ending # "no"

(* The first file is read to its end unless it is stopped before: the buffers *)
(* that on_repeat_ waits for do get played.                                   *)
FirstFileIsRead == Plays(1) ~> Stopped

(* terminateNow() returns, unless a thread it killed has left a mutex locked. *)
TerminateNowReturns == ending # "no" ~> (ending = "done" \/ locked # {} \/ crashed)
=============================================================================
