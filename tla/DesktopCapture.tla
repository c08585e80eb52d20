--------------------------- MODULE DesktopCapture ---------------------------
(***************************************************************************)
(* ryulib/DesktopCapture.hpp: the on_repeat_ of a Scheduler grabs the      *)
(* screen into bitmap_ and hands it to on_data_, then sleeps for a frame's *)
(* time.  start() replaces option_ and bitmap_ in the caller's thread, so  *)
(* each use of the two in do_capture and each statement of start() is a    *)
(* step.  An option is what decides the size of the bitmap, and whether a  *)
(* window is captured, which may be iconic.  Extends Scheduler: the class  *)
(* adds no tasks to it, and its constructor sets on_repeat_.               *)
(***************************************************************************)
EXTENDS Scheduler

CONSTANT Options  \* what start is called with: [width, height, window]

VARIABLES
  option,      \* option_
  bitmap,      \* what bitmap_ points to: [live, size]
  starting,    \* where the owner is in start() or the destructor
  frame,       \* how far do_capture is: "begin", "grabbed", "copied", "done"
  torn,        \* this capture used a bitmap that was freed, or not of its size
  undisturbed  \* history: no start() overlaps this capture, nor the destructor

captureVars == <<option, bitmap, starting, frame, torn, undisturbed>>
allVars == <<vars, captureVars>>

(* setWidth and setHeight round up to a multiple of 8 and of 2 *)
Padded(length, cell) == ((length + cell - 1) \div cell) * cell

BitmapSize(o) == Padded(o.width, 8) * Padded(o.height, 2) * 4

CaptureInit ==
  /\ Init
  /\ option = [width |-> 0, height |-> 0, window |-> FALSE]
  /\ bitmap = [live |-> FALSE, size |-> 0]
  /\ starting = "idle"
  /\ frame = "done"
  /\ torn = FALSE
  /\ undisturbed = TRUE

-----------------------------------------------------------------------------
(* The owner *)

SchedulerCall ==
  /\ starting = "idle"
  /\ \/ Construct
     \/ SetOnRepeat
     \/ onRepeat /\ (Stop \/ TerminateAndWait)
     \/ cpc # "idle" /\ Control
  /\ UNCHANGED captureVars

OwnerStep(from, to) ==
  /\ starting = from
  /\ starting' = to
  /\ undisturbed' = FALSE
  /\ UNCHANGED <<frame, torn>>

(* start(): option_ = option, ... *)
StartOption(o) ==
  /\ onRepeat /\ cpc = "idle"
  /\ OwnerStep("idle", "option")
  /\ option' = o
  /\ UNCHANGED <<vars, bitmap>>

(* ... free(bitmap_), if there is one, ... *)
StartFree ==
  /\ OwnerStep("option", "freed")
  /\ bitmap' = [bitmap EXCEPT !.live = FALSE]
  /\ UNCHANGED <<vars, option>>

StartAlloc_KeepMutant ==
  /\ OwnerStep("freed", "alloc")
  /\ bitmap' = [live |-> TRUE, size |-> IF bitmap.size > 0 THEN bitmap.size ELSE BitmapSize(option)]
  /\ UNCHANGED <<vars, option>>

(* ... malloc, ... *)
StartAlloc ==
  /\ OwnerStep("freed", "alloc")
  /\ bitmap' = [live |-> TRUE, size |-> BitmapSize(option)]
  /\ UNCHANGED <<vars, option>>

(* ... and scheduler_.start() *)
StartScheduler ==
  /\ OwnerStep("alloc", "idle")
  /\ Start
  /\ UNCHANGED <<option, bitmap>>

(* free(bitmap_), and ~Scheduler, which only stops; the object is gone then *)
Destroy ==
  /\ onRepeat /\ cpc = "idle"
  /\ OwnerStep("idle", "destroyed")
  /\ bitmap' = [bitmap EXCEPT !.live = FALSE]
  /\ Stop
  /\ UNCHANGED option

-----------------------------------------------------------------------------
(* on_repeat_, in the thread of scheduler_ *)

Idle ==
  /\ \/ LoopTest \/ PopTask \/ DecideRepeat \/ CallSleep \/ FinishSleep \/ Finish
  /\ UNCHANGED captureVars

BeginCapture ==
  /\ BeginRepeat
  /\ frame' = "begin"
  /\ torn' = FALSE
  /\ undisturbed' = (starting = "idle")
  /\ UNCHANGED <<option, bitmap, starting>>

CaptureGoes(from, to) ==
  /\ tpc = "work"
  /\ frame = from
  /\ frame' = to
  /\ UNCHANGED <<vars, option, bitmap, starting, undisturbed>>

(* the target is iconic: on_repeat_ returns without a sleep *)
Iconic ==
  /\ option.window
  /\ frame = "begin" /\ frame' = "done"
  /\ Thread!EndWork
  /\ UNCHANGED <<loopVars, callerVars, option, bitmap, starting, torn, undisturbed>>

(* the GDI calls up to BitBlt and DrawIconEx, any of which may fail *)
Grab ==
  /\ \/ CaptureGoes("begin", "grabbed")
     \/ CaptureGoes("begin", "done")
  /\ UNCHANGED torn

Unfit(size) == ~bitmap.live \/ bitmap.size # size

(* GetDIBits writes a bitmap of option_'s size to bitmap_ *)
Copy ==
  /\ CaptureGoes("grabbed", "copied")
  /\ torn' = Unfit(BitmapSize(option))

(* on_data_ reads that many bytes *)
Deliver ==
  /\ CaptureGoes("copied", "done")
  /\ torn' = (torn \/ Unfit(BitmapSize(option)))

(* scheduler_.sleep *)
EndCapture ==
  /\ frame = "done"
  /\ tpc = "work" /\ Thread!Sleep
  /\ UNCHANGED <<loopVars, callerVars, captureVars>>

-----------------------------------------------------------------------------
CaptureStep ==
  /\ Running
  /\ Idle \/ BeginCapture \/ Iconic \/ Grab \/ Copy \/ Deliver \/ EndCapture

StartStep == Running /\ (StartFree \/ StartAlloc \/ StartScheduler)

CaptureNext ==
  \/ CaptureStep
  \/ Running /\ Disturbed /\ UNCHANGED captureVars
  \/ StartStep
  \/ Running /\ (SchedulerCall \/ Destroy \/ \E o \in Options : StartOption(o))

(* The thread runs while it can and on_data_ returns; a start() or a          *)
(* terminateAndWait() that can go on does, and so does the constructor.      *)
CaptureFairness ==
  /\ WF_allVars(CaptureStep)
  /\ WF_allVars(StartStep)
  /\ WF_allVars(Running /\ SchedulerCall /\ cpc # "idle")
  /\ WF_allVars(Running /\ SchedulerCall /\ ~onRepeat)

CaptureSpec == CaptureInit /\ [][CaptureNext]_allVars /\ CaptureFairness

-----------------------------------------------------------------------------
(* Properties *)

(* A capture that no start() and no destructor overlaps uses a live bitmap of *)
(* the size its option asks for from GetDIBits to the end of on_data_,       *)
(* whatever was started, stopped and started again before it.                *)
TornOnlyByRestart == torn => ~undisturbed
=============================================================================
