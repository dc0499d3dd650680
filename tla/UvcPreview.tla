----------------------------- MODULE UvcPreview ----------------------------
(***************************************************************************)
(* The native preview (UVCPreview.cpp): the thread that calls its methods, *)
(* libuvc's thread with the frame callback, the preview thread, which      *)
(* opens and closes the stream, and the capture thread, which hands frames *)
(* to a Java callback or copies them to a capture surface.                 *)
(*                                                                         *)
(* A section under preview_mutex, capture_mutex or pool_mutex is one step, *)
(* except where it clears mIsCapturing and then waits: the flag is read    *)
(* without the mutex.  mIsRunning, the callback object and the capture     *)
(* window are read without it too, each read is a step.  The threads       *)
(* "wait" before they take the mutex and are "waiting" in                  *)
(* pthread_cond_wait(); nobody wakes up without a signal.                  *)
(*                                                                         *)
(* Abstractions.  Frames are counted; drawing, conversion (the frames it   *)
(* takes from the pool go back within the function) and the frames' sizes  *)
(* are left out.  libuvc does what UvcFrameSource promises.  A call        *)
(* through a deleted callback, a released window in use or a join of a     *)
(* thread that never was has no defined outcome: `broken' is set and the   *)
(* model ends.                                                             *)
(***************************************************************************)
EXTENDS Integers, FiniteSets

CONSTANTS
  Callback,  \* Java callback objects
  Window,    \* capture surfaces
  None,      \* no object, no surface
  MaxFrame,  \* MAX_FRAME, the length of previewFrames
  PoolSize,  \* FRAME_POOL_SZ
  MaxCall    \* bound: calls of the controlling thread

ASSUME PreviewAssumption ==
  /\ None \notin Callback \cup Window
  /\ MaxFrame \in Nat \ {0} /\ PoolSize \in Nat /\ MaxCall \in Nat

VARIABLES
  ctl,       \* next step of the controlling thread
  arg,       \* the object its call sets
  stopAfter, \* Java's stopPreview() goes on to the native one
  calls,     \* calls so far
  running, capturing, previewWindow, captureWindow, frameCallback,
  preview,   \* next step of the preview thread
  capture,   \* next step of the capture thread
  onSurface, \* it is in do_capture_surface()
  source,    \* next step of libuvc's thread in the frame callback
  phase,     \* of the stream, see UvcFrameSource
  queued,    \* frames in previewFrames
  slot,      \* frames in captureQueu, 0 or 1
  pooled,    \* frames in mFramePool
  live,      \* frames allocated and not freed
  stops,     \* calls of the native stopPreview() that found it running
  raced,     \* one of them came between a thread's test of mIsRunning and its wait
  unjoined,  \* one of them had no capture thread to join
  broken

ctlVars  == <<ctl, arg, stopAfter, calls>>
windows  == <<previewWindow, captureWindow, frameCallback>>
stream   == <<source, phase>>
pool     == <<pooled, live>>
frameVars == <<queued, slot, pool>>
history  == <<stops, raced, unjoined, broken>>
previewVars == <<ctlVars, windows, running, capturing, preview, capture, onSurface, stream,
                 frameVars, history>>

Source == INSTANCE UvcFrameSource WITH inCall <- source # "out", failed <- FALSE

PreviewTypeOK ==
  /\ ctl \in {"idle", "holdCallback", "waitCallback", "wokenCallback", "setCallback",
              "holdWindow", "waitWindow", "wokenWindow", "setWindow", "stop", "signal", "joinCapture",
              "joinPreview", "clear"}
  /\ arg \in Callback \cup Window \cup {None}
  /\ stopAfter \in BOOLEAN /\ calls \in 0 .. MaxCall
  /\ running \in BOOLEAN /\ capturing \in BOOLEAN /\ previewWindow \in BOOLEAN
  /\ captureWindow \in Window \cup {None} /\ frameCallback \in Callback \cup {None}
  /\ preview \in {"none", "start", "create", "loop", "wait", "waiting", "woken", "draw",
                  "signal", "close", "closing", "dead"}
  /\ capture \in {"none", "clear", "outer", "choose", "loop", "wait", "waiting", "woken",
                  "surface", "copying", "check", "use", "calling", "release", "forget",
                  "broadcast", "dead"}
  /\ onSurface \in BOOLEAN
  /\ source \in {"out", "in", "copied", "return"} /\ Source!SourceTypeOK
  /\ queued \in 0 .. MaxFrame /\ slot \in {0, 1} /\ pooled \in 0 .. PoolSize
  /\ live \in Nat /\ stops \in 0 .. calls
  /\ raced \in BOOLEAN /\ unjoined \in BOOLEAN /\ broken \in BOOLEAN

PreviewInit ==
  /\ ctl = "idle" /\ arg = None /\ stopAfter = FALSE /\ calls = 0
  /\ running = FALSE /\ capturing = FALSE /\ previewWindow = FALSE
  /\ captureWindow = None /\ frameCallback = None
  /\ preview = "none" /\ capture = "none" /\ onSurface = FALSE
  /\ source = "out" /\ phase = "off"
  /\ queued = 0 /\ slot = 0 /\ pooled = PoolSize /\ live = PoolSize
  /\ stops = 0 /\ raced = FALSE /\ unjoined = FALSE /\ broken = FALSE

-----------------------------------------------------------------------------
(* Frames, mutexes and condition variables.                                 *)

\* get_frame(): from the pool, or a new one.
GetFrame ==
  \/ pooled > 0 /\ pooled' = pooled - 1 /\ UNCHANGED live
  \/ pooled = 0 /\ live' = live + 1 /\ UNCHANGED pooled

\* recycle_frame() for n frames: what the pool has no room for is freed.
Recycle(n) ==
  LET room == PoolSize - pooled IN
  IF n <= room THEN pooled' = pooled + n /\ UNCHANGED live
               ELSE pooled' = PoolSize /\ live' = live - (n - room)

\* The controlling thread keeps capture_mutex between clearing mIsCapturing and waiting.
CaptureMutexFree == ctl \notin {"holdCallback", "holdWindow"}

Woken(pc) == IF pc = "waiting" THEN "woken" ELSE pc

Waits == ctl \in {"waitCallback", "waitWindow"}

WakeControl == ctl' = CASE ctl = "waitCallback" -> "wokenCallback"
                        [] ctl = "waitWindow"   -> "wokenWindow"
                        [] OTHER                -> ctl

BroadcastCapture == WakeControl /\ capture' = Woken(capture)

-----------------------------------------------------------------------------
(* The controlling thread.                                                  *)

Call == ctl = "idle" /\ calls < MaxCall /\ calls' = calls + 1

SetPreviewDisplay ==
  /\ Call
  /\ previewWindow' = ~previewWindow
  /\ UNCHANGED <<ctl, arg, stopAfter, captureWindow, frameCallback, running, capturing, preview,
                 capture, onSurface, stream, frameVars, history>>

\* Without a window nothing is started: mIsRunning is set and cleared again (333-347), which is
\* taken as one step.
StartPreview ==
  /\ Call
  /\ ~running /\ previewWindow
  /\ running' = TRUE
  /\ preview' = "start"
  /\ UNCHANGED <<ctl, arg, stopAfter, windows, capturing, capture, onSurface, stream, frameVars,
                 history>>

\* setFrameCallback() and setCaptureDisplay(): where they go when they have capture_mutex.
Interrupt(hold, set, current) ==
  IF running /\ capturing
    THEN /\ capturing' = FALSE
         /\ ctl' = IF current # None THEN hold ELSE set
    ELSE ctl' = set /\ UNCHANGED capturing

\* stop: Java's stopPreview(), which removes the callback first.
SetFrameCallback(c, stop) ==
  /\ Call
  /\ stop => c = None
  /\ arg' = c /\ stopAfter' = stop
  /\ Interrupt("holdCallback", "setCallback", frameCallback)
  /\ UNCHANGED <<windows, running, preview, capture, onSurface, stream, frameVars, history>>

SetCaptureDisplay(w) ==
  /\ Call
  /\ arg' = w /\ stopAfter' = FALSE
  /\ Interrupt("holdWindow", "setWindow", captureWindow)
  /\ UNCHANGED <<windows, running, preview, capture, onSurface, stream, frameVars, history>>

\* "wait finishing capturing"
WaitFinishing(hold, wait) ==
  /\ ctl = hold
  /\ ctl' = wait
  /\ capture' = Woken(capture)
  /\ UNCHANGED <<arg, stopAfter, calls, windows, running, capturing, preview, onSurface, stream,
                 frameVars, history>>

ReplaceCallback ==
  /\ ctl \in {"setCallback", "wokenCallback"}
  /\ frameCallback' = arg /\ arg' = None
  /\ ctl' = IF stopAfter THEN "stop" ELSE "idle"
  /\ UNCHANGED <<stopAfter, calls, previewWindow, captureWindow, running, capturing, preview,
                 capture, onSurface, stream, frameVars, history>>

\* The old window is released, which the capture thread may be using or have released just now.
ReplaceWindow ==
  /\ ctl \in {"setWindow", "wokenWindow"}
  /\ captureWindow' = arg /\ arg' = None
  /\ broken' = (captureWindow # arg /\ captureWindow # None /\ capture \in {"copying", "forget"})
  /\ ctl' = "idle"
  /\ UNCHANGED <<stopAfter, calls, previewWindow, frameCallback, running, capturing, preview,
                 capture, onSurface, stream, frameVars, stops, raced, unjoined>>

\* The native stopPreview().
StopFlag ==
  /\ ctl = "stop"
  /\ ctl' = IF running THEN "signal" ELSE "clear"
  /\ running' = FALSE
  /\ stops' = IF running THEN stops + 1 ELSE stops
  /\ raced' = (raced \/ (running /\ (preview = "wait" \/ capture = "wait")))
  /\ UNCHANGED <<arg, stopAfter, calls, windows, capturing, preview, capture, onSurface, stream,
                 frameVars, unjoined, broken>>

\* Mutant: only the capture thread is signalled.
SignalCaptureOnly ==
  /\ ctl = "signal"
  /\ capture' = Woken(capture)
  /\ ctl' = "joinCapture"
  /\ UNCHANGED <<arg, stopAfter, calls, windows, running, capturing, preview, onSurface, stream,
                 frameVars, history>>

\* Both threads are signalled, without a mutex.
SignalThreads ==
  /\ ctl = "signal"
  /\ preview' = Woken(preview) /\ capture' = Woken(capture)
  /\ ctl' = "joinCapture"
  /\ UNCHANGED <<arg, stopAfter, calls, windows, running, capturing, onSurface, stream, frameVars,
                 history>>

\* A capture thread that was not created yet cannot be joined: an error, or worse.
JoinCapture ==
  /\ ctl = "joinCapture"
  /\ \/ capture = "dead" /\ UNCHANGED <<unjoined, broken>>
     \/ capture = "none" /\ unjoined' = TRUE /\ broken' \in BOOLEAN
  /\ ctl' = "joinPreview"
  /\ UNCHANGED <<arg, stopAfter, calls, windows, running, capturing, preview, capture, onSurface,
                 stream, frameVars, stops, raced>>

\* Mutant: the preview thread is not joined.
NotJoinedPreview == TRUE

PreviewGone == preview = "dead"

JoinPreview ==
  /\ ctl = "joinPreview"
  /\ PreviewGone
  /\ ctl' = "clear"
  /\ UNCHANGED <<arg, stopAfter, calls, windows, running, capturing, preview, capture, onSurface,
                 stream, frameVars, history>>

\* clearPreviewFrame(), clearCaptureFrame() and the windows.
ClearAll ==
  /\ ctl = "clear"
  /\ Recycle(queued + slot)
  /\ queued' = 0 /\ slot' = 0
  /\ previewWindow' = FALSE /\ captureWindow' = None
  /\ preview' = "none"
  /\ capture' = IF capture = "dead" THEN "none" ELSE capture
  /\ ctl' = "idle" /\ stopAfter' = FALSE
  /\ UNCHANGED <<arg, calls, frameCallback, running, capturing, onSurface, stream,
                 history>>

-----------------------------------------------------------------------------
(* libuvc's thread: uvc_preview_frame_callback().                           *)

FrameArrives ==
  /\ source = "out"
  /\ source' = "in"
  /\ Source!CallBegins
  /\ UNCHANGED <<ctlVars, windows, running, capturing, preview, capture, onSurface, phase,
                 frameVars, history>>

\* Broken frames, and those that come after the stop, are left.
CopyFrame ==
  /\ source = "in"
  /\ \/ source' = "return" /\ UNCHANGED pool
     \/ running /\ source' = "copied" /\ GetFrame
  /\ UNCHANGED <<ctlVars, windows, running, capturing, preview, capture, onSurface, phase,
                 queued, slot, history>>

\* Mutant: the length of the queue is not looked at.
WantedAnyway == running

Wanted == running /\ queued < MaxFrame

AddPreviewFrame ==
  /\ source = "copied"
  /\ source' = "return"
  /\ IF Wanted
       THEN queued' = queued + 1 /\ preview' = Woken(preview) /\ UNCHANGED pool
       ELSE Recycle(1) /\ UNCHANGED <<queued, preview>>
  /\ UNCHANGED <<ctlVars, windows, running, capturing, capture, onSurface, phase, slot, history>>

FrameCallbackReturns ==
  /\ source = "return"
  /\ source' = "out"
  /\ Source!CallEnds
  /\ UNCHANGED <<ctlVars, windows, running, capturing, preview, capture, onSurface, phase,
                 frameVars, history>>

-----------------------------------------------------------------------------
(* The preview thread.                                                      *)

\* prepare_preview() and uvc_start_streaming_bandwidth(), which may fail.
StartStreaming ==
  /\ preview = "start"
  /\ \/ preview' = "create" /\ UNCHANGED source /\ Source!SourceStart
     \/ preview' = "dead" /\ UNCHANGED stream
  /\ UNCHANGED <<ctlVars, windows, running, capturing, capture, onSurface, frameVars, history>>

CreateCapture ==
  /\ preview = "create"
  /\ Recycle(queued) /\ queued' = 0
  /\ broken' = (capture # "none")
  /\ capture' = "clear"
  /\ preview' = "loop"
  /\ UNCHANGED <<ctlVars, windows, running, capturing, onSurface, stream, slot, stops, raced,
                 unjoined>>

PreviewLoop ==
  /\ preview = "loop"
  /\ preview' = IF running THEN "wait" ELSE "signal"
  /\ UNCHANGED <<ctlVars, windows, running, capturing, capture, onSurface, stream, frameVars,
                 history>>

\* waitPreviewFrame()
WaitPreviewFrame ==
  /\ \/ /\ preview = "wait" /\ queued = 0
        /\ preview' = "waiting" /\ UNCHANGED queued
     \/ /\ preview = "woken" \/ (preview = "wait" /\ queued > 0)
        /\ IF running /\ queued > 0
             THEN preview' = "draw" /\ queued' = queued - 1
             ELSE preview' = "loop" /\ UNCHANGED queued
  /\ UNCHANGED <<ctlVars, windows, running, capturing, capture, onSurface, stream, slot, pool,
                 history>>

\* Mutant: the frame that is replaced is not returned.
AddForgetsOld ==
  /\ preview = "draw"
  /\ CaptureMutexFree
  /\ preview' = "loop"
  /\ IF running THEN BroadcastCapture /\ slot' = 1 ELSE UNCHANGED <<ctl, capture, slot>>
  /\ UNCHANGED <<pool, arg, stopAfter, calls, windows, running, capturing, onSurface, stream,
                 queued, history>>

\* addCaptureFrame(): the queue keeps the latest frame; after the stop the frame is lost.
AddCaptureFrame ==
  /\ preview = "draw"
  /\ CaptureMutexFree
  /\ preview' = "loop"
  /\ IF running
       THEN BroadcastCapture /\ Recycle(slot) /\ slot' = 1
       ELSE UNCHANGED <<ctl, capture, slot, pool>>
  /\ UNCHANGED <<arg, stopAfter, calls, windows, running, capturing, onSurface, stream, queued,
                 history>>

\* A frame that cannot be decoded goes back to the pool.
DecodeFails ==
  /\ preview = "draw"
  /\ preview' = "loop"
  /\ Recycle(1)
  /\ UNCHANGED <<ctlVars, windows, running, capturing, capture, onSurface, stream, queued, slot,
                 history>>

PreviewEnds ==
  /\ preview = "signal"
  /\ preview' = "close"
  /\ capture' = Woken(capture)
  /\ UNCHANGED <<ctlVars, windows, running, capturing, onSurface, stream, frameVars,
                 history>>

\* uvc_stop_streaming()
CloseStreaming ==
  /\ \/ preview = "close" /\ preview' = "closing" /\ UNCHANGED source /\ Source!SourceStop
     \/ preview = "closing" /\ preview' = "dead" /\ UNCHANGED source /\ Source!SourceStopped
  /\ UNCHANGED <<ctlVars, windows, running, capturing, capture, onSurface, frameVars, history>>

-----------------------------------------------------------------------------
(* The capture thread.                                                      *)

ClearCapture ==
  /\ capture = "clear"
  /\ CaptureMutexFree
  /\ Recycle(slot) /\ slot' = 0
  /\ capture' = "outer"
  /\ UNCHANGED <<ctlVars, windows, running, capturing, preview, onSurface, stream, queued, history>>

\* do_capture(); the test of mIsRunning and the assignment of mIsCapturing are one step.
CaptureLoop ==
  /\ capture = "outer"
  /\ capture' = IF running THEN "choose" ELSE "dead"
  /\ capturing' = (running \/ capturing)
  /\ UNCHANGED <<ctlVars, windows, running, preview, onSurface, stream, frameVars, history>>

ChooseLoop ==
  /\ capture = "choose"
  /\ capture' = "loop"
  /\ onSurface' = (captureWindow # None)
  /\ UNCHANGED <<ctlVars, windows, running, capturing, preview, stream, frameVars, history>>

FrameLoop ==
  /\ capture = "loop"
  /\ capture' = IF running /\ capturing THEN "wait"
                ELSE IF onSurface THEN "release" ELSE "broadcast"
  /\ UNCHANGED <<ctlVars, windows, running, capturing, preview, onSurface, stream, frameVars,
                 history>>

\* waitCaptureFrame()
WaitCaptureFrame ==
  /\ CaptureMutexFree
  /\ \/ /\ capture = "wait" /\ slot = 0
        /\ capture' = "waiting" /\ UNCHANGED slot
     \/ /\ capture = "woken" \/ (capture = "wait" /\ slot = 1)
        /\ IF running /\ slot = 1
             THEN capture' = (IF onSurface THEN "surface" ELSE "check") /\ slot' = 0
             ELSE capture' = "loop" /\ UNCHANGED slot
  /\ UNCHANGED <<ctlVars, windows, running, capturing, preview, onSurface, stream, queued, pool,
                 history>>

\* The two tests and the read of mCaptureWindow (816, 823) are one step.
CopyToSurface ==
  /\ \/ /\ capture = "surface"
        /\ capture' = IF capturing /\ captureWindow # None THEN "copying" ELSE "check"
     \/ capture = "copying" /\ capture' = "check"
  /\ UNCHANGED <<ctlVars, windows, running, capturing, preview, onSurface, stream, frameVars,
                 history>>

\* do_capture_callback(): the object is tested, read again and called, without the mutex.
CaptureCallback ==
  /\ \/ capture = "check" /\ frameCallback # None /\ capture' = "use" /\ UNCHANGED <<pool, broken>>
     \/ capture = "use" /\ capture' = "calling" /\ broken' = (frameCallback = None) /\ UNCHANGED pool
     \/ /\ capture = "calling" \/ (capture = "check" /\ frameCallback = None)
        /\ capture' = "loop" /\ Recycle(1) /\ UNCHANGED broken
  /\ UNCHANGED <<ctlVars, windows, running, capturing, preview, onSurface, stream, queued, slot,
                 stops, raced, unjoined>>

\* The end of do_capture_surface() releases the window and forgets it, without the mutex.
ReleaseWindow ==
  /\ \/ /\ capture = "release"
        /\ capture' = IF captureWindow # None THEN "forget" ELSE "broadcast"
        /\ UNCHANGED captureWindow
     \/ /\ capture = "forget"
        /\ captureWindow' = None
        /\ capture' = "broadcast"
  /\ UNCHANGED <<ctlVars, previewWindow, frameCallback, running, capturing, preview, onSurface,
                 stream, frameVars, history>>

CaptureFinished ==
  /\ capture = "broadcast"
  /\ capture' = "outer"
  /\ WakeControl
  /\ UNCHANGED <<arg, stopAfter, calls, windows, running, capturing, preview, onSurface, stream,
                 frameVars, history>>

-----------------------------------------------------------------------------
ControlCall ==
  \/ SetPreviewDisplay \/ StartPreview
  \/ \E c \in Callback \cup {None}, stop \in BOOLEAN : SetFrameCallback(c, stop)
  \/ \E w \in Window \cup {None} : SetCaptureDisplay(w)

ControlStep ==
  \/ WaitFinishing("holdCallback", "waitCallback") \/ ReplaceCallback
  \/ WaitFinishing("holdWindow", "waitWindow") \/ ReplaceWindow
  \/ StopFlag \/ SignalThreads \/ JoinCapture \/ JoinPreview \/ ClearAll

SourceStep == CopyFrame \/ AddPreviewFrame \/ FrameCallbackReturns

PreviewStep ==
  \/ StartStreaming \/ CreateCapture \/ PreviewLoop \/ WaitPreviewFrame
  \/ AddCaptureFrame \/ DecodeFails \/ PreviewEnds \/ CloseStreaming

CaptureStep ==
  \/ ClearCapture \/ CaptureLoop \/ ChooseLoop \/ FrameLoop \/ WaitCaptureFrame
  \/ CopyToSurface \/ CaptureCallback \/ ReleaseWindow \/ CaptureFinished

PreviewNext ==
  /\ ~broken
  /\ ControlCall \/ ControlStep \/ FrameArrives \/ SourceStep \/ PreviewStep \/ CaptureStep

PreviewSpec == PreviewInit /\ [][PreviewNext]_previewVars

\* Every thread runs, the Java callback returns, and uvc_stop_streaming() does (StreamStops of
\* UvcStream) although frames may arrive until then; calls and frames may stay away.
PreviewFairSpec ==
  /\ PreviewSpec
  /\ WF_previewVars(~broken /\ ControlStep)
  /\ WF_previewVars(~broken /\ SourceStep)
  /\ WF_previewVars(~broken /\ PreviewStep)
  /\ SF_previewVars(~broken /\ CloseStreaming)
  /\ WF_previewVars(~broken /\ CaptureStep)

-----------------------------------------------------------------------------
(* Properties. *)

\* When stopPreview() has returned, the stream is off, its callback is not running, both threads
\* have ended and no frame or window is left (UVCPreview.cpp:354-384), unless it came before the
\* preview thread had created the capture thread: then nobody waits for that one.
StoppedQuiet ==
  ctl = "idle" /\ ~running =>
    /\ phase = "off" /\ source = "out" /\ preview = "none"
    /\ queued = 0 /\ slot = 0
    /\ capture = "none" \/ unjoined

Held(pc, pcs) == IF pc \in pcs THEN 1 ELSE 0

Owned ==
  pooled + queued + slot + Held(source, {"copied"}) + Held(preview, {"draw"})
    + Held(capture, {"surface", "copying", "check", "use", "calling"})

\* Every frame that was allocated is in one place: the pool, a queue or the hands of one thread,
\* whatever the order in which the three threads pass it on; each stop may lose one frame, which
\* addCaptureFrame() finds no longer wanted (UVCPreview.cpp:109-135, 420-457, 701-744, 846-876).
FramesKept == live - Owned \in 0 .. stops

NobodyBroadcasts == Waits /\ capture \in {"none", "waiting", "dead"}

\* Java's stopPreview() returns (UVCCamera.java:407-412, UVCPreview.cpp:209-217, 354-366), unless
\* mIsRunning was cleared between a thread's test and its wait, which the signals then do not
\* end, or the wait for the capture thread missed its broadcast and only a frame can end it.
StopReturns == ctl # "idle" /\ stopAfter ~> ctl = "idle" \/ raced \/ NobodyBroadcasts \/ broken

\* "wait finishing capturing": when the wait of setFrameCallback() or setCaptureDisplay() has ended
\* and the old object is about to be deleted, the capture thread is not about to call it, or in
\* the middle of copying to it (UVCPreview.cpp:218, 673).
FinishedCapturing ==
  /\ ctl = "wokenCallback" => capture # "use"
  /\ ctl = "wokenWindow" => capture # "copying"
=============================================================================
