------------------------- MODULE UvcPreview_proofs -------------------------
(***************************************************************************)
(* Type correctness of UvcPreview, what a returned stopPreview() leaves    *)
(* behind and the account of the frames, for every set of callbacks and    *)
(* windows, every queue and pool length and every number of calls.         *)
(***************************************************************************)
EXTENDS UvcPreview, TLAPS

\* Between the cleared mIsRunning and the return of stopPreview().
Stopping == {"signal", "joinCapture", "joinPreview", "clear"}

\* Where the preview thread is says what the stream does, and it runs from startPreview() until
\* stopPreview() has joined it.
ThreadsOK ==
  /\ source # "out" => phase # "off"
  /\ preview \in {"none", "start", "dead"} => phase = "off"
  /\ preview \in {"create", "loop", "wait", "waiting", "woken", "draw", "signal", "close"}
       => phase = "on"
  /\ preview = "closing" => phase = "stopping"
  /\ ctl \in Stopping => ~running
  /\ ~running /\ ctl \notin Stopping => preview = "none"
  /\ ctl = "clear" => preview \in {"none", "dead"}

\* The steps at which the capture thread holds a frame.
Holding == {"surface", "copying", "check", "use", "calling"}

\* The capture thread exists while its preview thread does, unless a stop could not join it; that
\* one finds mIsRunning cleared before it has taken a frame.
CaptureOK ==
  /\ ~unjoined =>
       /\ preview \in {"none", "start", "create"} => capture = "none"
       /\ ctl = "joinPreview" => capture = "dead"
       /\ ctl = "clear" => capture \in {"none", "dead"}
  /\ ~running /\ ctl \notin {"signal", "joinCapture"}
       => capture \in {"none", "clear", "outer", "dead"}

\* A preview that has not begun has no frames.
EmptyOK ==
  /\ preview \in {"none", "start"} => queued = 0
  /\ preview \in {"none", "start", "create"} => slot = 0 /\ capture \notin Holding

\* A call stops the preview at most once, and sets an object of its own kind.
CallsOK ==
  /\ ctl \notin Stopping \cup {"idle"} => stops < calls
  /\ ctl \in {"holdCallback", "waitCallback", "wokenCallback", "setCallback"}
       => arg \in Callback \cup {None}
  /\ ctl \in {"holdWindow", "waitWindow", "wokenWindow", "setWindow"}
       => arg \in Window \cup {None}

\* The frame the preview thread draws when the stop comes is the one that stop may lose.
LossOK == FramesKept /\ (~running /\ preview = "draw" => live - Owned < stops)

\* The type invariant in three parts: where everybody is, the flags, and how many of what there are.
PlacesOK ==
  /\ ctl \in {"idle", "holdCallback", "waitCallback", "wokenCallback", "setCallback",
              "holdWindow", "waitWindow", "wokenWindow", "setWindow"} \cup {"stop"} \cup Stopping
  /\ arg \in Callback \cup Window \cup {None}
  /\ captureWindow \in Window \cup {None} /\ frameCallback \in Callback \cup {None}
  /\ preview \in {"none", "start", "create", "loop", "wait", "waiting", "woken", "draw",
                  "signal", "close", "closing", "dead"}
  /\ capture \in {"none", "clear", "outer", "choose", "loop", "wait", "waiting", "woken",
                  "release", "forget", "broadcast", "dead"} \cup Holding
  /\ source \in {"out", "in", "copied", "return"} /\ phase \in {"off", "on", "stopping"}

FlagsOK ==
  /\ stopAfter \in BOOLEAN /\ previewWindow \in BOOLEAN /\ onSurface \in BOOLEAN
  /\ running \in BOOLEAN /\ capturing \in BOOLEAN
  /\ raced \in BOOLEAN /\ unjoined \in BOOLEAN /\ broken \in BOOLEAN

CountsOK ==
  /\ queued \in 0 .. MaxFrame /\ slot \in {0, 1} /\ pooled \in 0 .. PoolSize
  /\ live \in Nat /\ calls \in 0 .. MaxCall /\ stops \in 0 .. calls

PreviewInv ==
  /\ PlacesOK
  /\ FlagsOK
  /\ CountsOK
  /\ ThreadsOK
  /\ CaptureOK
  /\ EmptyOK
  /\ CallsOK
  /\ LossOK

\* The account in numbers: how many frames the threads hold is never negative.
LEMMA HeldType == \A pc, pcs : Held(pc, pcs) \in {0, 1}
  BY DEF Held

\* In the invariant's states every frame of the pool and the queues is live.
LEMMA OwnedLive ==
  ASSUME CountsOK, FramesKept
  PROVE  /\ Owned \in Nat
         /\ pooled + queued + slot <= Owned /\ Owned <= live
         /\ source = "copied" => pooled + queued + slot + 1 <= live
         /\ preview = "draw" => pooled + queued + slot + 1 <= live
         /\ capture \in Holding => pooled + queued + slot + 1 <= live
<1> DEFINE S == Held(source, {"copied"})
           P == Held(preview, {"draw"})
           C == Held(capture, {"surface", "copying", "check", "use", "calling"})
<1>1. S \in {0, 1} /\ P \in {0, 1} /\ C \in {0, 1}
  BY HeldType
<1>2. Owned = pooled + queued + slot + S + P + C
  BY DEF Owned
<1>3. /\ source = "copied" => S = 1
      /\ preview = "draw" => P = 1
      /\ capture \in Holding => C = 1
  BY DEF Held, Holding
<1>4. live - Owned \in 0 .. stops
  BY DEF FramesKept
<1>5. pooled \in Nat /\ queued \in Nat /\ slot \in Nat /\ live \in Nat /\ stops \in Int
  BY PreviewAssumption DEF CountsOK
<1> HIDE DEF S, P, C
<1> QED
  BY <1>1, <1>2, <1>3, <1>4, <1>5

\* recycle_frame(): n live frames go to the pool or are freed, none is counted twice.
LEMMA RecycleCounts ==
  ASSUME NEW n \in Nat, pooled \in 0 .. PoolSize, live \in Nat, pooled + n <= live, Recycle(n)
  PROVE  pooled' \in 0 .. PoolSize /\ live' \in Nat /\ live' - pooled' = live - pooled - n
  BY PreviewAssumption DEF Recycle

\* get_frame(): the frame comes from the pool or is one more.
LEMMA GetFrameCounts ==
  ASSUME pooled \in 0 .. PoolSize, live \in Nat, GetFrame
  PROVE  pooled' \in 0 .. PoolSize /\ live' \in Nat /\ live' - pooled' = live - pooled + 1
  BY PreviewAssumption DEF GetFrame

\* Nothing runs before the first call.
LEMMA PreviewInitInv == PreviewInit => PreviewInv
<1> SUFFICES ASSUME PreviewInit PROVE PreviewInv
  OBVIOUS
<1> USE PreviewAssumption DEF PreviewInit
<1>0. PlacesOK /\ FlagsOK
  BY DEF PlacesOK, FlagsOK
<1>1. CountsOK
  BY DEF CountsOK
<1>2. ThreadsOK /\ CaptureOK
  BY DEF ThreadsOK, CaptureOK, Stopping
<1>3. EmptyOK /\ CallsOK
  BY DEF EmptyOK, CallsOK, Stopping, Holding
<1>4. Owned = PoolSize
  BY DEF Owned, Held
<1>5. LossOK
  BY <1>4 DEF LossOK, FramesKept
<1> QED
  BY <1>0, <1>1, <1>2, <1>3, <1>5 DEF PreviewInv

\* Every thread stays at one of its steps, and every object is one of its kind.
LEMMA PlacesStep ==
  PreviewInv /\ [PreviewNext]_previewVars => PlacesOK'
<1> SUFFICES ASSUME PreviewInv, [PreviewNext]_previewVars PROVE PlacesOK'
  OBVIOUS
<1> USE PreviewAssumption
<1> USE DEF PreviewInv, PlacesOK, CallsOK, Stopping, Holding, ctlVars, windows, stream, pool,
     frameVars, history
<1>1. CASE ControlCall
  <2>1. CASE SetPreviewDisplay
    BY <2>1 DEF SetPreviewDisplay, Call
  <2>2. CASE StartPreview
    BY <2>2 DEF StartPreview, Call
  <2>3. ASSUME NEW c \in Callback \cup {None}, NEW stop \in BOOLEAN, SetFrameCallback(c,
  stop) PROVE PlacesOK'
    BY <2>3 DEF SetFrameCallback, Call, Interrupt
  <2>4. ASSUME NEW w \in Window \cup {None}, SetCaptureDisplay(w) PROVE PlacesOK'
    BY <2>4 DEF SetCaptureDisplay, Call, Interrupt
  <2> QED
    BY <1>1, <2>1, <2>2, <2>3, <2>4 DEF ControlCall
<1>2. CASE ControlStep
  <2>1. CASE WaitFinishing("holdCallback", "waitCallback")
    BY <2>1 DEF WaitFinishing, Woken
  <2>2. CASE ReplaceCallback
    BY <2>2 DEF ReplaceCallback
  <2>3. CASE WaitFinishing("holdWindow", "waitWindow")
    BY <2>3 DEF WaitFinishing, Woken
  <2>4. CASE ReplaceWindow
    BY <2>4 DEF ReplaceWindow
  <2>5. CASE StopFlag
    BY <2>5 DEF StopFlag
  <2>6. CASE SignalThreads
    BY <2>6 DEF SignalThreads, Woken
  <2>7. CASE JoinCapture
    BY <2>7 DEF JoinCapture
  <2>8. CASE JoinPreview
    BY <2>8 DEF JoinPreview, PreviewGone
  <2>9. CASE ClearAll
    BY <2>9 DEF ClearAll
  <2> QED
    BY <1>2, <2>1, <2>2, <2>3, <2>4, <2>5, <2>6, <2>7, <2>8, <2>9 DEF ControlStep
<1>3. CASE FrameArrives
  BY <1>3 DEF FrameArrives, Source!CallBegins, Source!SamePhase
<1>4. CASE SourceStep
  <2>1. CASE CopyFrame
    BY <2>1 DEF CopyFrame
  <2>2. CASE AddPreviewFrame
    BY <2>2 DEF AddPreviewFrame, Wanted, Woken
  <2>3. CASE FrameCallbackReturns
    BY <2>3 DEF FrameCallbackReturns, Source!CallEnds, Source!SamePhase
  <2> QED
    BY <1>4, <2>1, <2>2, <2>3 DEF SourceStep
<1>5. CASE PreviewStep
  <2>1. CASE StartStreaming
    BY <2>1 DEF StartStreaming, Source!SourceStart, Source!SameCall
  <2>2. CASE CreateCapture
    BY <2>2 DEF CreateCapture
  <2>3. CASE PreviewLoop
    BY <2>3 DEF PreviewLoop
  <2>4. CASE WaitPreviewFrame
    BY <2>4 DEF WaitPreviewFrame
  <2>5. CASE AddCaptureFrame
    BY <2>5 DEF AddCaptureFrame, BroadcastCapture, WakeControl, Woken
  <2>6. CASE DecodeFails
    BY <2>6 DEF DecodeFails
  <2>7. CASE PreviewEnds
    BY <2>7 DEF PreviewEnds, Woken
  <2>8. CASE CloseStreaming
    BY <2>8 DEF CloseStreaming, Source!SourceStop, Source!SourceStopped, Source!SameCall
  <2> QED
    BY <1>5, <2>1, <2>2, <2>3, <2>4, <2>5, <2>6, <2>7, <2>8 DEF PreviewStep
<1>6. CASE CaptureStep
  <2>1. CASE ClearCapture
    BY <2>1 DEF ClearCapture
  <2>2. CASE CaptureLoop
    BY <2>2 DEF CaptureLoop
  <2>3. CASE ChooseLoop
    BY <2>3 DEF ChooseLoop
  <2>4. CASE FrameLoop
    BY <2>4 DEF FrameLoop
  <2>5. CASE WaitCaptureFrame
    BY <2>5 DEF WaitCaptureFrame
  <2>6. CASE CopyToSurface
    BY <2>6 DEF CopyToSurface
  <2>7. CASE CaptureCallback
    BY <2>7 DEF CaptureCallback
  <2>8. CASE ReleaseWindow
    BY <2>8 DEF ReleaseWindow
  <2>9. CASE CaptureFinished
    BY <2>9 DEF CaptureFinished, WakeControl
  <2> QED
    BY <1>6, <2>1, <2>2, <2>3, <2>4, <2>5, <2>6, <2>7, <2>8, <2>9 DEF CaptureStep
<1>7. CASE UNCHANGED previewVars
  BY <1>7 DEF previewVars
<1> QED
  BY <1>1, <1>2, <1>3, <1>4, <1>5, <1>6, <1>7 DEF PreviewNext

\* Every flag stays one.
LEMMA FlagsStep ==
  PreviewInv /\ [PreviewNext]_previewVars => FlagsOK'
<1> SUFFICES ASSUME PreviewInv, [PreviewNext]_previewVars PROVE FlagsOK'
  OBVIOUS
<1> USE PreviewAssumption
<1> USE DEF PreviewInv, FlagsOK, ctlVars, windows, stream, pool, frameVars, history
<1>1. CASE ControlCall
  <2>1. CASE SetPreviewDisplay
    BY <2>1 DEF SetPreviewDisplay, Call
  <2>2. CASE StartPreview
    BY <2>2 DEF StartPreview, Call
  <2>3. ASSUME NEW c \in Callback \cup {None}, NEW stop \in BOOLEAN, SetFrameCallback(c,
  stop) PROVE FlagsOK'
    BY <2>3 DEF SetFrameCallback, Call, Interrupt
  <2>4. ASSUME NEW w \in Window \cup {None}, SetCaptureDisplay(w) PROVE FlagsOK'
    BY <2>4 DEF SetCaptureDisplay, Call, Interrupt
  <2> QED
    BY <1>1, <2>1, <2>2, <2>3, <2>4 DEF ControlCall
<1>2. CASE ControlStep
  <2>1. CASE WaitFinishing("holdCallback", "waitCallback")
    BY <2>1 DEF WaitFinishing, Woken
  <2>2. CASE ReplaceCallback
    BY <2>2 DEF ReplaceCallback
  <2>3. CASE WaitFinishing("holdWindow", "waitWindow")
    BY <2>3 DEF WaitFinishing, Woken
  <2>4. CASE ReplaceWindow
    BY <2>4 DEF ReplaceWindow
  <2>5. CASE StopFlag
    BY <2>5 DEF StopFlag
  <2>6. CASE SignalThreads
    BY <2>6 DEF SignalThreads, Woken
  <2>7. CASE JoinCapture
    BY <2>7 DEF JoinCapture
  <2>8. CASE JoinPreview
    BY <2>8 DEF JoinPreview, PreviewGone
  <2>9. CASE ClearAll
    BY <2>9 DEF ClearAll
  <2> QED
    BY <1>2, <2>1, <2>2, <2>3, <2>4, <2>5, <2>6, <2>7, <2>8, <2>9 DEF ControlStep
<1>3. CASE FrameArrives
  BY <1>3 DEF FrameArrives, Source!CallBegins, Source!SamePhase
<1>4. CASE SourceStep
  <2>1. CASE CopyFrame
    BY <2>1 DEF CopyFrame
  <2>2. CASE AddPreviewFrame
    BY <2>2 DEF AddPreviewFrame, Wanted, Woken
  <2>3. CASE FrameCallbackReturns
    BY <2>3 DEF FrameCallbackReturns, Source!CallEnds, Source!SamePhase
  <2> QED
    BY <1>4, <2>1, <2>2, <2>3 DEF SourceStep
<1>5. CASE PreviewStep
  <2>1. CASE StartStreaming
    BY <2>1 DEF StartStreaming, Source!SourceStart, Source!SameCall
  <2>2. CASE CreateCapture
    BY <2>2 DEF CreateCapture
  <2>3. CASE PreviewLoop
    BY <2>3 DEF PreviewLoop
  <2>4. CASE WaitPreviewFrame
    BY <2>4 DEF WaitPreviewFrame
  <2>5. CASE AddCaptureFrame
    BY <2>5 DEF AddCaptureFrame, BroadcastCapture, WakeControl, Woken
  <2>6. CASE DecodeFails
    BY <2>6 DEF DecodeFails
  <2>7. CASE PreviewEnds
    BY <2>7 DEF PreviewEnds, Woken
  <2>8. CASE CloseStreaming
    BY <2>8 DEF CloseStreaming, Source!SourceStop, Source!SourceStopped, Source!SameCall
  <2> QED
    BY <1>5, <2>1, <2>2, <2>3, <2>4, <2>5, <2>6, <2>7, <2>8 DEF PreviewStep
<1>6. CASE CaptureStep
  <2>1. CASE ClearCapture
    BY <2>1 DEF ClearCapture
  <2>2. CASE CaptureLoop
    BY <2>2 DEF CaptureLoop
  <2>3. CASE ChooseLoop
    BY <2>3 DEF ChooseLoop
  <2>4. CASE FrameLoop
    BY <2>4 DEF FrameLoop
  <2>5. CASE WaitCaptureFrame
    BY <2>5 DEF WaitCaptureFrame
  <2>6. CASE CopyToSurface
    BY <2>6 DEF CopyToSurface
  <2>7. CASE CaptureCallback
    BY <2>7 DEF CaptureCallback
  <2>8. CASE ReleaseWindow
    BY <2>8 DEF ReleaseWindow
  <2>9. CASE CaptureFinished
    BY <2>9 DEF CaptureFinished, WakeControl
  <2> QED
    BY <1>6, <2>1, <2>2, <2>3, <2>4, <2>5, <2>6, <2>7, <2>8, <2>9 DEF CaptureStep
<1>7. CASE UNCHANGED previewVars
  BY <1>7 DEF previewVars
<1> QED
  BY <1>1, <1>2, <1>3, <1>4, <1>5, <1>6, <1>7 DEF PreviewNext

\* No queue, no pool and no count leaves its range.
LEMMA CountsStep ==
  PreviewInv /\ [PreviewNext]_previewVars => CountsOK'
<1> SUFFICES ASSUME PreviewInv, [PreviewNext]_previewVars PROVE CountsOK'
  OBVIOUS
<1> USE PreviewAssumption
<1> USE DEF PreviewInv, CountsOK, CallsOK, Stopping, ctlVars, windows, stream, pool, frameVars,
     history
<1>1. CASE ControlCall
  <2>1. CASE SetPreviewDisplay
    BY <2>1 DEF SetPreviewDisplay, Call
  <2>2. CASE StartPreview
    BY <2>2 DEF StartPreview, Call
  <2>3. ASSUME NEW c \in Callback \cup {None}, NEW stop \in BOOLEAN, SetFrameCallback(c,
  stop) PROVE CountsOK'
    BY <2>3 DEF SetFrameCallback, Call, Interrupt
  <2>4. ASSUME NEW w \in Window \cup {None}, SetCaptureDisplay(w) PROVE CountsOK'
    BY <2>4 DEF SetCaptureDisplay, Call, Interrupt
  <2> QED
    BY <1>1, <2>1, <2>2, <2>3, <2>4 DEF ControlCall
<1>2. CASE ControlStep
  <2>1. CASE WaitFinishing("holdCallback", "waitCallback")
    BY <2>1 DEF WaitFinishing, Woken
  <2>2. CASE ReplaceCallback
    BY <2>2 DEF ReplaceCallback
  <2>3. CASE WaitFinishing("holdWindow", "waitWindow")
    BY <2>3 DEF WaitFinishing, Woken
  <2>4. CASE ReplaceWindow
    BY <2>4 DEF ReplaceWindow
  <2>5. CASE StopFlag
    BY <2>5 DEF StopFlag
  <2>6. CASE SignalThreads
    BY <2>6 DEF SignalThreads, Woken
  <2>7. CASE JoinCapture
    BY <2>7 DEF JoinCapture
  <2>8. CASE JoinPreview
    BY <2>8 DEF JoinPreview, PreviewGone
  <2>9. CASE ClearAll
    <3>1. Recycle(queued + slot)
      BY <2>9 DEF ClearAll
    <3>2. pooled + queued + slot <= live
      BY OwnedLive DEF LossOK
    <3>3. pooled' \in 0 .. PoolSize /\ live' \in Nat
      BY <3>1, <3>2, RecycleCounts
    <3> QED
      BY <2>9, <3>3 DEF ClearAll
  <2> QED
    BY <1>2, <2>1, <2>2, <2>3, <2>4, <2>5, <2>6, <2>7, <2>8, <2>9 DEF ControlStep
<1>3. CASE FrameArrives
  BY <1>3 DEF FrameArrives, Source!CallBegins, Source!SamePhase
<1>4. CASE SourceStep
  <2>1. CASE CopyFrame
    <3>1. CASE GetFrame
      BY <2>1, <3>1, GetFrameCounts DEF CopyFrame
    <3> QED
      BY <2>1, <3>1 DEF CopyFrame
  <2>2. CASE AddPreviewFrame
    <3>1. pooled + queued + slot + 1 <= live
      BY <2>2, OwnedLive DEF AddPreviewFrame, Wanted, Woken, LossOK
    <3>2. ASSUME Recycle(1) PROVE pooled' \in 0 .. PoolSize /\ live' \in Nat
      BY <3>1, <3>2, RecycleCounts
    <3> QED
      BY <2>2, <3>2 DEF AddPreviewFrame, Wanted, Woken
  <2>3. CASE FrameCallbackReturns
    BY <2>3 DEF FrameCallbackReturns, Source!CallEnds, Source!SamePhase
  <2> QED
    BY <1>4, <2>1, <2>2, <2>3 DEF SourceStep
<1>5. CASE PreviewStep
  <2>1. CASE StartStreaming
    BY <2>1 DEF StartStreaming, Source!SourceStart, Source!SameCall
  <2>2. CASE CreateCapture
    <3>1. pooled + queued + slot <= live
      BY <2>2, OwnedLive DEF CreateCapture, LossOK
    <3>2. ASSUME Recycle(queued) PROVE pooled' \in 0 .. PoolSize /\ live' \in Nat
      BY <3>1, <3>2, RecycleCounts
    <3> QED
      BY <2>2, <3>2 DEF CreateCapture
  <2>3. CASE PreviewLoop
    BY <2>3 DEF PreviewLoop
  <2>4. CASE WaitPreviewFrame
    BY <2>4 DEF WaitPreviewFrame
  <2>5. CASE AddCaptureFrame
    <3>1. pooled + queued + slot <= live
      BY <2>5, OwnedLive DEF AddCaptureFrame, BroadcastCapture, WakeControl, Woken, LossOK
    <3>2. ASSUME Recycle(slot) PROVE pooled' \in 0 .. PoolSize /\ live' \in Nat
      BY <3>1, <3>2, RecycleCounts
    <3> QED
      BY <2>5, <3>2 DEF AddCaptureFrame, BroadcastCapture, WakeControl, Woken
  <2>6. CASE DecodeFails
    <3>1. pooled + queued + slot + 1 <= live
      BY <2>6, OwnedLive DEF DecodeFails, LossOK
    <3>2. ASSUME Recycle(1) PROVE pooled' \in 0 .. PoolSize /\ live' \in Nat
      BY <3>1, <3>2, RecycleCounts
    <3> QED
      BY <2>6, <3>2 DEF DecodeFails
  <2>7. CASE PreviewEnds
    BY <2>7 DEF PreviewEnds, Woken
  <2>8. CASE CloseStreaming
    BY <2>8 DEF CloseStreaming, Source!SourceStop, Source!SourceStopped, Source!SameCall
  <2> QED
    BY <1>5, <2>1, <2>2, <2>3, <2>4, <2>5, <2>6, <2>7, <2>8 DEF PreviewStep
<1>6. CASE CaptureStep
  <2>1. CASE ClearCapture
    <3>1. pooled + queued + slot <= live
      BY <2>1, OwnedLive DEF ClearCapture, LossOK
    <3>2. ASSUME Recycle(slot) PROVE pooled' \in 0 .. PoolSize /\ live' \in Nat
      BY <3>1, <3>2, RecycleCounts
    <3> QED
      BY <2>1, <3>2 DEF ClearCapture
  <2>2. CASE CaptureLoop
    BY <2>2 DEF CaptureLoop
  <2>3. CASE ChooseLoop
    BY <2>3 DEF ChooseLoop
  <2>4. CASE FrameLoop
    BY <2>4 DEF FrameLoop
  <2>5. CASE WaitCaptureFrame
    BY <2>5 DEF WaitCaptureFrame
  <2>6. CASE CopyToSurface
    BY <2>6 DEF CopyToSurface
  <2>7. CASE CaptureCallback
    <3>1. ASSUME Recycle(1) PROVE pooled' \in 0 .. PoolSize /\ live' \in Nat
      BY <2>7, <3>1, RecycleCounts, OwnedLive DEF CaptureCallback, LossOK, Holding
    <3> QED
      BY <2>7, <3>1 DEF CaptureCallback
  <2>8. CASE ReleaseWindow
    BY <2>8 DEF ReleaseWindow
  <2>9. CASE CaptureFinished
    BY <2>9 DEF CaptureFinished, WakeControl
  <2> QED
    BY <1>6, <2>1, <2>2, <2>3, <2>4, <2>5, <2>6, <2>7, <2>8, <2>9 DEF CaptureStep
<1>7. CASE UNCHANGED previewVars
  BY <1>7 DEF previewVars
<1> QED
  BY <1>1, <1>2, <1>3, <1>4, <1>5, <1>6, <1>7 DEF PreviewNext

\* The stream follows the preview thread.
LEMMA ThreadsStep ==
  PreviewInv /\ [PreviewNext]_previewVars => ThreadsOK'
<1> SUFFICES ASSUME PreviewInv, [PreviewNext]_previewVars PROVE ThreadsOK'
  OBVIOUS
<1> USE PreviewAssumption
<1> USE DEF PreviewInv, PlacesOK, FlagsOK, ThreadsOK, Stopping, ctlVars, windows, stream, pool,
     frameVars, history
<1>1. CASE ControlCall
  <2>1. CASE SetPreviewDisplay
    BY <2>1 DEF SetPreviewDisplay, Call
  <2>2. CASE StartPreview
    BY <2>2 DEF StartPreview, Call
  <2>3. ASSUME NEW c \in Callback \cup {None}, NEW stop \in BOOLEAN, SetFrameCallback(c,
  stop) PROVE ThreadsOK'
    BY <2>3 DEF SetFrameCallback, Call, Interrupt
  <2>4. ASSUME NEW w \in Window \cup {None}, SetCaptureDisplay(w) PROVE ThreadsOK'
    BY <2>4 DEF SetCaptureDisplay, Call, Interrupt
  <2> QED
    BY <1>1, <2>1, <2>2, <2>3, <2>4 DEF ControlCall
<1>2. CASE ControlStep
  <2>1. CASE WaitFinishing("holdCallback", "waitCallback")
    BY <2>1 DEF WaitFinishing, Woken
  <2>2. CASE ReplaceCallback
    BY <2>2 DEF ReplaceCallback
  <2>3. CASE WaitFinishing("holdWindow", "waitWindow")
    BY <2>3 DEF WaitFinishing, Woken
  <2>4. CASE ReplaceWindow
    BY <2>4 DEF ReplaceWindow
  <2>5. CASE StopFlag
    BY <2>5 DEF StopFlag
  <2>6. CASE SignalThreads
    BY <2>6 DEF SignalThreads, Woken
  <2>7. CASE JoinCapture
    BY <2>7 DEF JoinCapture
  <2>8. CASE JoinPreview
    BY <2>8 DEF JoinPreview, PreviewGone
  <2>9. CASE ClearAll
    BY <2>9 DEF ClearAll
  <2> QED
    BY <1>2, <2>1, <2>2, <2>3, <2>4, <2>5, <2>6, <2>7, <2>8, <2>9 DEF ControlStep
<1>3. CASE FrameArrives
  BY <1>3 DEF FrameArrives, Source!CallBegins, Source!SamePhase
<1>4. CASE SourceStep
  <2>1. CASE CopyFrame
    BY <2>1 DEF CopyFrame
  <2>2. CASE AddPreviewFrame
    BY <2>2 DEF AddPreviewFrame, Wanted, Woken
  <2>3. CASE FrameCallbackReturns
    BY <2>3 DEF FrameCallbackReturns, Source!CallEnds, Source!SamePhase
  <2> QED
    BY <1>4, <2>1, <2>2, <2>3 DEF SourceStep
<1>5. CASE PreviewStep
  <2>1. CASE StartStreaming
    BY <2>1 DEF StartStreaming, Source!SourceStart, Source!SameCall
  <2>2. CASE CreateCapture
    BY <2>2 DEF CreateCapture
  <2>3. CASE PreviewLoop
    BY <2>3 DEF PreviewLoop
  <2>4. CASE WaitPreviewFrame
    BY <2>4 DEF WaitPreviewFrame
  <2>5. CASE AddCaptureFrame
    BY <2>5 DEF AddCaptureFrame, BroadcastCapture, WakeControl, Woken
  <2>6. CASE DecodeFails
    BY <2>6 DEF DecodeFails
  <2>7. CASE PreviewEnds
    BY <2>7 DEF PreviewEnds, Woken
  <2>8. CASE CloseStreaming
    BY <2>8 DEF CloseStreaming, Source!SourceStop, Source!SourceStopped, Source!SameCall
  <2> QED
    BY <1>5, <2>1, <2>2, <2>3, <2>4, <2>5, <2>6, <2>7, <2>8 DEF PreviewStep
<1>6. CASE CaptureStep
  <2>1. CASE ClearCapture
    BY <2>1 DEF ClearCapture
  <2>2. CASE CaptureLoop
    BY <2>2 DEF CaptureLoop
  <2>3. CASE ChooseLoop
    BY <2>3 DEF ChooseLoop
  <2>4. CASE FrameLoop
    BY <2>4 DEF FrameLoop
  <2>5. CASE WaitCaptureFrame
    BY <2>5 DEF WaitCaptureFrame
  <2>6. CASE CopyToSurface
    BY <2>6 DEF CopyToSurface
  <2>7. CASE CaptureCallback
    BY <2>7 DEF CaptureCallback
  <2>8. CASE ReleaseWindow
    BY <2>8 DEF ReleaseWindow
  <2>9. CASE CaptureFinished
    BY <2>9 DEF CaptureFinished, WakeControl
  <2> QED
    BY <1>6, <2>1, <2>2, <2>3, <2>4, <2>5, <2>6, <2>7, <2>8, <2>9 DEF CaptureStep
<1>7. CASE UNCHANGED previewVars
  BY <1>7 DEF previewVars
<1> QED
  BY <1>1, <1>2, <1>3, <1>4, <1>5, <1>6, <1>7 DEF PreviewNext

\* The capture thread is joined, or never began to take frames.
LEMMA CaptureThreadStep ==
  PreviewInv /\ [PreviewNext]_previewVars => CaptureOK'
<1> SUFFICES ASSUME PreviewInv, [PreviewNext]_previewVars PROVE CaptureOK'
  OBVIOUS
<1> USE PreviewAssumption
<1> USE DEF PreviewInv, PlacesOK, FlagsOK, ThreadsOK, CaptureOK, EmptyOK, Stopping, ctlVars,
     windows, stream, pool, frameVars, history
<1>1. CASE ControlCall
  <2>1. CASE SetPreviewDisplay
    BY <2>1 DEF SetPreviewDisplay, Call
  <2>2. CASE StartPreview
    BY <2>2 DEF StartPreview, Call
  <2>3. ASSUME NEW c \in Callback \cup {None}, NEW stop \in BOOLEAN, SetFrameCallback(c,
  stop) PROVE CaptureOK'
    BY <2>3 DEF SetFrameCallback, Call, Interrupt
  <2>4. ASSUME NEW w \in Window \cup {None}, SetCaptureDisplay(w) PROVE CaptureOK'
    BY <2>4 DEF SetCaptureDisplay, Call, Interrupt
  <2> QED
    BY <1>1, <2>1, <2>2, <2>3, <2>4 DEF ControlCall
<1>2. CASE ControlStep
  <2>1. CASE WaitFinishing("holdCallback", "waitCallback")
    BY <2>1 DEF WaitFinishing, Woken
  <2>2. CASE ReplaceCallback
    BY <2>2 DEF ReplaceCallback
  <2>3. CASE WaitFinishing("holdWindow", "waitWindow")
    BY <2>3 DEF WaitFinishing, Woken
  <2>4. CASE ReplaceWindow
    BY <2>4 DEF ReplaceWindow
  <2>5. CASE StopFlag
    BY <2>5 DEF StopFlag
  <2>6. CASE SignalThreads
    BY <2>6 DEF SignalThreads, Woken
  <2>7. CASE JoinCapture
    BY <2>7 DEF JoinCapture
  <2>8. CASE JoinPreview
    BY <2>8 DEF JoinPreview, PreviewGone
  <2>9. CASE ClearAll
    BY <2>9 DEF ClearAll
  <2> QED
    BY <1>2, <2>1, <2>2, <2>3, <2>4, <2>5, <2>6, <2>7, <2>8, <2>9 DEF ControlStep
<1>3. CASE FrameArrives
  BY <1>3 DEF FrameArrives, Source!CallBegins, Source!SamePhase
<1>4. CASE SourceStep
  <2>1. CASE CopyFrame
    BY <2>1 DEF CopyFrame
  <2>2. CASE AddPreviewFrame
    BY <2>2 DEF AddPreviewFrame, Wanted, Woken
  <2>3. CASE FrameCallbackReturns
    BY <2>3 DEF FrameCallbackReturns, Source!CallEnds, Source!SamePhase
  <2> QED
    BY <1>4, <2>1, <2>2, <2>3 DEF SourceStep
<1>5. CASE PreviewStep
  <2>1. CASE StartStreaming
    BY <2>1 DEF StartStreaming, Source!SourceStart, Source!SameCall
  <2>2. CASE CreateCapture
    BY <2>2 DEF CreateCapture
  <2>3. CASE PreviewLoop
    BY <2>3 DEF PreviewLoop
  <2>4. CASE WaitPreviewFrame
    BY <2>4 DEF WaitPreviewFrame
  <2>5. CASE AddCaptureFrame
    BY <2>5 DEF AddCaptureFrame, BroadcastCapture, WakeControl, Woken
  <2>6. CASE DecodeFails
    BY <2>6 DEF DecodeFails
  <2>7. CASE PreviewEnds
    BY <2>7 DEF PreviewEnds, Woken
  <2>8. CASE CloseStreaming
    BY <2>8 DEF CloseStreaming, Source!SourceStop, Source!SourceStopped, Source!SameCall
  <2> QED
    BY <1>5, <2>1, <2>2, <2>3, <2>4, <2>5, <2>6, <2>7, <2>8 DEF PreviewStep
<1>6. CASE CaptureStep
  <2>1. CASE ClearCapture
    BY <2>1 DEF ClearCapture
  <2>2. CASE CaptureLoop
    BY <2>2 DEF CaptureLoop
  <2>3. CASE ChooseLoop
    BY <2>3 DEF ChooseLoop
  <2>4. CASE FrameLoop
    BY <2>4 DEF FrameLoop
  <2>5. CASE WaitCaptureFrame
    BY <2>5 DEF WaitCaptureFrame
  <2>6. CASE CopyToSurface
    BY <2>6 DEF CopyToSurface
  <2>7. CASE CaptureCallback
    BY <2>7 DEF CaptureCallback
  <2>8. CASE ReleaseWindow
    BY <2>8 DEF ReleaseWindow
  <2>9. CASE CaptureFinished
    BY <2>9 DEF CaptureFinished, WakeControl
  <2> QED
    BY <1>6, <2>1, <2>2, <2>3, <2>4, <2>5, <2>6, <2>7, <2>8, <2>9 DEF CaptureStep
<1>7. CASE UNCHANGED previewVars
  BY <1>7 DEF previewVars
<1> QED
  BY <1>1, <1>2, <1>3, <1>4, <1>5, <1>6, <1>7 DEF PreviewNext

\* Frames come only while a preview is under way.
LEMMA EmptyStep ==
  PreviewInv /\ [PreviewNext]_previewVars => EmptyOK'
<1> SUFFICES ASSUME PreviewInv, [PreviewNext]_previewVars PROVE EmptyOK'
  OBVIOUS
<1> USE PreviewAssumption
<1> USE DEF PreviewInv, PlacesOK, FlagsOK, CountsOK, ThreadsOK, CaptureOK, EmptyOK, Stopping,
     Holding, ctlVars, windows, stream, pool, frameVars, history
<1>1. CASE ControlCall
  <2>1. CASE SetPreviewDisplay
    BY <2>1 DEF SetPreviewDisplay, Call
  <2>2. CASE StartPreview
    BY <2>2 DEF StartPreview, Call
  <2>3. ASSUME NEW c \in Callback \cup {None}, NEW stop \in BOOLEAN, SetFrameCallback(c,
  stop) PROVE EmptyOK'
    BY <2>3 DEF SetFrameCallback, Call, Interrupt
  <2>4. ASSUME NEW w \in Window \cup {None}, SetCaptureDisplay(w) PROVE EmptyOK'
    BY <2>4 DEF SetCaptureDisplay, Call, Interrupt
  <2> QED
    BY <1>1, <2>1, <2>2, <2>3, <2>4 DEF ControlCall
<1>2. CASE ControlStep
  <2>1. CASE WaitFinishing("holdCallback", "waitCallback")
    BY <2>1 DEF WaitFinishing, Woken
  <2>2. CASE ReplaceCallback
    BY <2>2 DEF ReplaceCallback
  <2>3. CASE WaitFinishing("holdWindow", "waitWindow")
    BY <2>3 DEF WaitFinishing, Woken
  <2>4. CASE ReplaceWindow
    BY <2>4 DEF ReplaceWindow
  <2>5. CASE StopFlag
    BY <2>5 DEF StopFlag
  <2>6. CASE SignalThreads
    BY <2>6 DEF SignalThreads, Woken
  <2>7. CASE JoinCapture
    BY <2>7 DEF JoinCapture
  <2>8. CASE JoinPreview
    BY <2>8 DEF JoinPreview, PreviewGone
  <2>9. CASE ClearAll
    BY <2>9 DEF ClearAll
  <2> QED
    BY <1>2, <2>1, <2>2, <2>3, <2>4, <2>5, <2>6, <2>7, <2>8, <2>9 DEF ControlStep
<1>3. CASE FrameArrives
  BY <1>3 DEF FrameArrives, Source!CallBegins, Source!SamePhase
<1>4. CASE SourceStep
  <2>1. CASE CopyFrame
    BY <2>1 DEF CopyFrame
  <2>2. CASE AddPreviewFrame
    BY <2>2 DEF AddPreviewFrame, Wanted, Woken
  <2>3. CASE FrameCallbackReturns
    BY <2>3 DEF FrameCallbackReturns, Source!CallEnds, Source!SamePhase
  <2> QED
    BY <1>4, <2>1, <2>2, <2>3 DEF SourceStep
<1>5. CASE PreviewStep
  <2>1. CASE StartStreaming
    BY <2>1 DEF StartStreaming, Source!SourceStart, Source!SameCall
  <2>2. CASE CreateCapture
    BY <2>2 DEF CreateCapture
  <2>3. CASE PreviewLoop
    BY <2>3 DEF PreviewLoop
  <2>4. CASE WaitPreviewFrame
    BY <2>4 DEF WaitPreviewFrame
  <2>5. CASE AddCaptureFrame
    BY <2>5 DEF AddCaptureFrame, BroadcastCapture, WakeControl, Woken
  <2>6. CASE DecodeFails
    BY <2>6 DEF DecodeFails
  <2>7. CASE PreviewEnds
    BY <2>7 DEF PreviewEnds, Woken
  <2>8. CASE CloseStreaming
    BY <2>8 DEF CloseStreaming, Source!SourceStop, Source!SourceStopped, Source!SameCall
  <2> QED
    BY <1>5, <2>1, <2>2, <2>3, <2>4, <2>5, <2>6, <2>7, <2>8 DEF PreviewStep
<1>6. CASE CaptureStep
  <2>1. CASE ClearCapture
    BY <2>1 DEF ClearCapture
  <2>2. CASE CaptureLoop
    BY <2>2 DEF CaptureLoop
  <2>3. CASE ChooseLoop
    BY <2>3 DEF ChooseLoop
  <2>4. CASE FrameLoop
    BY <2>4 DEF FrameLoop
  <2>5. CASE WaitCaptureFrame
    BY <2>5 DEF WaitCaptureFrame
  <2>6. CASE CopyToSurface
    BY <2>6 DEF CopyToSurface
  <2>7. CASE CaptureCallback
    BY <2>7 DEF CaptureCallback
  <2>8. CASE ReleaseWindow
    BY <2>8 DEF ReleaseWindow
  <2>9. CASE CaptureFinished
    BY <2>9 DEF CaptureFinished, WakeControl
  <2> QED
    BY <1>6, <2>1, <2>2, <2>3, <2>4, <2>5, <2>6, <2>7, <2>8, <2>9 DEF CaptureStep
<1>7. CASE UNCHANGED previewVars
  BY <1>7 DEF previewVars
<1> QED
  BY <1>1, <1>2, <1>3, <1>4, <1>5, <1>6, <1>7 DEF PreviewNext

\* Every call counts for at most one stop.
LEMMA CallsStep ==
  PreviewInv /\ [PreviewNext]_previewVars => CallsOK'
<1> SUFFICES ASSUME PreviewInv, [PreviewNext]_previewVars PROVE CallsOK'
  OBVIOUS
<1> USE PreviewAssumption
<1> USE DEF PreviewInv, PlacesOK, FlagsOK, CountsOK, ThreadsOK, CallsOK, Stopping, ctlVars,
     windows, stream, pool, frameVars, history
<1>1. CASE ControlCall
  <2>1. CASE SetPreviewDisplay
    BY <2>1 DEF SetPreviewDisplay, Call
  <2>2. CASE StartPreview
    BY <2>2 DEF StartPreview, Call
  <2>3. ASSUME NEW c \in Callback \cup {None}, NEW stop \in BOOLEAN, SetFrameCallback(c,
  stop) PROVE CallsOK'
    BY <2>3 DEF SetFrameCallback, Call, Interrupt
  <2>4. ASSUME NEW w \in Window \cup {None}, SetCaptureDisplay(w) PROVE CallsOK'
    BY <2>4 DEF SetCaptureDisplay, Call, Interrupt
  <2> QED
    BY <1>1, <2>1, <2>2, <2>3, <2>4 DEF ControlCall
<1>2. CASE ControlStep
  <2>1. CASE WaitFinishing("holdCallback", "waitCallback")
    BY <2>1 DEF WaitFinishing, Woken
  <2>2. CASE ReplaceCallback
    BY <2>2 DEF ReplaceCallback
  <2>3. CASE WaitFinishing("holdWindow", "waitWindow")
    BY <2>3 DEF WaitFinishing, Woken
  <2>4. CASE ReplaceWindow
    BY <2>4 DEF ReplaceWindow
  <2>5. CASE StopFlag
    BY <2>5 DEF StopFlag
  <2>6. CASE SignalThreads
    BY <2>6 DEF SignalThreads, Woken
  <2>7. CASE JoinCapture
    BY <2>7 DEF JoinCapture
  <2>8. CASE JoinPreview
    BY <2>8 DEF JoinPreview, PreviewGone
  <2>9. CASE ClearAll
    BY <2>9 DEF ClearAll
  <2> QED
    BY <1>2, <2>1, <2>2, <2>3, <2>4, <2>5, <2>6, <2>7, <2>8, <2>9 DEF ControlStep
<1>3. CASE FrameArrives
  BY <1>3 DEF FrameArrives, Source!CallBegins, Source!SamePhase
<1>4. CASE SourceStep
  <2>1. CASE CopyFrame
    BY <2>1 DEF CopyFrame
  <2>2. CASE AddPreviewFrame
    BY <2>2 DEF AddPreviewFrame, Wanted, Woken
  <2>3. CASE FrameCallbackReturns
    BY <2>3 DEF FrameCallbackReturns, Source!CallEnds, Source!SamePhase
  <2> QED
    BY <1>4, <2>1, <2>2, <2>3 DEF SourceStep
<1>5. CASE PreviewStep
  <2>1. CASE StartStreaming
    BY <2>1 DEF StartStreaming, Source!SourceStart, Source!SameCall
  <2>2. CASE CreateCapture
    BY <2>2 DEF CreateCapture
  <2>3. CASE PreviewLoop
    BY <2>3 DEF PreviewLoop
  <2>4. CASE WaitPreviewFrame
    BY <2>4 DEF WaitPreviewFrame
  <2>5. CASE AddCaptureFrame
    BY <2>5 DEF AddCaptureFrame, BroadcastCapture, WakeControl, Woken
  <2>6. CASE DecodeFails
    BY <2>6 DEF DecodeFails
  <2>7. CASE PreviewEnds
    BY <2>7 DEF PreviewEnds, Woken
  <2>8. CASE CloseStreaming
    BY <2>8 DEF CloseStreaming, Source!SourceStop, Source!SourceStopped, Source!SameCall
  <2> QED
    BY <1>5, <2>1, <2>2, <2>3, <2>4, <2>5, <2>6, <2>7, <2>8 DEF PreviewStep
<1>6. CASE CaptureStep
  <2>1. CASE ClearCapture
    BY <2>1 DEF ClearCapture
  <2>2. CASE CaptureLoop
    BY <2>2 DEF CaptureLoop
  <2>3. CASE ChooseLoop
    BY <2>3 DEF ChooseLoop
  <2>4. CASE FrameLoop
    BY <2>4 DEF FrameLoop
  <2>5. CASE WaitCaptureFrame
    BY <2>5 DEF WaitCaptureFrame
  <2>6. CASE CopyToSurface
    BY <2>6 DEF CopyToSurface
  <2>7. CASE CaptureCallback
    BY <2>7 DEF CaptureCallback
  <2>8. CASE ReleaseWindow
    BY <2>8 DEF ReleaseWindow
  <2>9. CASE CaptureFinished
    BY <2>9 DEF CaptureFinished, WakeControl
  <2> QED
    BY <1>6, <2>1, <2>2, <2>3, <2>4, <2>5, <2>6, <2>7, <2>8, <2>9 DEF CaptureStep
<1>7. CASE UNCHANGED previewVars
  BY <1>7 DEF previewVars
<1> QED
  BY <1>1, <1>2, <1>3, <1>4, <1>5, <1>6, <1>7 DEF PreviewNext

\* A step passes a frame on, or loses the one the stop made superfluous.
LEMMA LossStep ==
  PreviewInv /\ [PreviewNext]_previewVars => LossOK'
<1> SUFFICES ASSUME PreviewInv, [PreviewNext]_previewVars PROVE LossOK'
  OBVIOUS
<1> USE PreviewAssumption
<1> USE DEF PreviewInv, PlacesOK, FlagsOK, CountsOK, ThreadsOK, CaptureOK, EmptyOK, LossOK,
     FramesKept, Owned, Held, Holding, Stopping, ctlVars, windows, stream, pool, frameVars,
     history
<1> DEFINE S == Held(source, {"copied"})
           P == Held(preview, {"draw"})
           C == Held(capture, {"surface", "copying", "check", "use", "calling"})
<1>a. Owned = pooled + queued + slot + S + P + C
  BY DEF Owned
<1>b. Owned' = pooled' + queued' + slot' + S' + P' + C'
  BY DEF Owned
<1>c. {S, P, C, live, live', pooled, pooled', queued, slot} \subseteq Int
  BY HeldType, CountsStep
<1>1. CASE ControlCall
  <2>1. CASE SetPreviewDisplay
    BY <2>1 DEF SetPreviewDisplay, Call
  <2>2. CASE StartPreview
    BY <2>2 DEF StartPreview, Call
  <2>3. ASSUME NEW c \in Callback \cup {None}, NEW stop \in BOOLEAN, SetFrameCallback(c,
  stop) PROVE LossOK'
    BY <2>3 DEF SetFrameCallback, Call, Interrupt
  <2>4. ASSUME NEW w \in Window \cup {None}, SetCaptureDisplay(w) PROVE LossOK'
    BY <2>4 DEF SetCaptureDisplay, Call, Interrupt
  <2> QED
    BY <1>1, <2>1, <2>2, <2>3, <2>4 DEF ControlCall
<1>2. CASE ControlStep
  <2>1. CASE WaitFinishing("holdCallback", "waitCallback")
    BY <2>1 DEF WaitFinishing, Woken
  <2>2. CASE ReplaceCallback
    BY <2>2 DEF ReplaceCallback
  <2>3. CASE WaitFinishing("holdWindow", "waitWindow")
    BY <2>3 DEF WaitFinishing, Woken
  <2>4. CASE ReplaceWindow
    BY <2>4 DEF ReplaceWindow
  <2>5. CASE StopFlag
    BY <2>5 DEF StopFlag
  <2>6. CASE SignalThreads
    BY <2>6 DEF SignalThreads, Woken
  <2>7. CASE JoinCapture
    BY <2>7 DEF JoinCapture
  <2>8. CASE JoinPreview
    BY <2>8 DEF JoinPreview, PreviewGone
  <2>9. CASE ClearAll
    <3>1. pooled + queued + slot <= live
      BY <2>9, OwnedLive DEF ClearAll, LossOK
    <3>2. live' - pooled' = live - pooled - (queued + slot)
      BY <2>9, <3>1, RecycleCounts DEF ClearAll
    <3>3. queued' = 0 /\ slot' = 0 /\ S' = S /\ P' = P /\ C' = C
      BY <2>9 DEF ClearAll
    <3>4. live' - Owned' = live - Owned
      <4> HIDE DEF S, P, C, Owned, PreviewInv
      <4> QED
        BY <3>2, <3>3, <1>a, <1>b, <1>c
    <3> HIDE DEF S, P, C, Owned, Held
    <3> QED
      BY <2>9, <3>4 DEF ClearAll
  <2> QED
    BY <1>2, <2>1, <2>2, <2>3, <2>4, <2>5, <2>6, <2>7, <2>8, <2>9 DEF ControlStep
<1>3. CASE FrameArrives
  BY <1>3 DEF FrameArrives, Source!CallBegins, Source!SamePhase
<1>4. CASE SourceStep
  <2>1. CASE CopyFrame
    <3>1. CASE UNCHANGED pool /\ source' = "return"
      BY <2>1, <3>1 DEF CopyFrame
    <3>2. CASE GetFrame /\ source' = "copied"
      <4>2. live' - pooled' = live - pooled + 1
        BY <2>1, <3>2, GetFrameCounts
      <4>3. queued' = queued /\ slot' = slot /\ S = 0 /\ S' = 1 /\ P' = P /\ C' = C
        BY <2>1, <3>2 DEF CopyFrame
      <4>4. live' - Owned' = live - Owned
        <5> HIDE DEF S, P, C, Owned, PreviewInv
        <5> QED
          BY <4>2, <4>3, <1>a, <1>b, <1>c
      <4> HIDE DEF S, P, C, Owned, Held
      <4> QED
        BY <2>1, <3>2, <4>4 DEF CopyFrame
    <3> QED
      BY <2>1, <3>1, <3>2 DEF CopyFrame
  <2>2. CASE AddPreviewFrame
    <3>1. CASE Wanted
      <4>2. live' - pooled' = live - pooled
        BY <2>2, <3>1 DEF AddPreviewFrame, Wanted, Woken
      <4>3. queued' = queued + 1 /\ slot' = slot /\ S = 1 /\ S' = 0 /\ P' = P /\ C' = C
        BY <2>2, <3>1 DEF AddPreviewFrame, Wanted, Woken
      <4>4. live' - Owned' = live - Owned
        <5> HIDE DEF S, P, C, Owned, PreviewInv
        <5> QED
          BY <4>2, <4>3, <1>a, <1>b, <1>c
      <4> HIDE DEF S, P, C, Owned, Held
      <4> QED
        BY <2>2, <3>1, <4>4 DEF AddPreviewFrame, Wanted, Woken
    <3>2. CASE ~Wanted
      <4>1. pooled + queued + slot + 1 <= live
        BY <2>2, <3>2, OwnedLive DEF AddPreviewFrame, Wanted, Woken, LossOK
      <4>2. live' - pooled' = live - pooled - 1
        BY <2>2, <3>2, <4>1, RecycleCounts DEF AddPreviewFrame, Wanted, Woken
      <4>3. queued' = queued /\ slot' = slot /\ S = 1 /\ S' = 0 /\ P' = P /\ C' = C
        BY <2>2, <3>2 DEF AddPreviewFrame, Wanted, Woken
      <4>4. live' - Owned' = live - Owned
        <5> HIDE DEF S, P, C, Owned, PreviewInv
        <5> QED
          BY <4>2, <4>3, <1>a, <1>b, <1>c
      <4> HIDE DEF S, P, C, Owned, Held
      <4> QED
        BY <2>2, <3>2, <4>4 DEF AddPreviewFrame, Wanted, Woken
    <3> QED
      BY <3>1, <3>2
  <2>3. CASE FrameCallbackReturns
    BY <2>3 DEF FrameCallbackReturns, Source!CallEnds, Source!SamePhase
  <2> QED
    BY <1>4, <2>1, <2>2, <2>3 DEF SourceStep
<1>5. CASE PreviewStep
  <2>1. CASE StartStreaming
    BY <2>1 DEF StartStreaming, Source!SourceStart, Source!SameCall
  <2>2. CASE CreateCapture
    <3>1. pooled + queued + slot <= live
      BY <2>2, OwnedLive DEF CreateCapture, LossOK
    <3>2. live' - pooled' = live - pooled - queued
      BY <2>2, <3>1, RecycleCounts DEF CreateCapture
    <3>3. queued' = 0 /\ slot' = slot /\ S' = S /\ P' = P /\ C' = C
      BY <2>2 DEF CreateCapture
    <3>4. live' - Owned' = live - Owned
      <4> HIDE DEF S, P, C, Owned, PreviewInv
      <4> QED
        BY <3>2, <3>3, <1>a, <1>b, <1>c
    <3> HIDE DEF S, P, C, Owned, Held
    <3> QED
      BY <2>2, <3>4 DEF CreateCapture
  <2>3. CASE PreviewLoop
    BY <2>3 DEF PreviewLoop
  <2>4. CASE WaitPreviewFrame
    BY <2>4 DEF WaitPreviewFrame
  <2>5. CASE AddCaptureFrame
    <3>1. CASE running
      <4>1. pooled + queued + slot <= live
        BY <2>5, <3>1, OwnedLive DEF AddCaptureFrame, BroadcastCapture, WakeControl, Woken, LossOK
      <4>2. live' - pooled' = live - pooled - slot
        BY <2>5, <3>1, <4>1, RecycleCounts DEF AddCaptureFrame, BroadcastCapture, WakeControl,
             Woken
      <4>3. queued' = queued /\ slot' = 1 /\ S' = S /\ P = 1 /\ P' = 0 /\ C' = C
        BY <2>5, <3>1 DEF AddCaptureFrame, BroadcastCapture, WakeControl, Woken
      <4>4. live' - Owned' = live - Owned
        <5> HIDE DEF S, P, C, Owned, PreviewInv
        <5> QED
          BY <4>2, <4>3, <1>a, <1>b, <1>c
      <4> HIDE DEF S, P, C, Owned, Held
      <4> QED
        BY <2>5, <3>1, <4>4 DEF AddCaptureFrame, BroadcastCapture, WakeControl, Woken
    <3>2. CASE ~running
      <4>1. live' = live /\ pooled' = pooled /\ queued' = queued /\ slot' = slot
        BY <2>5, <3>2 DEF AddCaptureFrame, BroadcastCapture, WakeControl, Woken
      <4>2. S' = S /\ P = 1 /\ P' = 0 /\ C' = C
        BY <2>5, <3>2 DEF AddCaptureFrame, BroadcastCapture, WakeControl, Woken
      <4>3. live' - Owned' = live - Owned + 1
        <5> HIDE DEF S, P, C, Owned, PreviewInv
        <5> QED
          BY <4>1, <4>2, <1>a, <1>b, <1>c
      <4> HIDE DEF S, P, C, Owned, Held
      <4> QED
        BY <2>5, <3>2, <4>3 DEF AddCaptureFrame, BroadcastCapture, WakeControl, Woken
    <3> QED
      BY <3>1, <3>2 DEF FlagsOK
  <2>6. CASE DecodeFails
    <3>1. pooled + queued + slot + 1 <= live
      BY <2>6, OwnedLive DEF DecodeFails, LossOK
    <3>2. live' - pooled' = live - pooled - 1
      BY <2>6, <3>1, RecycleCounts DEF DecodeFails
    <3>3. queued' = queued /\ slot' = slot /\ S' = S /\ P = 1 /\ P' = 0 /\ C' = C
      BY <2>6 DEF DecodeFails
    <3>4. live' - Owned' = live - Owned
      <4> HIDE DEF S, P, C, Owned, PreviewInv
      <4> QED
        BY <3>2, <3>3, <1>a, <1>b, <1>c
    <3> HIDE DEF S, P, C, Owned, Held
    <3> QED
      BY <2>6, <3>4 DEF DecodeFails
  <2>7. CASE PreviewEnds
    BY <2>7 DEF PreviewEnds, Woken
  <2>8. CASE CloseStreaming
    BY <2>8 DEF CloseStreaming, Source!SourceStop, Source!SourceStopped, Source!SameCall
  <2> QED
    BY <1>5, <2>1, <2>2, <2>3, <2>4, <2>5, <2>6, <2>7, <2>8 DEF PreviewStep
<1>6. CASE CaptureStep
  <2>1. CASE ClearCapture
    <3>1. pooled + queued + slot <= live
      BY <2>1, OwnedLive DEF ClearCapture, LossOK
    <3>2. live' - pooled' = live - pooled - slot
      BY <2>1, <3>1, RecycleCounts DEF ClearCapture
    <3>3. queued' = queued /\ slot' = 0 /\ S' = S /\ P' = P /\ C' = C
      BY <2>1 DEF ClearCapture
    <3>4. live' - Owned' = live - Owned
      <4> HIDE DEF S, P, C, Owned, PreviewInv
      <4> QED
        BY <3>2, <3>3, <1>a, <1>b, <1>c
    <3> HIDE DEF S, P, C, Owned, Held
    <3> QED
      BY <2>1, <3>4 DEF ClearCapture
  <2>2. CASE CaptureLoop
    BY <2>2 DEF CaptureLoop
  <2>3. CASE ChooseLoop
    BY <2>3 DEF ChooseLoop
  <2>4. CASE FrameLoop
    BY <2>4 DEF FrameLoop
  <2>5. CASE WaitCaptureFrame
    BY <2>5 DEF WaitCaptureFrame
  <2>6. CASE CopyToSurface
    BY <2>6 DEF CopyToSurface
  <2>7. CASE CaptureCallback
    <3>1. CASE Recycle(1) /\ capture' = "loop"
      <4>1. pooled + queued + slot + 1 <= live
        BY <2>7, <3>1, OwnedLive DEF CaptureCallback, LossOK
      <4>2. live' - pooled' = live - pooled - 1
        BY <2>7, <3>1, <4>1, RecycleCounts DEF CaptureCallback
      <4>3. queued' = queued /\ slot' = slot /\ S' = S /\ P' = P /\ C = 1 /\ C' = 0
        BY <2>7, <3>1 DEF CaptureCallback
      <4>4. live' - Owned' = live - Owned
        <5> HIDE DEF S, P, C, Owned, PreviewInv
        <5> QED
          BY <4>2, <4>3, <1>a, <1>b, <1>c
      <4> HIDE DEF S, P, C, Owned, Held
      <4> QED
        BY <2>7, <3>1, <4>4 DEF CaptureCallback
    <3>2. CASE UNCHANGED pool /\ capture' \in {"use", "calling"}
      BY <2>7, <3>2 DEF CaptureCallback
    <3> QED
      BY <2>7, <3>1, <3>2 DEF CaptureCallback
  <2>8. CASE ReleaseWindow
    BY <2>8 DEF ReleaseWindow
  <2>9. CASE CaptureFinished
    BY <2>9 DEF CaptureFinished, WakeControl
  <2> QED
    BY <1>6, <2>1, <2>2, <2>3, <2>4, <2>5, <2>6, <2>7, <2>8, <2>9 DEF CaptureStep
<1>7. CASE UNCHANGED previewVars
  BY <1>7 DEF previewVars
<1> QED
  BY <1>1, <1>2, <1>3, <1>4, <1>5, <1>6, <1>7 DEF PreviewNext

\* Together: the invariant is inductive.
LEMMA PreviewInvStep ==
  PreviewInv /\ [PreviewNext]_previewVars => PreviewInv'
BY PlacesStep, FlagsStep, CountsStep, ThreadsStep, CaptureThreadStep, EmptyStep, CallsStep,
   LossStep
   DEF PreviewInv

\* The invariant holds of every behaviour.
LEMMA PreviewInvAlways == PreviewSpec => []PreviewInv
<1> QED
  BY PreviewInitInv, PreviewInvStep, PTL DEF PreviewSpec

\* Every thread is at one of its steps and every count in its range, whatever the order in which
\* the four threads run.
THEOREM PreviewTypes == PreviewSpec => []PreviewTypeOK
<1>1. PreviewInv => PreviewTypeOK
  <2> SUFFICES ASSUME PreviewInv PROVE PreviewTypeOK
    OBVIOUS
  <2>1. Source!SourceTypeOK
    BY DEF PreviewInv, PlacesOK, Source!SourceTypeOK
  <2> QED
    BY <2>1 DEF PreviewInv, PlacesOK, FlagsOK, CountsOK, PreviewTypeOK, Stopping, Holding
<1> QED
  BY <1>1, PreviewInvAlways, PTL

\* A returned stopPreview() leaves nothing running and nothing queued, except a capture thread that
\* was created after it had been joined (UVCPreview.cpp:354-384).
THEOREM StopsQuietly == PreviewSpec => []StoppedQuiet
<1>1. PreviewInv => StoppedQuiet
  BY DEF PreviewInv, PlacesOK, FlagsOK, CountsOK, ThreadsOK, CaptureOK, EmptyOK, StoppedQuiet,
     Stopping
<1> QED
  BY <1>1, PreviewInvAlways, PTL

\* No frame is lost or counted twice on its way from libuvc to the callback and back, but for the
\* one each stop may lose in addCaptureFrame() (UVCPreview.cpp:846-876).
THEOREM FramesAccounted == PreviewSpec => []FramesKept
<1>1. PreviewInv => FramesKept
  BY DEF PreviewInv, LossOK
<1> QED
  BY <1>1, PreviewInvAlways, PTL

====
