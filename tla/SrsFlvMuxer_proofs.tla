------------------------- MODULE SrsFlvMuxer_proofs -------------------------
(***************************************************************************)
(* Theorems about SrsFlvMuxer: type correctness, and that nothing of one   *)
(* run of the publisher reaches the next, for every number of sessions,    *)
(* disconnect threads and frames and every GOP.                            *)
(***************************************************************************)
EXTENDS SrsFlvMuxer, RtmpConnectionCrash_proofs, FiniteSetTheorems

\* The steps of stopPublish(), and the places of the UI thread at which the cache is empty.
StopStage == {"stopEncode", "stopFlag", "clearCache", "interrupt", "join", "resetFlv", "disconnect"}
Emptied   == {"interrupt", "join", "resetFlv", "disconnect", "stopped", "starting"}

EncodersOff == vEnc = "off" /\ aEnc = "off"

\* The encoders run only between start() and the join in stopPublish(), while started is set.
EncodersOK ==
  /\ ui \notin {"live", "stopEncode"} => EncodersOff
  /\ ~EncodersOff \/ ui = "starting" => started

\* Every frame in the cache or in the worker's hand is of this run; clearCache() comes after the
\* encoders have ended.
CacheOK ==
  /\ ui \in Emptied => mFlvTagCache = << >>
  /\ \A i \in 1 .. Len(mFlvTagCache) : mFlvTagCache[i].run = run
  /\ work \in {"dispatch", "sending"} => hand.run = run

\* stop() has joined the worker before it goes on, and the worker calls one method at a time.
WorkerOK ==
  /\ ui \in {"resetFlv", "disconnect", "stopped"} => work = "none"
  /\ work \notin {"connecting", "publishing", "sending"} => Idle(Worker)

\* There is no worker before start() and once stop() has joined it; then there is no encoder and no
\* frame either.
NoRun ==
  work = "none" =>
    /\ EncodersOff /\ mFlvTagCache = << >>
    /\ ui \notin {"starting", "live", "interrupt", "join"}

\* The steps of close(), those up to reset(), and those up to the end of it.
Closing   == {"closeStream", "shutdown", "interruptRx", "joinRx", "closeSocket", "reset",
              "resetSocket", "return"}
Unreset   == Closing \ {"resetSocket", "return"}
Unclosed  == Closing \ {"return"}

\* Its close() is still to clear the flags, or the references.
ToReset(d)   == disc[d] = "close" \/ (disc[d] = "closing" /\ call[d] \in Unreset)
ToRelease(d) == disc[d] = "close" \/ (disc[d] = "closing" /\ call[d] \in Unclosed)

\* A run that began beside no disconnect thread meets none: stop() starts one after it has joined the
\* worker.
DisconnectOK ==
  /\ late = "no" /\ work # "none" => ~Disconnecting
  /\ ui \in StopStage => \E d \in Disconnector : disc[d] = "none"
  /\ \A d \in Disconnector :
       /\ call[d] \in Closing \cup {"idle"}
       /\ disc[d] # "closing" => Idle(d)

\* What a stopped run has left behind is still to be cleared by a disconnect thread.
LeftOver ==
  ui = "stopped" =>
    /\ videoFrameCacheNumber # 0 => \E d \in Disconnector : ToReset(d)
    /\ socket # None => \E d \in Disconnector : ToRelease(d)
    /\ mVideoSequenceHeader \/ mAudioSequenceHeader => Disconnecting

\* What SrsFlv remembers is forgotten before the next run, and set before a frame that needs it.
FlvOK ==
  /\ ui \in {"disconnect", "stopped", "starting"} => ~spsPpsSent /\ ~specificConfigGot
  /\ vEnc \in VideoKind => spsPpsSent
  /\ aEnc \in AudioKind => specificConfigGot

Header == {"videoHeader", "audioHeader"}

\* A frame of kind k is of use only after the sequence header h.
Needs(k, h) == k \notin Header /\ h = (IF k \in VideoKind THEN "videoHeader" ELSE "audioHeader")

\* The worker has kept the sequence header h, or is about to.
Had(h) ==
  \/ Streaming /\ (IF h = "videoHeader" THEN mVideoSequenceHeader ELSE mAudioSequenceHeader)
  \/ work = "dispatch" /\ hand.kind = h

\* It is one of the first n frames of q.
Among(h, q, n) == \E j \in 1 .. n : q[j].kind = h

\* Behind every frame there is its header, as long as the worker may still take it: in front of the
\* frames of the cache, and of the frame an encoder adds next.
OrderOK ==
  work # "ended" /\ late # "cleared" =>
    /\ \A i \in 1 .. Len(mFlvTagCache), h \in Header :
         Needs(mFlvTagCache[i].kind, h) => Had(h) \/ Among(h, mFlvTagCache, i - 1)
    /\ vEnc \notin {"off", "videoHeader"} /\ spsPpsSent
         => Had("videoHeader") \/ Among("videoHeader", mFlvTagCache, Len(mFlvTagCache))
    /\ aEnc \notin {"off", "audioHeader"} /\ specificConfigGot
         => Had("audioHeader") \/ Among("audioHeader", mFlvTagCache, Len(mFlvTagCache))

-----------------------------------------------------------------------------
(* What the steps of the program do to the connection.                      *)

LEMMA Threads == Worker \in Caller /\ Disconnector \subseteq Caller /\ Worker \notin Disconnector
BY MuxerAssumption

\* Only the interrupt flag of the worker changes.
Flagged ==
  /\ \E b \in BOOLEAN : SetInterrupted(Worker, b)
  /\ UNCHANGED <<call, op, ret, joining, flags, fields, invoked, net, rxs, crashed>>

\* Only videoFrameCacheNumber changes.
Counted ==
  /\ videoFrameCacheNumber' = videoFrameCacheNumber + 1
  /\ UNCHANGED <<connected, publishPermitted, currentStreamId, fields, invoked, net, threads, rxs,
                 crashed>>

Begun(t) ==
  \/ BeginConnect(t) \/ BeginPublish(t) \/ BeginClose(t)
  \/ \E pc \in {"sendAudio", "sendVideo"} : BeginMedia(t, pc)

\* A step that is not one of the connection itself, with the calls told apart by their thread.
LEMMA OwnStepOf ==
  ASSUME Next, ~ConnectionStep
  PROVE  \/ UNCHANGED connVars \/ Flagged \/ Counted
         \/ WorkerConnect \/ WorkerPublish
         \/ \E t \in Caller : \/ BeginClose(t)
                             \/ \E pc \in {"sendAudio", "sendVideo"} : BeginMedia(t, pc)
<1>1. CASE Start \/ InterruptWorker \/ WorkerLoop
  BY <1>1 DEF Flagged, Start, InterruptWorker, WorkerLoop, SetInterrupted
<1>2. CASE CountVideo BY <1>2 DEF CountVideo, Counted
<1>3. CASE WorkerSend
  BY <1>3, Threads DEF WorkerSend
<1>4. ASSUME NEW d \in Disconnector, DisconnectClose(d) PROVE BeginClose(d)
  BY <1>4 DEF DisconnectClose
<1>5. CASE StopPublish \/ StartEncode \/ StopEncode \/ StopFlag \/ ClearCache \/ JoinWorker \/ ResetFlv
           \/ StartDisconnect \/ EncodeVideo \/ AddVideo \/ EncodeAudio \/ AddAudio
  BY <1>5 DEF StopPublish, StartEncode, StopEncode, StopFlag, ClearCache, JoinWorker, ResetFlv,
     StartDisconnect, EncodeVideo, AddVideo, EncodeAudio, AddAudio
<1>6. CASE WorkerConnected \/ WorkerPublished \/ WorkerPoll \/ WorkerDrop \/ WorkerSent \/ WorkerWait
  BY <1>6 DEF WorkerConnected, WorkerPublished, WorkerPoll, WorkerDrop, WorkerSent, WorkerWait
<1>7. ASSUME NEW d \in Disconnector, DisconnectClosed(d) PROVE UNCHANGED connVars
  BY <1>7 DEF DisconnectClosed
<1> QED BY <1>1, <1>2, <1>3, <1>4, <1>5, <1>6, <1>7, Threads DEF Next, UiStep, EncoderStep,
           WorkerStep

\* A step that is not one of the connection itself.
LEMMA OwnStep ==
  ASSUME Next, ~ConnectionStep
  PROVE  \/ UNCHANGED connVars \/ Flagged \/ Counted
         \/ \E t \in Caller : Begun(t)
BY OwnStepOf, Threads DEF Begun, WorkerConnect, WorkerPublish

\* Every step keeps the types of the connection.
LEMMA MuxConnTypes == ASSUME TypeInv, [Next]_vars PROVE TypeInv'
<1>1. CASE UNCHANGED connVars
  BY <1>1 DEF connVars, flags, fields, net, peer, threads, rxs, TypeInv, TypeOK, FieldTypes,
     NetTypes,
              ThreadTypes, RxHasStream
<1>2. CASE Flagged
  BY <1>2, ExceptBool DEF Flagged, SetInterrupted, flags, fields, net, peer, rxs, TypeInv, TypeOK,
     FieldTypes, NetTypes, ThreadTypes, RxHasStream
<1>3. CASE Counted
  BY <1>3 DEF Counted, fields, net, peer, threads, rxs, TypeInv, TypeOK, FieldTypes, NetTypes,
              ThreadTypes, RxHasStream
<1>4. ASSUME NEW t \in Caller, Begun(t) PROVE TypeInv' BY <1>4, TypeBegin DEF Begun
<1>5. CASE ConnectionStep BY <1>5, TypeCaller, TypeRx, TypeServer DEF ConnectionStep
<1> QED BY <1>1, <1>2, <1>3, <1>4, <1>5, OwnStep DEF vars

-----------------------------------------------------------------------------
(* Type correctness.                                                        *)

\* Taking the first of the frames and adding one keep the type of the cache.
LEMMA CacheTypes ==
  ASSUME mFlvTagCache \in Seq(Frame), NEW k \in Kind, run \in Nat
  PROVE  /\ Append(mFlvTagCache, [kind |-> k, run |-> run]) \in Seq(Frame)
         /\ mFlvTagCache # << >> => Head(mFlvTagCache) \in Frame /\ Tail(mFlvTagCache) \in Seq(Frame)
<1>1. [kind |-> k, run |-> run] \in Frame BY DEF Frame
<1>2. ASSUME NEW S, NEW q \in Seq(S), NEW f \in S
      PROVE  Append(q, f) \in Seq(S) /\ (q # << >> => Head(q) \in S /\ Tail(q) \in Seq(S))
  BY <1>2
<1> QED BY <1>1, <1>2

\* The type invariant in two parts: the flags, and all the rest.
MuxFlags ==
  /\ started \in BOOLEAN
  /\ mVideoSequenceHeader \in BOOLEAN /\ mAudioSequenceHeader \in BOOLEAN
  /\ needToFindKeyFrame \in BOOLEAN /\ spsPpsSent \in BOOLEAN /\ specificConfigGot \in BOOLEAN

MuxPlaces ==
  /\ mFlvTagCache \in Seq(Frame)
  /\ work \in {"none", "connect", "connecting", "publish", "publishing", "loop", "drain",
               "dispatch", "sending", "wait", "ended"}
  /\ hand \in Frame
  /\ disc \in [Disconnector -> {"none", "close", "closing", "ended"}]
  /\ ui \in StopStage \cup {"stopped", "starting", "live"}
  /\ codec \in {"config", "idr", "picture"}
  /\ vEnc \in VideoKind \cup {"off", "ready", "count"}
  /\ aEnc \in AudioKind \cup {"off", "ready"}
  /\ run \in Nat
  /\ frames \in Nat
  /\ late \in {"no", "met", "cleared"}

LEMMA MuxTypeParts == MuxTypeOK <=> MuxFlags /\ MuxPlaces
BY DEF MuxTypeOK, MuxFlags, MuxPlaces, StopStage

LEMMA MuxTypeInit == ASSUME MuxInit PROVE MuxTypeOK
<1>1. MuxFlags BY DEF MuxInit, MuxFlags
<1>2. MuxPlaces
  <2>1. hand \in Frame /\ mFlvTagCache \in Seq(Frame) BY DEF MuxInit, NoFrame, Frame, Kind, AudioKind
  <2> QED BY <2>1 DEF MuxInit, MuxPlaces
<1> QED BY <1>1, <1>2, MuxTypeParts

LEMMA MuxFlagsNext == ASSUME MuxFlags, [Next]_vars PROVE MuxFlags'
<1> USE DEF MuxFlags, headers, flv
<1>1. CASE Start \/ StopPublish \/ UiStep
  BY <1>1 DEF UiStep, Start, StopPublish, StartEncode, StopEncode, StopFlag, ClearCache,
     InterruptWorker,
     JoinWorker, ResetFlv, ForgetHeaders, StartDisconnect
<1>2. CASE EncoderStep
  <2>1. CASE EncodeVideo BY <2>1 DEF EncodeVideo
  <2>2. CASE EncodeAudio BY <2>2 DEF EncodeAudio
  <2>3. CASE AddVideo \/ CountVideo \/ AddAudio BY <2>3 DEF AddVideo, CountVideo, AddAudio
  <2> QED BY <1>2, <2>1, <2>2, <2>3 DEF EncoderStep
<1>3. CASE WorkerStep
  BY <1>3 DEF WorkerStep, WorkFrame, WorkerConnect, WorkerConnected, WorkerPublish, WorkerPublished,
     WorkerLoop, WorkerPoll, WorkerSend, WorkerDrop, WorkerSent, WorkerWait
<1>4. ASSUME NEW d \in Disconnector, DisconnectClose(d) \/ DisconnectClosed(d) PROVE MuxFlags'
  BY <1>4 DEF DisconnectClose, DisconnectClosed
<1>5. CASE UNCHANGED muxVars BY <1>5 DEF muxVars
<1> QED BY <1>1, <1>2, <1>3, <1>4, <1>5 DEF Next, ConnectionStep, vars

LEMMA MuxPlacesNext == ASSUME MuxPlaces, [Next]_vars PROVE MuxPlaces'
<1> USE DEF MuxPlaces
<1>1. CASE UNCHANGED muxVars BY <1>1 DEF muxVars, headers, flv, encoders
<1>2. CASE Start \/ StopPublish \/ UiStep
  <2> USE DEF headers, flv, encoders, StopStage
  <2>1. CASE Start          BY <2>1 DEF Start
  <2>2. CASE StartEncode    BY <2>2 DEF StartEncode
  <2>3. CASE StopPublish    BY <2>3 DEF StopPublish
  <2>4. CASE StopEncode     BY <2>4 DEF StopEncode
  <2>5. CASE StopFlag       BY <2>5 DEF StopFlag
  <2>6. CASE ClearCache
    <3>1. mFlvTagCache' \in Seq(Frame) BY <2>6 DEF ClearCache
    <3> QED BY <2>6, <3>1 DEF ClearCache
  <2>7. CASE InterruptWorker BY <2>7 DEF InterruptWorker
  <2>8. CASE JoinWorker     BY <2>8 DEF JoinWorker
  <2>9. CASE ResetFlv       BY <2>9 DEF ResetFlv
  <2>10. CASE StartDisconnect BY <2>10 DEF StartDisconnect
  <2> QED BY <1>2, <2>1, <2>2, <2>3, <2>4, <2>5, <2>6, <2>7, <2>8, <2>9, <2>10 DEF UiStep
<1>3. CASE EncoderStep
  <2> USE DEF headers, flv
  <2>1. CASE EncodeVideo
    <3>1. Emitted \subseteq VideoKind BY DEF Emitted, VideoKind
    <3> QED BY <2>1, <3>1 DEF EncodeVideo
  <2>2. CASE AddVideo       BY <2>2, CacheTypes DEF AddVideo, Kind
  <2>3. CASE CountVideo     BY <2>3 DEF CountVideo
  <2>4. CASE EncodeAudio    BY <2>4 DEF EncodeAudio, AudioKind
  <2>5. CASE AddAudio       BY <2>5, CacheTypes DEF AddAudio, Kind
  <2> QED BY <1>3, <2>1, <2>2, <2>3, <2>4, <2>5 DEF EncoderStep
<1>4. CASE WorkerStep
  <2> USE DEF headers, flv, encoders, WorkFrame, Work
  <2>1. CASE WorkerConnect   BY <2>1 DEF WorkerConnect
  <2>2. CASE WorkerConnected BY <2>2 DEF WorkerConnected
  <2>3. CASE WorkerPublish   BY <2>3 DEF WorkerPublish
  <2>4. CASE WorkerPublished BY <2>4 DEF WorkerPublished
  <2>5. CASE WorkerLoop      BY <2>5 DEF WorkerLoop
  <2>6. CASE WorkerPoll
    <3>1. "audioRaw" \in Kind BY DEF Kind, AudioKind
    <3>2. mFlvTagCache' \in Seq(Frame) /\ hand' \in Frame BY <2>6, <3>1, CacheTypes DEF WorkerPoll
    <3>3. work' \in {"wait", "dispatch"} /\ UNCHANGED WorkFrame BY <2>6 DEF WorkerPoll
    <3> QED BY <3>2, <3>3
  <2>7. CASE WorkerSend      BY <2>7 DEF WorkerSend
  <2>8. CASE WorkerDrop \/ WorkerSent
    <3>1. NoFrame \in Frame BY DEF NoFrame, Frame, Kind, AudioKind
    <3> QED BY <2>8, <3>1 DEF WorkerDrop, WorkerSent
  <2>9. CASE WorkerWait      BY <2>9 DEF WorkerWait
  <2> QED BY <1>4, <2>1, <2>2, <2>3, <2>4, <2>5, <2>6, <2>7, <2>8, <2>9 DEF WorkerStep
<1>5. ASSUME NEW d \in Disconnector, DisconnectClose(d) \/ DisconnectClosed(d) PROVE MuxPlaces'
  BY <1>5 DEF DisconnectClose, DisconnectClosed, headers, flv, encoders
<1> QED BY <1>1, <1>2, <1>3, <1>4, <1>5 DEF Next, ConnectionStep, vars

LEMMA MuxTypeNext == ASSUME MuxTypeOK, [Next]_vars PROVE MuxTypeOK'
<1>1. MuxTypeOK' <=> MuxFlags' /\ MuxPlaces' BY DEF MuxTypeOK, MuxFlags, MuxPlaces, StopStage
<1> QED BY <1>1, MuxTypeParts, MuxFlagsNext, MuxPlacesNext

-----------------------------------------------------------------------------
(* The threads of the publisher.                                            *)

\* The steps at which Next is split; the worker's steps that only move it on are one case.
LEMMA EncodersNext == ASSUME MuxFlags, EncodersOK, [Next]_vars PROVE EncodersOK'
<1> USE DEF EncodersOK, EncodersOff
<1>1. CASE Start \/ StopPublish \/ UiStep
  BY <1>1 DEF UiStep, Start, StopPublish, StartEncode, StopEncode, StopFlag, ClearCache,
     InterruptWorker,
     JoinWorker, ResetFlv, StartDisconnect, encoders
<1>2. CASE EncoderStep
  BY <1>2 DEF EncoderStep, EncodeVideo, AddVideo, CountVideo, EncodeAudio, AddAudio, VideoKind,
     AudioKind
<1>3. CASE UNCHANGED <<started, ui, vEnc, aEnc>> BY <1>3
<1>4. CASE WorkerStep
  BY <1>4, <1>3 DEF WorkerStep, WorkFrame, encoders, WorkerConnect, WorkerConnected, WorkerPublish,
     WorkerPublished, WorkerLoop, WorkerPoll, WorkerSend, WorkerDrop, WorkerSent, WorkerWait
<1>5. ASSUME NEW d \in Disconnector, DisconnectClose(d) \/ DisconnectClosed(d) PROVE EncodersOK'
  BY <1>5, <1>3 DEF DisconnectClose, DisconnectClosed, encoders
<1>6. CASE UNCHANGED muxVars BY <1>6, <1>3 DEF muxVars, encoders
<1> QED BY <1>1, <1>2, <1>4, <1>5, <1>6 DEF Next, ConnectionStep, vars

\* What adding a frame and taking the first one do to a sequence.
LEMMA AppendedFrames ==
  ASSUME NEW S, NEW q \in Seq(S), NEW f \in S
  PROVE  /\ Append(q, f) # << >> /\ Len(Append(q, f)) = Len(q) + 1 /\ Len(q) \in Nat
         /\ \A i \in 1 .. Len(q) : Append(q, f)[i] = q[i]
         /\ Append(q, f)[Len(q) + 1] = f
OBVIOUS

LEMMA TailOfFrames ==
  ASSUME NEW S, NEW q \in Seq(S), q # << >>
  PROVE  /\ Len(q) \in Nat /\ Len(q) >= 1 /\ Head(q) = q[1] /\ Len(Tail(q)) = Len(q) - 1
         /\ \A i \in 1 .. Len(Tail(q)) : Tail(q)[i] = q[i + 1]
OBVIOUS

LEMMA CacheNext == ASSUME MuxTypeOK, EncodersOK, WorkerOK, CacheOK, [Next]_vars PROVE CacheOK'
<1>a. mFlvTagCache \in Seq(Frame) /\ run \in Nat BY DEF MuxTypeOK
<1>1. CASE Start \/ StopPublish \/ UiStep
  <2>1. CASE Start BY <2>1 DEF Start, CacheOK, Emptied
  <2>2. CASE ClearCache BY <2>2 DEF ClearCache, CacheOK
  <2>3. CASE JoinWorker BY <2>3 DEF JoinWorker, CacheOK, Emptied
  <2>4. CASE StopPublish \/ StartEncode \/ StopEncode \/ StopFlag \/ InterruptWorker \/ ResetFlv \/ StartDisconnect
    BY <2>4 DEF StopPublish, StartEncode, StopEncode, StopFlag, InterruptWorker, ResetFlv,
       StartDisconnect, CacheOK, Emptied, encoders
  <2> QED BY <1>1, <2>1, <2>2, <2>3, <2>4 DEF UiStep
<1>2. CASE EncoderStep
  <2>1. ASSUME NEW k \in Kind, mFlvTagCache' = Append(mFlvTagCache, [kind |-> k, run |-> run]),
               ui \notin Emptied, UNCHANGED <<ui, run, work, hand>>
        PROVE  CacheOK'
    <3>1. [kind |-> k, run |-> run] \in Frame BY <1>a DEF Frame
    <3> QED BY <1>a, <2>1, <3>1, AppendedFrames DEF CacheOK
  <2>2. CASE AddVideo
    <3>1. vEnc \in Kind /\ ui \notin Emptied BY <2>2 DEF AddVideo, Kind, VideoKind, EncodersOK, EncodersOff, Emptied
    <3> QED BY <2>1, <2>2, <3>1 DEF AddVideo
  <2>3. CASE AddAudio
    <3>1. aEnc \in Kind /\ ui \notin Emptied BY <2>3 DEF AddAudio, Kind, AudioKind, EncodersOK, EncodersOff, Emptied
    <3> QED BY <2>1, <2>3, <3>1 DEF AddAudio
  <2>4. CASE EncodeVideo \/ CountVideo \/ EncodeAudio
    BY <2>4 DEF EncodeVideo, CountVideo, EncodeAudio, CacheOK
  <2> QED BY <1>2, <2>2, <2>3, <2>4 DEF EncoderStep
<1>3. CASE WorkerStep
  <2> USE DEF WorkFrame, Work, encoders
  <2>1. CASE WorkerPoll /\ mFlvTagCache # << >>
    <3>1. /\ hand' = Head(mFlvTagCache) /\ mFlvTagCache' = Tail(mFlvTagCache)
          /\ UNCHANGED <<ui, run>>
      BY <2>1 DEF WorkerPoll
    <3>2. hand'.run = run BY <1>a, <2>1, <3>1, TailOfFrames DEF CacheOK
    <3>3. \A i \in 1 .. Len(mFlvTagCache') : mFlvTagCache'[i].run = run
      <4> DEFINE r == Tail(mFlvTagCache)
      <4> SUFFICES ASSUME NEW i \in 1 .. Len(r) PROVE r[i].run = run BY <3>1
      <4>1. r[i] = mFlvTagCache[i + 1] /\ i + 1 \in 1 .. Len(mFlvTagCache) BY <1>a, <2>1, TailOfFrames
      <4> QED BY <4>1 DEF CacheOK
    <3> QED BY <2>1, <3>1, <3>2, <3>3 DEF CacheOK
  <2>2. CASE WorkerPoll /\ mFlvTagCache = << >> BY <2>2 DEF WorkerPoll, CacheOK
  <2>3. CASE WorkerConnect \/ WorkerConnected \/ WorkerPublish \/ WorkerPublished \/ WorkerLoop
    BY <2>3 DEF WorkerConnect, WorkerConnected, WorkerPublish, WorkerPublished, WorkerLoop, CacheOK
  <2>4. CASE WorkerSend \/ WorkerDrop \/ WorkerSent \/ WorkerWait
    BY <2>4 DEF WorkerSend, WorkerDrop, WorkerSent, WorkerWait, CacheOK
  <2> QED BY <1>3, <2>1, <2>2, <2>3, <2>4 DEF WorkerStep
<1>4. ASSUME NEW d \in Disconnector, DisconnectClose(d) \/ DisconnectClosed(d) PROVE CacheOK'
  BY <1>4 DEF DisconnectClose, DisconnectClosed, CacheOK, encoders
<1>5. CASE UNCHANGED muxVars BY <1>5 DEF muxVars, CacheOK
<1> QED BY <1>1, <1>2, <1>3, <1>4, <1>5 DEF Next, ConnectionStep, vars

LEMMA FlvNext == ASSUME MuxTypeOK, EncodersOK, FlvOK, [Next]_vars PROVE FlvOK'
<1>1. CASE Start \/ StopPublish \/ UiStep
  <2>1. CASE ResetFlv BY <2>1 DEF ResetFlv, ForgetHeaders, FlvOK, encoders, VideoKind, AudioKind, EncodersOK, EncodersOff
  <2>2. CASE StartEncode \/ StopEncode BY <2>2 DEF StartEncode, StopEncode, FlvOK, VideoKind, AudioKind, flv
  <2>3. CASE Start BY <2>3 DEF Start, FlvOK, flv, encoders
  <2>4. CASE StartDisconnect BY <2>4 DEF StartDisconnect, FlvOK, flv, encoders
  <2>5. CASE StopPublish \/ StopFlag \/ ClearCache \/ InterruptWorker \/ JoinWorker
    BY <2>5 DEF StopPublish, StopFlag, ClearCache, InterruptWorker, JoinWorker, FlvOK, flv, encoders
  <2> QED BY <1>1, <2>1, <2>2, <2>3, <2>4, <2>5 DEF UiStep
<1>2. CASE EncoderStep
  <2>1. CASE EncodeVideo
    <3>1. UNCHANGED <<specificConfigGot, ui, aEnc>> /\ ui \notin {"disconnect", "stopped", "starting"}
      BY <2>1 DEF EncodeVideo, EncodersOK, EncodersOff
    <3>2. vEnc' \in VideoKind => spsPpsSent' BY <2>1 DEF EncodeVideo, VideoKind
    <3> QED BY <3>1, <3>2 DEF FlvOK
  <2>2. CASE EncodeAudio
    <3>1. ui \notin {"disconnect", "stopped", "starting"} BY <2>2 DEF EncodeAudio, EncodersOK, EncodersOff
    <3> QED BY <2>2, <3>1 DEF EncodeAudio, FlvOK, AudioKind
  <2>3. CASE AddVideo \/ CountVideo \/ AddAudio
    BY <2>3 DEF AddVideo, CountVideo, AddAudio, FlvOK, VideoKind, AudioKind, flv
  <2> QED BY <1>2, <2>1, <2>2, <2>3 DEF EncoderStep
<1>3. CASE UNCHANGED <<flv, ui, vEnc, aEnc>> BY <1>3 DEF FlvOK, flv
<1>4. CASE WorkerStep
  BY <1>4, <1>3 DEF WorkerStep, WorkFrame, encoders, WorkerConnect, WorkerConnected, WorkerPublish,
     WorkerPublished, WorkerLoop, WorkerPoll, WorkerSend, WorkerDrop, WorkerSent, WorkerWait
<1>5. ASSUME NEW d \in Disconnector, DisconnectClose(d) \/ DisconnectClosed(d) PROVE FlvOK'
  BY <1>5, <1>3 DEF DisconnectClose, DisconnectClosed, encoders
<1>6. CASE UNCHANGED muxVars BY <1>6, <1>3 DEF muxVars, encoders
<1> QED BY <1>1, <1>2, <1>4, <1>5, <1>6 DEF Next, ConnectionStep, vars

-----------------------------------------------------------------------------
(* The calls of the worker and of the disconnect threads.                   *)

\* A step inside a method changes only where its own thread is, and close() goes through reset().
LEMMA CallerMoves ==
  ASSUME TypeInv, NEW t \in Caller, CallerStep(t)
  PROVE  /\ ~Idle(t)
         /\ \A u \in Caller \ {t} : call'[u] = call[u]
         /\ call[t] \in Closing =>
              /\ call'[t] \in Closing \cup {"idle"}
              /\ socket' = socket \/ socket' = None
              /\ videoFrameCacheNumber' = videoFrameCacheNumber \/ videoFrameCacheNumber' = 0
              /\ call'[t] \notin Unreset /\ call[t] \in Unreset => videoFrameCacheNumber' = 0
              /\ call'[t] \notin Unclosed /\ call[t] \in Unclosed => socket' = None
<1> DEFINE Others == \A u \in Caller \ {t} : call'[u] = call[u]
<1>a. call \in [Caller -> Step] BY DEF TypeInv, TypeOK, ThreadTypes
<1>b. ASSUME NEW pc, Goto(t, pc) PROVE Others /\ call'[t] = pc BY <1>a, <1>b DEF Goto
<1> USE DEF At, Idle, Return, flags, fields, threads, Unreset, Unclosed
<1>1. CASE \/ OpenSocket(t) \/ OpenFails(t) \/ StartRx(t) \/ RtmpConnect(t) \/ FlushConnect(t)
           \/ CheckConnected(t) \/ SendCreateStream(t) \/ FlushCreateStream(t) \/ CheckPermitted(t)
           \/ SendAudio(t) \/ SendVideo(t)
  <2>1. ~Idle(t) /\ call[t] \notin Closing
    BY <1>1 DEF OpenSocket, OpenFails, StartRx, RtmpConnect, FlushConnect, CheckConnected,
       SendCreateStream, FlushCreateStream, CheckPermitted, SendAudio, SendVideo, Closing
  <2>2. \E pc \in Step : Goto(t, pc)
    BY <1>1 DEF OpenSocket, OpenFails, StartRx, RtmpConnect, FlushConnect, CheckConnected,
       SendCreateStream, FlushCreateStream, CheckPermitted, SendAudio, SendVideo, Step
  <2> QED BY <2>1, <2>2, <1>b
<1>2. ASSUME NEW enter \in Step, NEW wait \in Step, NEW check \in Step,
             <<enter, wait, check>> \in {<<"enterConnect", "waitConnect", "checkConnect">>,
                                         <<"enterPublish", "waitPublish", "checkPublish">>},
             Wait(t, enter, wait, check) \/ Timeout(t, wait, check) \/ WaitInterrupted(t, wait, check)
      PROVE  ~Idle(t) /\ call[t] \notin Closing /\ Others
  <2>1. ~Idle(t) /\ call[t] \notin Closing BY <1>2 DEF Wait, Timeout, WaitInterrupted, Closing
  <2>2. \E pc \in Step : Goto(t, pc) BY <1>2 DEF Wait, Timeout, WaitInterrupted
  <2> QED BY <2>1, <2>2, <1>b
<1>3. CASE CloseStream(t)    BY <1>3, <1>b DEF CloseStream, Closing
<1>4. CASE ShutdownSocket(t) BY <1>4, <1>b DEF ShutdownSocket, Closing
<1>5. CASE InterruptRx(t)    BY <1>5, <1>b DEF InterruptRx, Closing
<1>6. CASE JoinRx(t)         BY <1>6, <1>b DEF JoinRx, Closing
<1>7. CASE CloseSocket(t)    BY <1>7, <1>b DEF CloseSocket, Closing
<1>8. CASE Reset(t) \/ ResetSocket(t)
  BY <1>8, <1>b DEF Reset, ResetSocket, ClearFlags, Closing
<1>9. CASE ReturnFlag(t)     BY <1>9, <1>b DEF ReturnFlag, Closing
<1>10. CASE NullPointer(t)   BY <1>10 DEF NullPointer, Closing
<1>11. CASE \/ Wait(t, "enterConnect", "waitConnect", "checkConnect")
            \/ Timeout(t, "waitConnect", "checkConnect")
            \/ WaitInterrupted(t, "waitConnect", "checkConnect")
  BY <1>2, <1>11 DEF Step
<1>12. CASE \/ Wait(t, "enterPublish", "waitPublish", "checkPublish")
            \/ Timeout(t, "waitPublish", "checkPublish")
            \/ WaitInterrupted(t, "waitPublish", "checkPublish")
  BY <1>2, <1>12 DEF Step
<1> QED BY <1>1, <1>3, <1>4, <1>5, <1>6, <1>7, <1>8, <1>9, <1>10, <1>11, <1>12 DEF CallerStep

\* A receive thread and the server move no thread that waits for no notification.
LEMMA OthersMove ==
  ASSUME TypeInv, NEW s \in Session, RxStep(s) \/ ServerStep(s)
  PROVE  /\ UNCHANGED <<socket, videoFrameCacheNumber>>
         /\ \A u \in Caller :
              /\ call[u] \in Closing \cup {"idle"} => call'[u] = call[u]
              /\ Idle(u)' <=> Idle(u)
<1> USE DEF flags, fields, threads, Idle, At, Closing
<1>1. CASE ServerStep(s) BY <1>1 DEF ServerStep, ServerAnswer, ServerControl, LinkLost
<1>2. CASE RxNotifyConnect(s) \/ RxNotifyPublish(s) BY <1>2 DEF RxNotifyConnect, RxNotifyPublish, Notify
<1>3. CASE \/ RxExit(s) \/ RxRead(s) \/ RxControl(s) \/ RxConnectResult(s) \/ RxCreateResult(s)
           \/ RxFmlePublish(s) \/ RxPublishStart(s) \/ RxPermit(s) \/ RxNullPointer(s)
  BY <1>3 DEF RxExit, RxRead, RxControl, RxConnectResult, RxCreateResult, RxFmlePublish,
     RxPublishStart, RxPermit, RxNullPointer
<1> QED BY <1>1, <1>2, <1>3 DEF RxStep

\* A method begins at a thread that is idle, and only its place changes among those of the threads.
LEMMA BegunMoves ==
  ASSUME TypeInv, NEW t \in Caller, Begun(t)
  PROVE  Idle(t) /\ \A u \in Caller \ {t} : call'[u] = call[u]
<1>a. call \in [Caller -> Step] BY DEF TypeInv, TypeOK, ThreadTypes
<1> QED BY <1>a DEF Begun, BeginConnect, BeginPublish, BeginClose, BeginMedia, Begin, Return, Goto

\* Flagged and Counted move no thread.
LEMMA FlaggedStays == ASSUME Flagged PROVE UNCHANGED <<call, socket, videoFrameCacheNumber>>
BY DEF Flagged, flags, fields

LEMMA WorkerNext == ASSUME MuxTypeOK, TypeInv, WorkerOK, DisconnectOK, [Next]_vars PROVE WorkerOK'
<1> USE Threads DEF WorkerOK
<1>1. CASE Start \/ StopPublish \/ UiStep
  <2>1. call' = call
    BY <1>1 DEF UiStep, Start, StopPublish, StartEncode, StopEncode, StopFlag, ClearCache,
       InterruptWorker, JoinWorker, ResetFlv, StartDisconnect, connVars, threads
  <2>2. CASE Start BY <2>1, <2>2 DEF Start, Idle, At
  <2>3. CASE JoinWorker BY <2>1, <2>3 DEF JoinWorker, Idle, At
  <2>4. CASE StopPublish \/ (UiStep /\ ~JoinWorker)
    <3>1. work' = work /\ (ui' \in {"resetFlv", "disconnect", "stopped"} => work = "none")
      BY <2>4 DEF UiStep, StopPublish, StartEncode, StopEncode, StopFlag, ClearCache,
         InterruptWorker,
         ResetFlv, StartDisconnect
    <3> QED BY <2>1, <3>1 DEF Idle, At
  <2> QED BY <1>1, <2>2, <2>3, <2>4
<1>2. CASE EncoderStep
  BY <1>2 DEF EncoderStep, EncodeVideo, AddVideo, CountVideo, EncodeAudio, AddAudio, connVars,
     threads, Idle, At
<1>3. CASE WorkerStep
  <2>1. ui' = ui /\ ui \notin {"resetFlv", "disconnect", "stopped"}
    BY <1>3 DEF WorkerStep, WorkFrame, WorkerConnect, WorkerConnected, WorkerPublish,
       WorkerPublished,
     WorkerLoop, WorkerPoll, WorkerSend, WorkerDrop, WorkerSent, WorkerWait, Work
  <2>2. CASE WorkerConnect \/ WorkerPublish \/ WorkerSend
    BY <2>1, <2>2 DEF WorkerConnect, WorkerPublish, WorkerSend, Work
  <2>3. CASE ~(WorkerConnect \/ WorkerPublish \/ WorkerSend)
    <3>1. call' = call /\ Idle(Worker)
      BY <1>3, <2>3 DEF WorkerStep, WorkerConnected, WorkerPublished, WorkerLoop, WorkerPoll,
         WorkerDrop,
         WorkerSent, WorkerWait, connVars, threads, Work
    <3> QED BY <2>1, <3>1 DEF Idle, At
  <2> QED BY <2>2, <2>3
<1>4. ASSUME NEW d \in Disconnector, DisconnectClose(d) PROVE WorkerOK'
  <2>1. Begun(d) /\ UNCHANGED <<work, ui>> BY <1>4 DEF DisconnectClose, Begun
  <2> QED BY <2>1, BegunMoves DEF Idle, At
<1>5. ASSUME NEW d \in Disconnector, DisconnectClosed(d) PROVE WorkerOK'
  BY <1>5 DEF DisconnectClosed, connVars, threads, Idle, At
<1>6. CASE ConnectionStep
  <2>1. UNCHANGED <<work, ui>> BY <1>6 DEF ConnectionStep, muxVars
  <2>2. Idle(Worker) => Idle(Worker)' BY <1>6, CallerMoves, OthersMove DEF ConnectionStep, Idle, At
  <2> QED BY <2>1, <2>2
<1>7. CASE UNCHANGED vars BY <1>7 DEF vars, muxVars, connVars, threads, Idle, At
<1> QED BY <1>1, <1>2, <1>3, <1>4, <1>5, <1>6, <1>7 DEF Next

\* No step makes an encoder, a frame or a place of a run while there is no worker.
LEMMA NoRunNext ==
  ASSUME EncodersOK, CacheOK, WorkerOK, NoRun, [Next]_vars
  PROVE  NoRun'
<1> USE DEF NoRun, EncodersOff
<1>1. CASE Start \/ StopPublish \/ UiStep
  BY <1>1 DEF UiStep, Start, StopPublish, StartEncode, StopEncode, StopFlag, ClearCache,
     InterruptWorker, JoinWorker, ResetFlv, StartDisconnect, encoders, EncodersOK, CacheOK, Emptied
<1>2. CASE EncoderStep
  BY <1>2 DEF EncoderStep, EncodeVideo, AddVideo, CountVideo, EncodeAudio, AddAudio, VideoKind, AudioKind
<1>3. CASE WorkerStep
  BY <1>3 DEF WorkerStep, WorkFrame, WorkerConnect, WorkerConnected, WorkerPublish, WorkerPublished,
     WorkerLoop, WorkerPoll, WorkerSend, WorkerDrop, WorkerSent, WorkerWait, Work
<1>4. ASSUME NEW d \in Disconnector, DisconnectClose(d) \/ DisconnectClosed(d) PROVE NoRun'
  BY <1>4 DEF DisconnectClose, DisconnectClosed, encoders
<1>5. CASE UNCHANGED muxVars BY <1>5 DEF muxVars, encoders
<1> QED BY <1>1, <1>2, <1>3, <1>4, <1>5 DEF Next, ConnectionStep, vars

\* What the two steps of a disconnect thread change.
LEMMA DisconnectMoves ==
  ASSUME MuxTypeOK, TypeInv, NEW d \in Disconnector, DisconnectClose(d) \/ DisconnectClosed(d)
  PROVE  /\ disc[d] \in {"close", "closing"} /\ Idle(d)
         /\ \A e \in Disconnector \ {d} : disc'[e] = disc[e] /\ call'[e] = call[e]
         /\ UNCHANGED <<work, ui, socket, videoFrameCacheNumber, run>>
         /\ DisconnectClose(d) => disc'[d] = "closing" /\ call'[d] \in Unreset /\ UNCHANGED <<headers, late>>
         /\ DisconnectClosed(d) =>
              /\ disc[d] = "closing" /\ disc'[d] = "ended" /\ call' = call
              /\ ~mVideoSequenceHeader' /\ ~mAudioSequenceHeader'
              /\ late' = (IF work = "none" THEN late ELSE "cleared")
<1>1. /\ disc \in [Disconnector -> {"none", "close", "closing", "ended"}]
      /\ call \in [Caller -> Step]
  BY DEF MuxTypeOK, TypeInv, TypeOK, ThreadTypes
<1>2. CASE DisconnectClose(d)
  BY <1>1, <1>2, Threads DEF DisconnectClose, DisconnectClosed, BeginClose, Begin, Goto, Unreset,
     Closing, flags, fields, Idle, At
<1>3. CASE DisconnectClosed(d)
  BY <1>1, <1>3 DEF DisconnectClose, DisconnectClosed, connVars, threads, flags, fields, Idle, At
<1> QED BY <1>2, <1>3

\* stop() starts a disconnect thread that has not run.
LEMMA NewDisconnect ==
  ASSUME MuxTypeOK, DisconnectOK, StartDisconnect
  PROVE  \E d \in Disconnector :
           /\ disc[d] = "none" /\ disc'[d] = "close"
           /\ \A e \in Disconnector \ {d} : disc'[e] = disc[e]
<1> DEFINE d == CHOOSE d \in Disconnector : disc[d] = "none"
<1>1. d \in Disconnector /\ disc[d] = "none" BY DEF StartDisconnect, DisconnectOK, StopStage
<1>2. disc' = [disc EXCEPT ![d] = "close"] BY DEF StartDisconnect
<1>3. disc \in [Disconnector -> {"none", "close", "closing", "ended"}] BY DEF MuxTypeOK
<1> HIDE DEF d
<1> QED BY <1>1, <1>2, <1>3

\* The steps of the UI thread, the encoders and the worker, but for the start of a disconnect thread.
LEMMA NoDisconnect ==
  ASSUME TypeInv, \/ Start \/ StopPublish \/ (UiStep /\ ~StartDisconnect) \/ EncoderStep \/ WorkerStep
  PROVE  disc' = disc /\ \A d \in Disconnector : call'[d] = call[d]
<1>1. CASE Start \/ StopPublish \/ (UiStep /\ ~StartDisconnect)
  BY <1>1 DEF UiStep, Start, StopPublish, StartEncode, StopEncode, StopFlag, ClearCache,
     InterruptWorker, JoinWorker, ResetFlv, connVars, threads
<1>2. CASE EncoderStep
  BY <1>2 DEF EncoderStep, EncodeVideo, AddVideo, CountVideo, EncodeAudio, AddAudio, connVars, threads
<1>3. CASE WorkerConnect \/ WorkerPublish \/ WorkerSend
  <2>1. Begun(Worker) BY <1>3 DEF WorkerConnect, WorkerPublish, WorkerSend, Begun
  <2> QED BY <1>3, <2>1, BegunMoves, Threads DEF WorkerConnect, WorkerPublish, WorkerSend, WorkFrame
<1>4. CASE WorkerStep /\ ~(WorkerConnect \/ WorkerPublish \/ WorkerSend)
  BY <1>4 DEF WorkerStep, WorkerConnected, WorkerPublished, WorkerLoop, WorkerPoll, WorkerDrop,
     WorkerSent, WorkerWait, WorkFrame, connVars, threads
<1> QED BY <1>1, <1>2, <1>3, <1>4

\* A step of the connection leaves the disconnect threads at their own steps, and moves only the one
\* that makes it.
LEMMA ConnectionMoves ==
  ASSUME TypeInv, ConnectionStep
  PROVE  /\ UNCHANGED muxVars
         /\ \/ \E t \in Caller : CallerStep(t)
            \/ /\ \A u \in Caller : call[u] \in Closing \cup {"idle"} => call'[u] = call[u]
               /\ UNCHANGED <<socket, videoFrameCacheNumber>>
<1>1. ASSUME NEW s \in Session, RxStep(s) \/ ServerStep(s)
      PROVE  /\ \A u \in Caller : call[u] \in Closing \cup {"idle"} => call'[u] = call[u]
             /\ UNCHANGED <<socket, videoFrameCacheNumber>>
  BY <1>1, OthersMove
<1> QED BY <1>1 DEF ConnectionStep

LEMMA DisconnectNext ==
  ASSUME MuxTypeOK, TypeInv, WorkerOK, DisconnectOK, [Next]_vars
  PROVE  DisconnectOK'
<1> USE Threads DEF Idle, At
<1>a. \A d \in Disconnector : call[d] \in Closing \cup {"idle"} /\ (disc[d] # "closing" => call[d] = "idle")
  BY DEF DisconnectOK
<1>1. CASE Start \/ StopPublish \/ (UiStep /\ ~StartDisconnect) \/ EncoderStep \/ WorkerStep
  <2>1. disc' = disc /\ \A d \in Disconnector : call'[d] = call[d] BY <1>1, NoDisconnect
  <2>2. \/ late' = "no" /\ ~Disconnecting
        \/ late' # "no"
        \/ late' = late /\ (work' = work \/ work # "none" \/ work' = "none")
    BY <1>1 DEF UiStep, Start, StopPublish, StartEncode, StopEncode, StopFlag, ClearCache,
     InterruptWorker, JoinWorker, ResetFlv, EncoderStep, EncodeVideo, AddVideo, CountVideo, EncodeAudio, AddAudio,
     WorkerStep, WorkFrame, WorkerConnect, WorkerConnected, WorkerPublish, WorkerPublished,
     WorkerLoop, WorkerPoll, WorkerSend, WorkerDrop, WorkerSent, WorkerWait, Work
  <2>3. ui' \in StopStage => \E d \in Disconnector : disc[d] = "none"
    BY <1>1 DEF UiStep, Start, StopPublish, StartEncode, StopEncode, StopFlag, ClearCache, StopStage,
     InterruptWorker, JoinWorker, ResetFlv, EncoderStep, EncodeVideo, AddVideo, CountVideo, EncodeAudio, AddAudio,
     WorkerStep, WorkFrame, WorkerConnect, WorkerConnected, WorkerPublish, WorkerPublished,
     WorkerLoop, WorkerPoll, WorkerSend, WorkerDrop, WorkerSent, WorkerWait, Work, DisconnectOK
  <2> QED BY <1>a, <2>1, <2>2, <2>3 DEF DisconnectOK, Disconnecting
<1>2. CASE StartDisconnect
  <2>1. PICK d \in Disconnector : /\ disc[d] = "none" /\ disc'[d] = "close"
                                  /\ \A e \in Disconnector \ {d} : disc'[e] = disc[e]
    BY <1>2, NewDisconnect
  <2>2. work' = "none" /\ ui' \notin StopStage /\ call' = call
    BY <1>2 DEF StartDisconnect, WorkerOK, StopStage, connVars, threads
  <2> QED BY <1>a, <2>1, <2>2 DEF DisconnectOK
<1>3. ASSUME NEW d \in Disconnector, DisconnectClose(d) \/ DisconnectClosed(d) PROVE DisconnectOK'
  <2>1. /\ disc[d] \in {"close", "closing"} /\ call[d] = "idle"
        /\ \A e \in Disconnector \ {d} : disc'[e] = disc[e] /\ call'[e] = call[e]
        /\ UNCHANGED <<work, ui>>
        /\ \/ disc'[d] = "closing" /\ call'[d] \in Closing
           \/ disc'[d] = "ended" /\ call'[d] = "idle"
        /\ late' \in {late, "cleared"}
    BY <1>3, DisconnectMoves DEF Unreset
  <2>2. Disconnecting BY <2>1 DEF Disconnecting
  <2>3. ui \in StopStage => \E e \in Disconnector : disc'[e] = "none"
    <3>1. \A e \in Disconnector : disc[e] = "none" => disc'[e] = "none" BY <2>1
    <3> QED BY <3>1 DEF DisconnectOK
  <2> QED BY <1>a, <2>1, <2>2, <2>3 DEF DisconnectOK
<1>4. CASE ConnectionStep
  <2>1. UNCHANGED <<work, disc, ui, late>> BY <1>4, ConnectionMoves DEF muxVars
  <2>2. \A d \in Disconnector :
          /\ call'[d] \in Closing \cup {"idle"}
          /\ disc[d] # "closing" => call'[d] = "idle"
    <3>1. CASE \E t \in Caller : CallerStep(t)
      <4>1. PICK t \in Caller : CallerStep(t) BY <3>1
      <4>2. call[t] # "idle" /\ \A u \in Caller \ {t} : call'[u] = call[u] BY <4>1, CallerMoves
      <4>3. call[t] \in Closing => call'[t] \in Closing \cup {"idle"} BY <4>1, CallerMoves
      <4> QED BY <1>a, <4>2, <4>3
    <3> QED BY <1>4, <1>a, <3>1, ConnectionMoves
  <2> QED BY <2>1, <2>2 DEF DisconnectOK, Disconnecting
<1>5. CASE UNCHANGED vars
  BY <1>5 DEF vars, muxVars, connVars, threads, DisconnectOK, Disconnecting
<1> QED BY <1>1, <1>2, <1>3, <1>4, <1>5 DEF Next, UiStep

\* What clears the counter, the socket and the headers of a stopped muxer is behind it only when it
\* has cleared them.
LEMMA LeftOverNext ==
  ASSUME MuxTypeOK, TypeInv, EncodersOK, WorkerOK, DisconnectOK, LeftOver, [Next]_vars
  PROVE  LeftOver'
<1> USE Threads
<1>1. SUFFICES ASSUME ui' = "stopped" PROVE LeftOver' BY DEF LeftOver
<1>2. CASE StartDisconnect
  <2>1. PICK d \in Disconnector : disc'[d] = "close" BY <1>2, NewDisconnect
  <2> QED BY <2>1 DEF LeftOver, ToReset, ToRelease, Disconnecting
<1>3. ~Start /\ ~StopPublish /\ (UiStep => StartDisconnect)
  BY <1>1 DEF UiStep, Start, StopPublish, StartEncode, StopEncode, StopFlag, ClearCache,
     InterruptWorker, JoinWorker, ResetFlv
<1>4. ~EncoderStep /\ ~WorkerStep
  <2>1. EncoderStep \/ WorkerStep => ui = "stopped"
    BY <1>1 DEF EncoderStep, EncodeVideo, AddVideo, CountVideo, EncodeAudio, AddAudio,
     WorkerStep, WorkFrame, WorkerConnect, WorkerConnected, WorkerPublish, WorkerPublished,
     WorkerLoop, WorkerPoll, WorkerSend, WorkerDrop, WorkerSent, WorkerWait
  <2>2. ~EncoderStep
    BY <2>1 DEF EncoderStep, EncodeVideo, AddVideo, CountVideo, EncodeAudio, AddAudio, EncodersOK, EncodersOff,
       VideoKind, AudioKind
  <2>3. ~WorkerStep
    BY <2>1 DEF WorkerStep, WorkerConnect, WorkerConnected, WorkerPublish, WorkerPublished,
     WorkerLoop, WorkerPoll, WorkerSend, WorkerDrop, WorkerSent, WorkerWait, Work, WorkerOK
  <2> QED BY <2>2, <2>3
<1>5. ASSUME NEW d \in Disconnector, DisconnectClose(d) \/ DisconnectClosed(d) PROVE LeftOver'
  <2>1. /\ disc[d] \in {"close", "closing"} /\ call[d] = "idle"
        /\ \A e \in Disconnector \ {d} : disc'[e] = disc[e] /\ call'[e] = call[e]
        /\ UNCHANGED <<ui, socket, videoFrameCacheNumber>>
    BY <1>5, DisconnectMoves DEF Idle, At
  <2>2. LeftOver /\ ui = "stopped" BY <1>1, <2>1
  <2>3. CASE DisconnectClose(d)
    <3>1. disc'[d] = "closing" /\ call'[d] \in Unreset BY <2>3, DisconnectMoves
    <3> QED BY <3>1 DEF LeftOver, ToReset, ToRelease, Disconnecting, Unreset, Unclosed
  <2>4. CASE DisconnectClosed(d)
    <3>1. disc[d] = "closing" /\ ~mVideoSequenceHeader' /\ ~mAudioSequenceHeader' BY <2>4, DisconnectMoves
    <3>2. ~ToReset(d) /\ ~ToRelease(d) BY <2>1, <3>1 DEF ToReset, ToRelease, Unreset, Unclosed, Closing
    <3>3. \A e \in Disconnector \ {d} : (ToReset(e) => ToReset(e)') /\ (ToRelease(e) => ToRelease(e)')
      BY <2>1 DEF ToReset, ToRelease
    <3> QED BY <2>1, <2>2, <3>1, <3>2, <3>3 DEF LeftOver
  <2> QED BY <1>5, <2>3, <2>4
<1>6. CASE ConnectionStep
  <2>1. UNCHANGED <<work, disc, ui, headers>> BY <1>6, ConnectionMoves DEF muxVars
  <2>2. ui = "stopped" BY <1>1, <2>1
  <2>3. CASE \E t \in Caller : CallerStep(t)
    <3>1. PICK t \in Caller : CallerStep(t) BY <2>3
    <3>2. call[t] # "idle" /\ \A u \in Caller \ {t} : call'[u] = call[u]
      BY <3>1, CallerMoves DEF Idle, At
    <3>3. call[Worker] = "idle" BY <2>2 DEF WorkerOK, Idle, At
    <3>4. t \in Disconnector BY <3>2, <3>3, MuxerAssumption
    <3>5. disc[t] = "closing" /\ call[t] \in Closing BY <3>2, <3>4 DEF DisconnectOK, Idle, At
    <3>6. /\ socket' = socket \/ socket' = None
          /\ videoFrameCacheNumber' = videoFrameCacheNumber \/ videoFrameCacheNumber' = 0
          /\ call'[t] \notin Unreset /\ call[t] \in Unreset => videoFrameCacheNumber' = 0
          /\ call'[t] \notin Unclosed /\ call[t] \in Unclosed => socket' = None
      BY <3>1, <3>5, CallerMoves
    <3>7. \A e \in Disconnector \ {t} : (ToReset(e) => ToReset(e)') /\ (ToRelease(e) => ToRelease(e)')
      BY <2>1, <3>2 DEF ToReset, ToRelease
    <3>8. /\ videoFrameCacheNumber' # 0 /\ ToReset(t) => ToReset(t)'
          /\ socket' # None /\ ToRelease(t) => ToRelease(t)'
      BY <2>1, <3>5, <3>6 DEF ToReset, ToRelease
    <3>9. Disconnecting' <=> Disconnecting BY <2>1 DEF Disconnecting
    <3>10. videoFrameCacheNumber' # 0 => \E d \in Disconnector : ToReset(d)'
      BY <2>2, <3>6, <3>7, <3>8 DEF LeftOver
    <3>11. socket' # None => \E d \in Disconnector : ToRelease(d)'
      BY <2>2, <3>6, <3>7, <3>8 DEF LeftOver
    <3>12. mVideoSequenceHeader' \/ mAudioSequenceHeader' => Disconnecting'
      BY <2>1, <2>2, <3>9 DEF LeftOver, headers
    <3> QED BY <3>10, <3>11, <3>12 DEF LeftOver
  <2>4. CASE ~\E t \in Caller : CallerStep(t)
    <3>1. /\ \A u \in Caller : call[u] \in Closing \cup {"idle"} => call'[u] = call[u]
          /\ UNCHANGED <<socket, videoFrameCacheNumber>>
      BY <1>6, <2>4, ConnectionMoves
    <3>2. \A d \in Disconnector : call'[d] = call[d] BY <3>1 DEF DisconnectOK
    <3> QED BY <2>1, <3>1, <3>2 DEF LeftOver, ToReset, ToRelease, Disconnecting, headers
  <2> QED BY <2>3, <2>4
<1>7. CASE UNCHANGED vars
  BY <1>7 DEF vars, muxVars, connVars, threads, fields, flags, headers, LeftOver, ToReset, ToRelease,
     Disconnecting
<1> QED BY <1>2, <1>3, <1>4, <1>5, <1>6, <1>7 DEF Next

\* When every disconnect thread has ended there is nothing left.
LEMMA NothingLeft ==
  ASSUME CacheOK, LeftOver
  PROVE  CleanAfterStop
BY DEF CacheOK, Emptied, LeftOver, ToReset, ToRelease, Disconnecting, CleanAfterStop

-----------------------------------------------------------------------------
(* The sequence headers.                                                    *)

\* Nothing is waiting for its header.
LEMMA EmptyOrdered == ASSUME mFlvTagCache' = << >>, EncodersOff' PROVE OrderOK'
BY DEF OrderOK, EncodersOff

\* A step that leaves the cache alone, forgets no header and lets no encoder count on a new one.
LEMMA OrderKept ==
  ASSUME OrderOK, mFlvTagCache' = mFlvTagCache, work' # "ended" => work # "ended", late' = late,
         work' # "ended" => \A h \in Header : Had(h) => Had(h)',
         vEnc' \notin {"off", "videoHeader"} /\ spsPpsSent' => vEnc \notin {"off", "videoHeader"} /\ spsPpsSent,
         aEnc' \notin {"off", "audioHeader"} /\ specificConfigGot'
           => aEnc \notin {"off", "audioHeader"} /\ specificConfigGot
  PROVE  OrderOK'
BY DEF OrderOK, Header

\* An encoder adds a frame whose header is there.
LEMMA OrderAppended ==
  ASSUME OrderOK, mFlvTagCache \in Seq(Frame), run \in Nat, NEW k \in Kind,
         mFlvTagCache' = Append(mFlvTagCache, [kind |-> k, run |-> run]),
         UNCHANGED <<work, hand, headers, spsPpsSent, specificConfigGot, late>>,
         \A h \in Header : Needs(k, h) /\ work # "ended" /\ late # "cleared"
           => Had(h) \/ Among(h, mFlvTagCache, Len(mFlvTagCache)),
         vEnc' \notin {"off", "videoHeader"} /\ spsPpsSent
           => k = "videoHeader" \/ vEnc \notin {"off", "videoHeader"},
         aEnc' \notin {"off", "audioHeader"} /\ specificConfigGot
           => k = "audioHeader" \/ aEnc \notin {"off", "audioHeader"}
  PROVE  OrderOK'
<1> DEFINE f == [kind |-> k, run |-> run]
           q == mFlvTagCache
           r == Append(q, f)
<1>1. f \in Frame BY DEF Frame
<1>2. f.kind = k OBVIOUS
<1> HIDE DEF f
<1>3. /\ Len(r) = Len(q) + 1 /\ Len(q) \in Nat
      /\ \A i \in 1 .. Len(q) : r[i] = q[i]
      /\ r[Len(q) + 1] = f
  BY <1>1, AppendedFrames
<1>4. mFlvTagCache' = r BY DEF f
<1> HIDE DEF r
<1>5. \A h \in Header : Had(h)' <=> Had(h) BY DEF Had, Streaming, headers
<1>6. ASSUME NEW h, NEW n \in 0 .. Len(q), Among(h, q, n) PROVE Among(h, r, n)
  BY <1>3, <1>6 DEF Among
<1>7. ASSUME work # "ended", late # "cleared", NEW i \in 1 .. Len(r), NEW h \in Header, Needs(r[i].kind, h)
      PROVE  Had(h) \/ Among(h, r, i - 1)
  <2>1. i - 1 \in 0 .. Len(q) BY <1>3
  <2>2. CASE i \in 1 .. Len(q) BY <1>3, <1>6, <1>7, <2>1, <2>2 DEF OrderOK
  <2>3. CASE i = Len(q) + 1
    <3>1. r[i].kind = k /\ i - 1 = Len(q) BY <1>2, <1>3, <2>3
    <3> QED BY <1>6, <1>7, <2>1, <3>1
  <2> QED BY <1>3, <2>2, <2>3
<1>8. ASSUME NEW h \in Header, k = h \/ Had(h) \/ Among(h, q, Len(q))
      PROVE  Had(h) \/ Among(h, r, Len(r))
  <2>1. CASE k = h
    <3>1. r[Len(r)].kind = h /\ Len(r) \in 1 .. Len(r) BY <1>2, <1>3, <2>1
    <3> QED BY <3>1 DEF Among
  <2>2. CASE Among(h, q, Len(q)) BY <1>3, <2>2 DEF Among
  <2> QED BY <1>8, <2>1, <2>2
<1>9. "videoHeader" \in Header /\ "audioHeader" \in Header BY DEF Header
<1>10. ASSUME work # "ended", late # "cleared", vEnc' \notin {"off", "videoHeader"}, spsPpsSent
       PROVE  k = "videoHeader" \/ Had("videoHeader") \/ Among("videoHeader", q, Len(q))
  BY <1>10 DEF OrderOK
<1>11. ASSUME work # "ended", late # "cleared", aEnc' \notin {"off", "audioHeader"}, specificConfigGot
       PROVE  k = "audioHeader" \/ Had("audioHeader") \/ Among("audioHeader", q, Len(q))
  BY <1>11 DEF OrderOK
<1> HIDE DEF q
<1> QED BY <1>4, <1>5, <1>7, <1>8, <1>9, <1>10, <1>11 DEF OrderOK

\* The worker takes the first frame; if it is a header, the others still have it.
LEMMA OrderPolled ==
  ASSUME MuxTypeOK, OrderOK, WorkerPoll, mFlvTagCache # << >>
  PROVE  OrderOK' /\ NothingDropped'
<1> DEFINE q == mFlvTagCache
           r == Tail(q)
<1>1. /\ work = "drain" /\ work' = "dispatch" /\ hand' = Head(q)
      /\ mFlvTagCache' = r /\ UNCHANGED <<headers, vEnc, aEnc, spsPpsSent, specificConfigGot, late>>
  BY DEF WorkerPoll, WorkFrame, flv, encoders
<1>2. /\ Len(q) \in Nat /\ Len(q) >= 1 /\ Head(q) = q[1] /\ Len(r) = Len(q) - 1
      /\ \A i \in 1 .. Len(r) : r[i] = q[i + 1]
  <2>1. q \in Seq(Frame) BY DEF MuxTypeOK
  <2> QED BY <2>1, TailOfFrames
<1>3. hand'.kind = q[1].kind BY <1>1, <1>2
<1>0. CASE late = "cleared" BY <1>0, <1>1 DEF OrderOK, NothingDropped
<1> SUFFICES ASSUME late # "cleared" PROVE OrderOK' /\ NothingDropped' BY <1>0
<1> HIDE DEF r
<1>4. ASSUME NEW h \in Header, NEW n \in 0 .. Len(r), Had(h) \/ Among(h, q, n + 1)
      PROVE  Had(h)' \/ Among(h, r, n)
  <2>1. CASE Had(h) BY <1>1, <2>1 DEF Had, Streaming, headers
  <2>2. ASSUME NEW j \in 1 .. n + 1, q[j].kind = h PROVE Had(h)' \/ Among(h, r, n)
    <3>1. CASE j = 1 BY <1>1, <1>3, <2>2, <3>1 DEF Had
    <3>2. CASE j # 1
      <4>1. j - 1 \in 1 .. n /\ j - 1 \in 1 .. Len(r) /\ (j - 1) + 1 = j BY <1>2, <3>2
      <4>2. r[j - 1].kind = h BY <1>2, <2>2, <4>1
      <4> QED BY <4>1, <4>2 DEF Among
    <3> QED BY <3>1, <3>2
  <2> QED BY <1>4, <2>1, <2>2 DEF Among
<1>5. ASSUME NEW i \in 1 .. Len(r), NEW h \in Header, Needs(r[i].kind, h)
      PROVE  Had(h)' \/ Among(h, r, i - 1)
  <2>1. /\ i + 1 \in 1 .. Len(q) /\ (i + 1) - 1 = (i - 1) + 1
        /\ i - 1 \in 0 .. Len(r) /\ r[i] = q[i + 1]
    BY <1>2
  <2>2. Had(h) \/ Among(h, q, (i + 1) - 1) BY <1>1, <1>5, <2>1 DEF OrderOK
  <2> QED BY <1>4, <2>1, <2>2
<1>6. ASSUME NEW h \in Header, Had(h) \/ Among(h, q, Len(q)) PROVE Had(h)' \/ Among(h, r, Len(r))
  <2>1. Len(r) \in 0 .. Len(r) /\ Len(r) + 1 = Len(q) BY <1>2
  <2> QED BY <1>4, <1>6, <2>1
<1>7. "videoHeader" \in Header /\ "audioHeader" \in Header BY DEF Header
<1>8. OrderOK' BY <1>1, <1>5, <1>6, <1>7 DEF OrderOK
<1>9. NothingDropped'
  <2>1. SUFFICES ASSUME hand'.kind \notin Header PROVE HasHeader' BY DEF NothingDropped, Header
  <2>2. 1 \in 1 .. Len(q) /\ 1 - 1 = 0 BY <1>2
  <2> DEFINE h == IF q[1].kind \in VideoKind THEN "videoHeader" ELSE "audioHeader"
  <2>3. h \in Header /\ Needs(q[1].kind, h) BY <1>3, <2>1 DEF Needs, Header
  <2>4. Had(h) \/ Among(h, q, 0) BY <1>1, <2>2, <2>3 DEF OrderOK
  <2>5. ~Among(h, q, 0) BY DEF Among
  <2> QED BY <1>1, <1>3, <2>4, <2>5 DEF Had, HasHeader, IsVideo, headers
<1> QED BY <1>8, <1>9

LEMMA OrderNext ==
  ASSUME MuxTypeOK, EncodersOK, CacheOK, NoRun, FlvOK, OrderOK, [Next]_vars
  PROVE  OrderOK'
<1> USE DEF Header
<1>1. CASE Start \/ StopPublish \/ UiStep
  <2>1. CASE Start \/ JoinWorker \/ ResetFlv \/ ClearCache
    <3>1. mFlvTagCache' = << >> /\ EncodersOff'
      BY <2>1 DEF Start, JoinWorker, ResetFlv, ClearCache, CacheOK, Emptied, EncodersOK,
         EncodersOff, encoders
    <3> QED BY <3>1, EmptyOrdered
  <2>2. CASE StopPublish \/ StartEncode \/ StopEncode \/ StopFlag \/ InterruptWorker \/ StartDisconnect
    <3>1. UNCHANGED <<mFlvTagCache, work, hand, headers, flv, late>>
      BY <2>2 DEF StopPublish, StartEncode, StopEncode, StopFlag, InterruptWorker, StartDisconnect
    <3>2. /\ vEnc' # "off" /\ spsPpsSent => vEnc' = vEnc
          /\ aEnc' # "off" /\ specificConfigGot => aEnc' = aEnc
      BY <2>2 DEF StopPublish, StartEncode, StopEncode, StopFlag, InterruptWorker,
         StartDisconnect, FlvOK, encoders
    <3> QED BY <3>1, <3>2, OrderKept DEF Had, Streaming, flv, headers
  <2> QED BY <1>1, <2>1, <2>2 DEF UiStep
<1>2. CASE EncoderStep
  <2>1. CASE EncodeVideo
    <3>1. UNCHANGED <<mFlvTagCache, work, hand, headers, specificConfigGot, aEnc, late>> BY <2>1 DEF EncodeVideo
    <3>2. started /\ vEnc = "ready" BY <2>1 DEF EncodeVideo, EncodersOK, EncodersOff
    <3>3. vEnc' # "videoHeader" /\ spsPpsSent' => spsPpsSent BY <2>1, <3>2 DEF EncodeVideo
    <3> QED BY <3>1, <3>2, <3>3, OrderKept DEF Had, Streaming, headers
  <2>2. CASE EncodeAudio
    <3>1. UNCHANGED <<mFlvTagCache, work, hand, headers, spsPpsSent, vEnc, late>> BY <2>2 DEF EncodeAudio
    <3>2. started /\ aEnc = "ready" BY <2>2 DEF EncodeAudio, EncodersOK, EncodersOff
    <3>3. aEnc' # "audioHeader" => specificConfigGot BY <2>2, <3>2 DEF EncodeAudio
    <3> QED BY <3>1, <3>2, <3>3, OrderKept DEF Had, Streaming, headers
  <2>3. CASE CountVideo
    <3>1. UNCHANGED <<mFlvTagCache, work, hand, headers, flv, aEnc, late>> /\ vEnc = "count" /\ vEnc' = "ready"
      BY <2>3 DEF CountVideo
    <3> QED BY <3>1, OrderKept DEF Had, Streaming, headers, flv
  <2>4. CASE AddVideo
    <3>1. /\ vEnc \in VideoKind /\ vEnc \in Kind /\ vEnc' = "count" /\ spsPpsSent
          /\ UNCHANGED <<work, hand, headers, flv, aEnc, late>>
          /\ mFlvTagCache' = Append(mFlvTagCache, [kind |-> vEnc, run |-> run])
      BY <2>4 DEF AddVideo, FlvOK, Kind
    <3>2. \A h \in Header : Needs(vEnc, h) /\ work # "ended" /\ late # "cleared"
            => Had(h) \/ Among(h, mFlvTagCache, Len(mFlvTagCache))
      BY <3>1 DEF OrderOK, Needs, VideoKind
    <3>3. mFlvTagCache \in Seq(Frame) /\ run \in Nat BY DEF MuxTypeOK
    <3>4. vEnc # "off" BY <3>1 DEF VideoKind
    <3> QED BY <3>1, <3>2, <3>3, <3>4, OrderAppended DEF flv
  <2>5. CASE AddAudio
    <3>1. /\ aEnc \in AudioKind /\ aEnc \in Kind /\ aEnc' = "ready" /\ specificConfigGot
          /\ UNCHANGED <<work, hand, headers, flv, vEnc, late>>
          /\ mFlvTagCache' = Append(mFlvTagCache, [kind |-> aEnc, run |-> run])
      BY <2>5 DEF AddAudio, FlvOK, Kind
    <3>2. \A h \in Header : Needs(aEnc, h) /\ work # "ended" /\ late # "cleared"
            => Had(h) \/ Among(h, mFlvTagCache, Len(mFlvTagCache))
      BY <3>1 DEF OrderOK, Needs, VideoKind, AudioKind
    <3>3. mFlvTagCache \in Seq(Frame) /\ run \in Nat BY DEF MuxTypeOK
    <3>4. aEnc # "off" BY <3>1 DEF AudioKind
    <3> QED BY <3>1, <3>2, <3>3, <3>4, OrderAppended DEF flv
  <2> QED BY <1>2, <2>1, <2>2, <2>3, <2>4, <2>5 DEF EncoderStep
<1>3. CASE WorkerStep
  <2>1. CASE WorkerPoll /\ mFlvTagCache # << >> BY <2>1, OrderPolled
  <2>2. ASSUME UNCHANGED <<mFlvTagCache, WorkFrame>>, work # "ended",
               work' # "ended" => \A h \in Header : Had(h) => Had(h)'
        PROVE  OrderOK'
    BY <2>2, OrderKept DEF WorkFrame, flv, encoders
  <2>3. CASE WorkerPoll /\ mFlvTagCache = << >>
    BY <2>2, <2>3 DEF WorkerPoll, Had, Streaming, headers
  <2>4. CASE WorkerConnect \/ WorkerConnected \/ WorkerPublish \/ WorkerPublished
    BY <2>2, <2>4 DEF WorkerConnect, WorkerConnected, WorkerPublish, WorkerPublished, Work, Had,
       Streaming
  <2>5. CASE WorkerLoop BY <2>2, <2>5 DEF WorkerLoop, Had, Streaming, headers
  <2>6. CASE WorkerSend BY <2>2, <2>6 DEF WorkerSend, Work, Had, Streaming
  <2>7. CASE WorkerDrop \/ WorkerSent \/ WorkerWait
    BY <2>2, <2>7 DEF WorkerDrop, WorkerSent, WorkerWait, Work, Had, Streaming, headers
  <2> QED BY <1>3, <2>1, <2>3, <2>4, <2>5, <2>6, <2>7 DEF WorkerStep
<1>4. ASSUME NEW d \in Disconnector, DisconnectClosed(d) PROVE OrderOK'
  <2>1. CASE work = "none"
    <3>1. mFlvTagCache' = << >> /\ EncodersOff'
      BY <1>4, <2>1 DEF DisconnectClosed, NoRun, EncodersOff, encoders
    <3> QED BY <3>1, EmptyOrdered
  <2>2. CASE work # "none" BY <1>4, <2>2 DEF DisconnectClosed, OrderOK
  <2> QED BY <2>1, <2>2
<1>5. CASE UNCHANGED <<mFlvTagCache, work, hand, headers, flv, encoders, late>>
  BY <1>5, OrderKept DEF Had, Streaming, headers, flv, encoders
<1>6. ASSUME NEW d \in Disconnector, DisconnectClose(d) PROVE OrderOK'
  BY <1>5, <1>6 DEF DisconnectClose
<1> QED BY <1>1, <1>2, <1>3, <1>4, <1>5, <1>6 DEF Next, ConnectionStep, vars, muxVars

LEMMA DroppedNext ==
  ASSUME MuxTypeOK, OrderOK, NothingDropped, [Next]_vars
  PROVE  NothingDropped'
<1>1. CASE WorkerStep
  <2>1. CASE WorkerPoll /\ mFlvTagCache # << >> BY <2>1, OrderPolled
  <2>2. CASE ~(WorkerPoll /\ mFlvTagCache # << >>)
    <3>1. work' # "dispatch"
      BY <1>1, <2>2 DEF WorkerStep, WorkerConnect, WorkerConnected, WorkerPublish,
         WorkerPublished, WorkerLoop,
         WorkerPoll, WorkerSend, WorkerDrop, WorkerSent, WorkerWait, Work
    <3> QED BY <3>1 DEF NothingDropped
  <2> QED BY <2>1, <2>2
<1>2. CASE UNCHANGED <<work, hand, headers, late>> BY <1>2 DEF NothingDropped, HasHeader, IsVideo, headers
<1>3. CASE Start \/ JoinWorker BY <1>3 DEF Start, JoinWorker, NothingDropped
<1>4. CASE StopPublish \/ (UiStep /\ ~JoinWorker)
  BY <1>2, <1>4 DEF UiStep, StopPublish, StartEncode, StopEncode, StopFlag, ClearCache,
     InterruptWorker,
     ResetFlv, StartDisconnect
<1>5. CASE EncoderStep BY <1>2, <1>5 DEF EncoderStep, EncodeVideo, AddVideo, CountVideo, EncodeAudio, AddAudio
<1>6. ASSUME NEW d \in Disconnector, DisconnectClose(d) PROVE NothingDropped'
  BY <1>2, <1>6 DEF DisconnectClose
<1>7. ASSUME NEW d \in Disconnector, DisconnectClosed(d) PROVE NothingDropped'
  BY <1>7 DEF DisconnectClosed, NothingDropped
<1> QED BY <1>1, <1>2, <1>3, <1>4, <1>5, <1>6, <1>7 DEF Next, ConnectionStep, vars, muxVars

-----------------------------------------------------------------------------
(* The first run of the publisher, until the worker has met the interrupt.   *)

\* The steps of a close() on a closed connection.
FreshCall == {"idle", "shutdown", "reset", "resetSocket", "return"}

\* Before the first start() nothing happened but calls of close() on a closed connection.
FreshOK ==
  run = 0 =>
    /\ work = "none" /\ EncodersOff /\ ui \notin {"starting", "live", "interrupt", "join"}
    /\ socket = None /\ stream = None /\ rxPacketHandler = None /\ sockets = 0
    /\ ~connected /\ ~publishPermitted /\ currentStreamId = None
    /\ \A s \in Session : /\ link[s] = "new" /\ buffer[s] = {} /\ wire[s] = {} /\ answered[s] = {}
                          /\ inbox[s] = << >> /\ rx[s] = "none"
    /\ invoked = {}
    /\ \A t \in Caller : ~interrupted[t] /\ call[t] \in FreshCall

\* The invariant of the connection holds in the first run, and the worker is not interrupted before
\* stop() waits for it.
FirstRunOK ==
  Undisturbed =>
    /\ ConnInv
    /\ work = "connect" => socket = None
    /\ ui # "join" => ~interrupted[Worker]

LEMMA AllIdle ==
  ASSUME WorkerOK, DisconnectOK, late = "no", work \notin {"none", "connecting", "publishing", "sending"}
  PROVE  \A t \in Caller : Idle(t)
<1>1. Idle(Worker) BY DEF WorkerOK
<1>2. ~Disconnecting BY DEF DisconnectOK
<1>3. \A d \in Disconnector : Idle(d) BY <1>2 DEF DisconnectOK, Disconnecting
<1> QED BY <1>1, <1>3, MuxerAssumption

\* Only the worker is in a call while it exists.
LEMMA WorkerCalls ==
  ASSUME TypeInv, DisconnectOK, late = "no", work # "none", NEW t \in Caller, CallerStep(t)
  PROVE  t = Worker
<1>1. ~Idle(t) BY CallerMoves
<1>2. ~Disconnecting BY DEF DisconnectOK
<1> QED BY <1>1, <1>2, MuxerAssumption DEF DisconnectOK, Disconnecting

\* Only start() begins a run.
LEMMA RunKept ==
  ASSUME ~Start, [Next]_vars
  PROVE  /\ run' = run /\ late' \in {late, "cleared"}
         /\ work = "none" => work' = "none"
         /\ ui = "join" => ui' = "join" \/ work' = "none"
         /\ work' = "connect" => work = "connect"
BY DEF Next, UiStep, EncoderStep, WorkerStep, ConnectionStep, vars, muxVars, encoders, WorkFrame,
   StopPublish, StartEncode, StopEncode, StopFlag, ClearCache, InterruptWorker, JoinWorker, ResetFlv,
   StartDisconnect, EncodeVideo, AddVideo, CountVideo, EncodeAudio, AddAudio, WorkerConnect,
   WorkerConnected, WorkerPublish, WorkerPublished, WorkerLoop, WorkerPoll, WorkerSend, WorkerDrop,
   WorkerSent, WorkerWait, Work, DisconnectClose, DisconnectClosed

\* Only stop() interrupts the worker.
LEMMA InterruptKept ==
  ASSUME TypeInv, ~Start, ~InterruptWorker, [Next]_vars, Interrupted'
  PROVE  Interrupted
<1>1. interrupted \in [Caller -> BOOLEAN] BY DEF TypeInv, TypeOK, ThreadTypes
<1>2. OnlyForgotten
  <2>1. CASE ConnectionStep BY <2>1, NoneInterrupted DEF ConnectionStep
  <2>2. CASE UNCHANGED vars BY <2>2 DEF vars, connVars, threads, OnlyForgotten
  <2>3. CASE WorkerLoop BY <2>3, Threads DEF WorkerLoop, OnlyForgotten
  <2>4. CASE Next /\ ~ConnectionStep /\ ~WorkerLoop
    <3>1. CASE StopPublish \/ UiStep
      BY <3>1 DEF UiStep, StopPublish, StartEncode, StopEncode, StopFlag, ClearCache, JoinWorker,
         ResetFlv, StartDisconnect, connVars, threads, OnlyForgotten
    <3>2. CASE EncoderStep
      BY <3>2 DEF EncoderStep, EncodeVideo, AddVideo, CountVideo, EncodeAudio, AddAudio, connVars,
         threads, OnlyForgotten
    <3>3. CASE WorkerStep
      BY <2>4, <3>3 DEF WorkerStep, WorkerConnect, WorkerConnected, WorkerPublish, WorkerPublished,
         WorkerPoll, WorkerSend, WorkerDrop, WorkerSent, WorkerWait, BeginConnect, BeginPublish,
         BeginMedia, connVars, threads, OnlyForgotten
    <3>4. ASSUME NEW d \in Disconnector, DisconnectClose(d) \/ DisconnectClosed(d) PROVE OnlyForgotten
      BY <3>4 DEF DisconnectClose, DisconnectClosed, BeginClose, connVars, threads, OnlyForgotten
    <3> QED BY <2>4, <3>1, <3>2, <3>3, <3>4 DEF Next
  <2> QED BY <2>1, <2>2, <2>3, <2>4
<1>3. \/ interrupted' = interrupted
      \/ \E t \in Caller : interrupted' = [interrupted EXCEPT ![t] = FALSE]
  BY <1>2 DEF OnlyForgotten, SetInterrupted
<1> QED BY <1>1, <1>3, Threads DEF Interrupted

LEMMA FreshNext ==
  ASSUME MuxTypeOK, TypeInv, EncodersOK, FreshOK, [Next]_vars
  PROVE  FreshOK'
<1>1. SUFFICES ASSUME run' = 0 PROVE FreshOK' BY DEF FreshOK
<1>2. run = 0
  <2>1. run' = run \/ run' = run + 1 BY RunKept DEF Start
  <2> QED BY <1>1, <2>1 DEF MuxTypeOK
<1>3. /\ work = "none" /\ EncodersOff /\ ui \notin {"starting", "live", "interrupt", "join"}
      /\ socket = None /\ stream = None /\ rxPacketHandler = None /\ sockets = 0
      /\ ~connected /\ ~publishPermitted /\ currentStreamId = None
  BY <1>2 DEF FreshOK
<1>4. \A s \in Session : /\ link[s] = "new" /\ buffer[s] = {} /\ wire[s] = {} /\ answered[s] = {}
                         /\ inbox[s] = << >> /\ rx[s] = "none"
  BY <1>2 DEF FreshOK
<1>5. invoked = {} /\ \A t \in Caller : ~interrupted[t] /\ call[t] \in FreshCall
  BY <1>2 DEF FreshOK
<1>6. ASSUME UNCHANGED connVars, work' = "none", EncodersOff', ui' \notin {"starting", "live", "interrupt", "join"}
      PROVE  FreshOK'
  BY <1>3, <1>4, <1>5, <1>6 DEF FreshOK, connVars, flags, fields, net, peer, threads, rxs
<1>7. CASE Start \/ StopPublish \/ UiStep
  <2>1. ~Start BY <1>1, <1>2 DEF Start
  <2>2. UNCHANGED <<connVars, work>> /\ EncodersOff' /\ ui' \notin {"starting", "live", "interrupt", "join"}
    BY <1>3, <1>7, <2>1 DEF UiStep, StopPublish, StartEncode, StopEncode, StopFlag, ClearCache,
       InterruptWorker,
       JoinWorker, ResetFlv, StartDisconnect, encoders, EncodersOff
  <2> QED BY <1>3, <1>6, <2>2
<1>8. ~EncoderStep /\ ~WorkerStep
  BY <1>3 DEF EncoderStep, EncodeVideo, AddVideo, CountVideo, EncodeAudio, AddAudio, VideoKind,
     AudioKind, EncodersOff,
     WorkerStep, WorkerConnect, WorkerConnected, WorkerPublish, WorkerPublished, WorkerLoop, WorkerPoll, WorkerSend,
     WorkerDrop, WorkerSent, WorkerWait, Work
<1>9. ASSUME NEW d \in Disconnector, DisconnectClose(d) PROVE FreshOK'
  <2>1. call' = [call EXCEPT ![d] = "shutdown"] BY <1>3, <1>9 DEF DisconnectClose, BeginClose, Begin, Goto
  <2>2. \A t \in Caller : call'[t] \in FreshCall
    BY <1>5, <2>1 DEF TypeInv, TypeOK, ThreadTypes, FreshCall
  <2>3. UNCHANGED <<interrupted, invoked, flags, fields, net, rxs, work, ui, encoders>>
    BY <1>9 DEF DisconnectClose, BeginClose
  <2> QED BY <1>3, <1>4, <1>5, <2>2, <2>3 DEF FreshOK, EncodersOff, encoders, flags, fields, net,
             peer, rxs
<1>10. ASSUME NEW d \in Disconnector, DisconnectClosed(d) PROVE FreshOK'
  BY <1>3, <1>6, <1>10 DEF DisconnectClosed, encoders, EncodersOff
<1>11. CASE ConnectionStep
  <2>1. UNCHANGED <<work, vEnc, aEnc, ui>> BY <1>11 DEF ConnectionStep, muxVars, encoders
  <2>2. \A s \in Session : ~RxStep(s) /\ ~ServerStep(s)
    BY <1>4 DEF RxStep, RxAt, RxExit, RxRead, RxControl, RxConnectResult, RxNotifyConnect,
       RxCreateResult,
       RxFmlePublish, RxPublishStart, RxPermit, RxNotifyPublish, RxNullPointer, ServerStep, ServerAnswer,
       ServerControl, LinkLost
  <2>3. PICK t \in Caller : CallerStep(t) BY <1>11, <2>2 DEF ConnectionStep
  <2>4. ShutdownSocket(t) \/ Reset(t) \/ ResetSocket(t) \/ ReturnFlag(t)
    BY <1>3, <1>5, <2>3 DEF FreshCall, CallerStep, At, OpenSocket, OpenFails, StartRx, RtmpConnect,
       FlushConnect, CheckConnected,
       SendCreateStream, FlushCreateStream, CheckPermitted, SendAudio, SendVideo, CloseStream, InterruptRx,
       JoinRx, CloseSocket, NullPointer, Wait, Timeout, WaitInterrupted
  <2>5. \E pc \in FreshCall : call' = [call EXCEPT ![t] = pc]
    BY <1>3, <2>4 DEF FreshCall, ShutdownSocket, Reset, ResetSocket, ReturnFlag, Return, Goto
  <2>6. \A u \in Caller : call'[u] \in FreshCall
    BY <1>5, <2>5 DEF TypeInv, TypeOK, ThreadTypes
  <2>7. /\ UNCHANGED <<interrupted, stream, rxPacketHandler, sockets, link, rx>>
        /\ socket' = None /\ ~connected' /\ ~publishPermitted' /\ currentStreamId' = None
        /\ invoked' = {}
    BY <1>3, <1>5, <2>4 DEF ShutdownSocket, Reset, ResetSocket, ClearFlags, ReturnFlag, flags, fields, net, rxs
  <2>8. \A s \in Session : buffer'[s] = {} /\ wire'[s] = {} /\ answered'[s] = {} /\ inbox'[s] = << >>
    BY <1>4, <2>4 DEF ShutdownSocket, Reset, ResetSocket, ReturnFlag, net, peer
  <2> QED BY <1>3, <1>4, <1>5, <2>1, <2>6, <2>7, <2>8 DEF FreshOK, EncodersOff
<1>12. CASE UNCHANGED vars
  BY <1>3, <1>6, <1>12 DEF vars, muxVars, encoders, EncodersOff
<1> QED BY <1>7, <1>8, <1>9, <1>10, <1>11, <1>12 DEF Next

\* The first run begins with a fresh connection, and nothing leads back into it.
LEMMA UndisturbedBack ==
  ASSUME MuxTypeOK, TypeInv, WorkerOK, [Next]_vars, Undisturbed'
  PROVE  Undisturbed \/ (Start /\ run = 0 /\ ~Disconnecting)
<1>1. CASE Start
  <2>1. run + 1 = 1 /\ ~Disconnecting BY <1>1 DEF Start, Undisturbed
  <2>2. run \in Nat BY DEF MuxTypeOK
  <2> QED BY <1>1, <2>1, <2>2
<1>2. CASE ~Start
  <2>1. run = 1 /\ late = "no" /\ work # "none" BY <1>2, RunKept DEF Undisturbed
  <2>2. ASSUME ui = "join" PROVE Interrupted
    <3>1. ui' = "join" /\ Interrupted' BY <1>2, <2>2, RunKept DEF Undisturbed
    <3>2. ~InterruptWorker BY <2>2 DEF InterruptWorker
    <3> QED BY <1>2, <3>1, <3>2, InterruptKept
  <2> QED BY <2>1, <2>2 DEF Undisturbed
<1> QED BY <1>1, <1>2

LEMMA FirstRunNext ==
  ASSUME MuxTypeOK, TypeInv, TypeInv', WorkerOK, DisconnectOK, FreshOK, FirstRunOK, [Next]_vars
  PROVE  FirstRunOK'
<1>1. SUFFICES ASSUME Undisturbed'
               PROVE  /\ ConnInv' /\ (work' = "connect" => socket' = None)
                      /\ ui' # "join" => ~Interrupted'
  BY DEF FirstRunOK, Interrupted
<1>2. CASE Start /\ run = 0 /\ ~Disconnecting
  <2>1. /\ UNCHANGED <<call, op, ret, joining, flags, fields, invoked, net, rxs, crashed>>
        /\ SetInterrupted(Worker, FALSE) /\ ui = "stopped"
    BY <1>2 DEF Start
  <2>2. \A t \in Caller : Idle(t)
    <3>1. \A d \in Disconnector : Idle(d) BY <1>2 DEF DisconnectOK, Disconnecting
    <3>2. Idle(Worker) BY <2>1 DEF WorkerOK
    <3> QED BY <3>1, <3>2, MuxerAssumption
  <2>3. \A t \in Caller : call'[t] = "idle" /\ ~interrupted'[t]
    BY <1>2, <2>1, <2>2 DEF FreshOK, SetInterrupted, TypeInv, TypeOK, ThreadTypes, Idle, At
  <2>4. /\ socket' = None /\ stream' = None /\ sockets' = 0
        /\ ~connected' /\ ~publishPermitted' /\ currentStreamId' = None
        /\ \A s \in Session : /\ link'[s] = "new" /\ buffer'[s] = {} /\ wire'[s] = {} /\ answered'[s] = {}
                              /\ inbox'[s] = << >> /\ rx'[s] = "none"
    BY <1>2, <2>1 DEF FreshOK, flags, fields, net, peer, rxs
  <2>5. (OneCall /\ CallState)' BY <2>3 DEF OneCall, CallState, CallFacts, Idle, At
  <2>6. (OneSession /\ AnswersKept)'
    <3> USE ConnAssumption DEF Session, None
    <3> QED BY <2>4 DEF OneSession, AnswersKept, Alive, Promised, Written
  <2>7. (FlagState /\ FlagsOfThisSession /\ WireOrder)'
    BY <2>4 DEF FlagState, FlagsOfThisSession, WireOrder, Written
  <2> QED BY <2>3, <2>4, <2>5, <2>6, <2>7, Threads DEF ConnInv, TypeInv, Interrupted
<1>3. CASE Undisturbed
  <2>1. /\ ConnInv /\ (work = "connect" => socket = None) /\ work # "none" /\ late = "no"
        /\ ui # "join" => ~Interrupted
    BY <1>3 DEF FirstRunOK, Undisturbed, Interrupted
  <2>0. ~Start BY <2>1 DEF Start, WorkerOK
  <2>2. ASSUME UNCHANGED connVars PROVE ConnInv'
    <3>1. UNCHANGED <<connected, publishPermitted, currentStreamId, fields, net, call, op, ret, joining, rxs>>
      BY <2>2 DEF connVars, flags, threads
    <3> QED BY <2>1, <3>1, CacheSafe
  <2>3. ConnInv'
    <3>1. CASE CountVideo BY <2>1, <3>1, CacheSafe DEF CountVideo, threads
    <3>2. CASE WorkerConnect
      <4>1. \A u \in Caller : Idle(u) BY <2>1, <3>2, AllIdle DEF WorkerConnect, Work
      <4>2. socket = None /\ BeginConnect(Worker) BY <2>1, <3>2 DEF WorkerConnect, Work
      <4> QED BY <2>1, <4>1, <4>2, BeginSafe, Threads
    <3>3. CASE WorkerPublish
      <4>1. \A u \in Caller : Idle(u) BY <2>1, <3>3, AllIdle DEF WorkerPublish, Work
      <4>2. BeginPublish(Worker) BY <3>3 DEF WorkerPublish
      <4> QED BY <2>1, <4>1, <4>2, BeginSafe, Threads
    <3>4. CASE WorkerSend
      <4>1. \A u \in Caller : Idle(u) BY <2>1, <3>4, AllIdle DEF WorkerSend, Work
      <4>2. \E pc \in {"sendAudio", "sendVideo"} : BeginMedia(Worker, pc) BY <3>4 DEF WorkerSend
      <4> QED BY <2>1, <4>1, <4>2, BeginSafe, Threads
    <3>5. CASE WorkerLoop
      <4>1. \A u \in Caller : Idle(u) BY <2>1, <3>5, AllIdle DEF WorkerLoop
      <4>2. SetInterrupted(Worker, FALSE) /\ UNCHANGED <<call, flags, fields, net, rxs>> BY <3>5 DEF WorkerLoop
      <4>3. Goto(Worker, "idle") BY <4>1, <4>2, Threads DEF Goto, Idle, At, TypeInv, TypeOK, ThreadTypes
      <4>4. Moves(Worker, "idle") BY <4>1, <4>2, <4>3 DEF Moves
      <4> QED BY <2>1, <4>2, <4>4, QuietSafe, Threads DEF CallFacts, flags, net, peer, rxs
    <3>6. CASE InterruptWorker
      <4>1. UNCHANGED <<connected, publishPermitted, currentStreamId, fields, net, call, op, ret, joining, rxs>>
        BY <3>6 DEF InterruptWorker, flags
      <4> QED BY <2>1, <4>1, CacheSafe
    <3>7. \A d \in Disconnector : ~DisconnectClose(d)
      BY <2>1 DEF DisconnectClose, DisconnectOK, Disconnecting
    <3>8. CASE ConnectionStep
      <4>1. ASSUME NEW t \in Caller, CallerStep(t) PROVE ConnInv'
        <5>1. t = Worker BY <2>1, <4>1, WorkerCalls
        <5>2. Joins(t)
          <6> SUFFICES ASSUME JoinRx(Worker), ~RxEnded(Worker) PROVE FALSE BY <5>1 DEF Joins
          <6>1. Interrupted /\ SetInterrupted(Worker, FALSE) BY DEF JoinRx, Interrupted
          <6>2. ~Interrupted' BY <6>1, Threads DEF Interrupted, SetInterrupted, TypeInv, TypeOK, ThreadTypes
          <6>3. ui' = "join" BY <2>1, <3>8, <6>1 DEF ConnectionStep, muxVars
          <6> QED BY <1>1, <6>2, <6>3 DEF Undisturbed
        <5> QED BY <2>1, <4>1, <5>2, CallerSafe
      <4> QED BY <2>1, <3>8, <4>1, RxSafe, ServerSafe DEF ConnectionStep
    <3>9. CASE StopPublish \/ StartEncode \/ StopEncode \/ StopFlag \/ ClearCache \/ JoinWorker \/ ResetFlv
               \/ StartDisconnect \/ EncodeVideo \/ AddVideo \/ EncodeAudio \/ AddAudio
      BY <2>2, <3>9 DEF StopPublish, StartEncode, StopEncode, StopFlag, ClearCache, JoinWorker,
         ResetFlv,
         StartDisconnect, EncodeVideo, AddVideo, EncodeAudio, AddAudio
    <3>10. CASE WorkerConnected \/ WorkerPublished \/ WorkerPoll \/ WorkerDrop \/ WorkerSent \/ WorkerWait
      BY <2>2, <3>10 DEF WorkerConnected, WorkerPublished, WorkerPoll, WorkerDrop, WorkerSent,
         WorkerWait
    <3>11. ASSUME NEW d \in Disconnector, DisconnectClosed(d) PROVE ConnInv'
      BY <2>2, <3>11 DEF DisconnectClosed
    <3>12. CASE UNCHANGED vars BY <2>2, <3>12 DEF vars
    <3> QED BY <2>0, <3>1, <3>2, <3>3, <3>4, <3>5, <3>6, <3>7, <3>8, <3>9, <3>10, <3>11, <3>12
         DEF Next, UiStep, EncoderStep, WorkerStep
  <2>4. ASSUME work' = "connect" PROVE socket' = None
    <3>1. work = "connect" BY <2>0, <2>4, RunKept
    <3>2. socket = None /\ \A t \in Caller : Idle(t) BY <2>1, <3>1, AllIdle
    <3>3. ~WorkerStep
      BY <2>4, <3>1 DEF WorkerStep, WorkerConnect, WorkerConnected, WorkerPublish, WorkerPublished,
         WorkerLoop, WorkerPoll, WorkerSend, WorkerDrop, WorkerSent, WorkerWait, Work
    <3>4. \A d \in Disconnector : ~DisconnectClose(d) /\ ~DisconnectClosed(d)
      BY <2>1 DEF DisconnectClose, DisconnectClosed, DisconnectOK, Disconnecting
    <3>5. CASE ConnectionStep
      <4>1. \A t \in Caller : ~CallerStep(t) BY <3>2, CallerMoves
      <4> QED BY <3>2, <3>5, <4>1, OthersMove DEF ConnectionStep
    <3>6. CASE ~ConnectionStep
      BY <2>0, <3>2, <3>3, <3>4, <3>6 DEF Next, UiStep, EncoderStep, vars, connVars, fields,
         StopPublish, StartEncode, StopEncode, StopFlag, ClearCache, InterruptWorker, JoinWorker,
         ResetFlv, StartDisconnect, EncodeVideo, AddVideo, CountVideo, EncodeAudio, AddAudio
    <3> QED BY <3>5, <3>6
  <2>5. ASSUME ui' # "join" PROVE ~Interrupted'
    <3>1. ui # "join" BY <1>1, <2>0, <2>5, RunKept DEF Undisturbed
    <3>2. ~InterruptWorker BY <2>5 DEF InterruptWorker
    <3> QED BY <2>0, <2>1, <3>1, <3>2, InterruptKept
  <2> QED BY <2>3, <2>4, <2>5
<1> QED BY <1>1, <1>2, <1>3, UndisturbedBack

-----------------------------------------------------------------------------
(* The result of publish() and the video frames that are counted.           *)

Media == {"sendAudio", "sendVideo"}

\* The steps of publish(), those of the shutdown that follows a failure included.
Publishing == {"sendCreate", "flushCreate", "enterPublish", "waitPublish", "checkPublish"}
                \cup (Closing \ {"closeStream"})

\* The worker is in the method its own step says it is in.
OpOK ==
  /\ work = "connecting" => op[Worker] = "connect"
  /\ work = "publishing" => op[Worker] = "publish" /\ call[Worker] \in Publishing \cup {"idle"}
  /\ work # "sending" => call[Worker] \notin Media
  /\ work = "sending" => call[Worker] \in Media \cup {"idle"}
  /\ call[Worker] = "sendVideo" => IsVideo(hand)
  /\ call[Worker] = "sendAudio" => ~IsVideo(hand)

\* In the first run the permission stands once publish() has returned true.
PermittedOK ==
  Undisturbed /\ (Streaming \/ (work = "publishing" /\ Idle(Worker) /\ ret[Worker])) => publishPermitted

\* What a step inside a method does to the counter, the permission and the result.
LEMMA CallerEffects ==
  ASSUME TypeInv, NEW t \in Caller, CallerStep(t)
  PROVE  /\ op' = op
         /\ call[t] \in Publishing => call'[t] \in Publishing \cup {"idle"}
         /\ call[t] \notin Media =>
              /\ call'[t] \notin Media
              /\ call'[t] \notin {"resetSocket", "return"} => UNCHANGED <<videoFrameCacheNumber, publishPermitted>>
              /\ call[t] \in Publishing /\ call'[t] = "idle" /\ ret'[t] /\ op[t] = "publish" => publishPermitted
         /\ call[t] \in Media =>
              /\ UNCHANGED publishPermitted
              /\ \/ call'[t] = call[t] /\ UNCHANGED videoFrameCacheNumber
                 \/ call'[t] = "idle" /\ videoFrameCacheNumber' =
                      (IF call[t] = "sendVideo" THEN videoFrameCacheNumber - 1 ELSE videoFrameCacheNumber)
         /\ call[t] = "resetSocket" => call'[t] \in {"resetSocket", "return"}
         /\ call[t] = "return" =>
              /\ UNCHANGED <<videoFrameCacheNumber, publishPermitted>>
              /\ \/ call'[t] = "return"
                 \/ call'[t] = "idle" /\ (op[t] = "connect" => ret'[t] = connected)
                                      /\ (op[t] = "publish" => ret'[t] = publishPermitted)
<1>a. call \in [Caller -> Step] /\ ret \in [Caller -> BOOLEAN] BY DEF TypeInv, TypeOK, ThreadTypes
<1>b. ASSUME NEW pc, Goto(t, pc) PROVE call'[t] = pc BY <1>a, <1>b DEF Goto
<1>c. ASSUME NEW r, Return(t, r) PROVE call'[t] = "idle" /\ ret'[t] = r BY <1>a, <1>c DEF Return, Goto
<1> USE DEF At, flags, threads, Media, Publishing, Closing
<1>1. CASE OpenSocket(t)     BY <1>1, <1>b DEF OpenSocket
<1>2. CASE OpenFails(t)      BY <1>2, <1>c DEF OpenFails
<1>3. CASE StartRx(t)        BY <1>3, <1>b DEF StartRx
<1>4. CASE RtmpConnect(t)    BY <1>4, <1>b, <1>c DEF RtmpConnect
<1>5. CASE FlushConnect(t)   BY <1>5, <1>b DEF FlushConnect
<1>6. CASE CheckConnected(t) BY <1>6, <1>b, <1>c DEF CheckConnected
<1>7. CASE SendCreateStream(t)  BY <1>7, <1>b DEF SendCreateStream
<1>8. CASE FlushCreateStream(t) BY <1>8, <1>b DEF FlushCreateStream
<1>9. CASE CheckPermitted(t) BY <1>9, <1>b, <1>c DEF CheckPermitted
<1>10. CASE SendAudio(t)     BY <1>10, <1>b DEF SendAudio
<1>11. CASE SendVideo(t)     BY <1>11, <1>b DEF SendVideo, GetAndDecrement
<1>12. CASE CloseStream(t)   BY <1>12, <1>b DEF CloseStream
<1>13. CASE ShutdownSocket(t) BY <1>13, <1>b DEF ShutdownSocket
<1>14. CASE InterruptRx(t)   BY <1>14, <1>b DEF InterruptRx
<1>15. CASE JoinRx(t)        BY <1>15, <1>b DEF JoinRx
<1>16. CASE CloseSocket(t)   BY <1>16, <1>b DEF CloseSocket
<1>17. CASE Reset(t) \/ ResetSocket(t) BY <1>17, <1>b DEF Reset, ResetSocket
<1>18. CASE ReturnFlag(t)    BY <1>18, <1>c DEF ReturnFlag
<1>19. CASE NullPointer(t)   BY <1>19 DEF NullPointer
<1>20. CASE \/ Wait(t, "enterConnect", "waitConnect", "checkConnect")
            \/ Timeout(t, "waitConnect", "checkConnect")
            \/ WaitInterrupted(t, "waitConnect", "checkConnect")
  BY <1>20, <1>b DEF Wait, Timeout, WaitInterrupted
<1>21. CASE \/ Wait(t, "enterPublish", "waitPublish", "checkPublish")
            \/ Timeout(t, "waitPublish", "checkPublish")
            \/ WaitInterrupted(t, "waitPublish", "checkPublish")
  BY <1>21, <1>b DEF Wait, Timeout, WaitInterrupted
<1> QED BY <1>1, <1>2, <1>3, <1>4, <1>5, <1>6, <1>7, <1>8, <1>9, <1>10, <1>11, <1>12, <1>13,
           <1>14, <1>15, <1>16,
           <1>17, <1>18, <1>19, <1>20, <1>21 DEF CallerStep

\* A receive thread and the server only wake a thread, and only give the permission.
LEMMA OthersEffects ==
  ASSUME TypeInv, NEW s \in Session, RxStep(s) \/ ServerStep(s)
  PROVE  /\ UNCHANGED <<op, ret, socket, videoFrameCacheNumber>>
         /\ publishPermitted => publishPermitted'
         /\ \A t \in Caller : \/ call'[t] = call[t]
                              \/ call[t] = "waitConnect" /\ call'[t] = "checkConnect"
                              \/ call[t] = "waitPublish" /\ call'[t] = "checkPublish"
<1> USE DEF flags, fields, threads
<1>1. CASE ServerStep(s) BY <1>1 DEF ServerStep, ServerAnswer, ServerControl, LinkLost
<1>2. CASE RxNotifyConnect(s) \/ RxNotifyPublish(s) BY <1>2 DEF RxNotifyConnect, RxNotifyPublish, Notify
<1>3. CASE \/ RxExit(s) \/ RxRead(s) \/ RxControl(s) \/ RxConnectResult(s) \/ RxCreateResult(s)
           \/ RxFmlePublish(s) \/ RxPublishStart(s) \/ RxPermit(s) \/ RxNullPointer(s)
  BY <1>3 DEF RxExit, RxRead, RxControl, RxConnectResult, RxCreateResult, RxFmlePublish,
     RxPublishStart, RxPermit, RxNullPointer
<1> QED BY <1>1, <1>2, <1>3 DEF RxStep

\* The steps that neither the worker nor the connection makes leave both alone, but for the counter
\* and the flag of an interrupt.
Aside == UNCHANGED <<call, op, ret, socket, publishPermitted, work, hand>>

LEMMA UiAside ==
  ASSUME StopPublish \/ (UiStep /\ ~JoinWorker) \/ EncoderStep
  PROVE  Aside
<1> USE DEF connVars, threads, flags, fields, Aside
<1>1. CASE StopPublish \/ (UiStep /\ ~JoinWorker)
  BY <1>1 DEF UiStep, StopPublish, StartEncode, StopEncode, StopFlag, ClearCache, InterruptWorker,
     ResetFlv, StartDisconnect
<1>2. CASE EncoderStep BY <1>2 DEF EncoderStep, EncodeVideo, AddVideo, CountVideo, EncodeAudio, AddAudio
<1> QED BY <1>1, <1>2

LEMMA OpNext == ASSUME MuxTypeOK, TypeInv, WorkerOK, DisconnectOK, OpOK, [Next]_vars PROVE OpOK'
<1> USE Threads DEF Media, Publishing, Closing
<1>a. /\ call \in [Caller -> Step] /\ op \in [Caller -> {"connect", "publish", "close"}]
      /\ ret \in [Caller -> BOOLEAN]
  BY DEF TypeInv, TypeOK, ThreadTypes
<1>1. ASSUME Aside PROVE OpOK' BY <1>1 DEF OpOK, Aside, IsVideo
<1>2. CASE StopPublish \/ (UiStep /\ ~JoinWorker) \/ EncoderStep BY <1>1, <1>2, UiAside
<1>3. CASE Start
  <2>1. Idle(Worker) BY <1>3 DEF Start, WorkerOK
  <2> QED BY <1>3, <2>1 DEF Start, OpOK, Idle, At
<1>4. CASE JoinWorker
  <2>1. Idle(Worker) BY <1>4 DEF JoinWorker, WorkerOK
  <2> QED BY <1>4, <2>1 DEF JoinWorker, OpOK, Idle, At, connVars, threads
<1>5. CASE WorkerConnect
  <2>1. call'[Worker] = "open" /\ op'[Worker] = "connect" /\ work' = "connecting"
    BY <1>5, <1>a DEF WorkerConnect, Work, BeginConnect, Begin, Goto
  <2> QED BY <2>1 DEF OpOK
<1>6. CASE WorkerPublish
  <2>1. call'[Worker] \in {"sendCreate", "idle"} /\ op'[Worker] = "publish" /\ work' = "publishing"
    BY <1>6, <1>a DEF WorkerPublish, Work, BeginPublish, Begin, Return, Goto
  <2> QED BY <2>1 DEF OpOK
<1>7. CASE WorkerSend
  <2>1. /\ call'[Worker] \in {IF IsVideo(hand) THEN "sendVideo" ELSE "sendAudio", "idle"}
        /\ work' = "sending" /\ hand' = hand
    BY <1>7, <1>a DEF WorkerSend, Work, BeginMedia, Goto
  <2> QED BY <2>1 DEF OpOK, IsVideo
<1>8. CASE WorkerStep /\ ~(WorkerConnect \/ WorkerPublish \/ WorkerSend)
  <2>1. call' = call /\ Idle(Worker) /\ work' \notin {"connecting", "publishing"}
    BY <1>8 DEF WorkerStep, WorkerConnected, WorkerPublished, WorkerLoop, WorkerPoll, WorkerDrop,
       WorkerSent,
       WorkerWait, Work, WorkerOK, connVars, threads
  <2> QED BY <2>1 DEF OpOK, Idle, At
<1>9. ASSUME NEW d \in Disconnector, DisconnectClose(d) PROVE OpOK'
  <2>1. /\ call'[Worker] = call[Worker] /\ op'[Worker] = op[Worker] /\ UNCHANGED <<work, hand>>
    BY <1>9, <1>a DEF DisconnectClose, BeginClose, Begin, Goto
  <2> QED BY <2>1 DEF OpOK, IsVideo
<1>10. ASSUME NEW d \in Disconnector, DisconnectClosed(d) PROVE OpOK'
  BY <1>1, <1>10 DEF DisconnectClosed, Aside, connVars, threads, flags, fields
<1>11. CASE ConnectionStep
  <2>1. UNCHANGED <<work, hand>> BY <1>11 DEF ConnectionStep, muxVars
  <2>2. ASSUME NEW s \in Session, RxStep(s) \/ ServerStep(s) PROVE OpOK'
    <3>1. op' = op /\ \/ call'[Worker] = call[Worker]
                      \/ call[Worker] = "waitConnect" /\ call'[Worker] = "checkConnect"
                      \/ call[Worker] = "waitPublish" /\ call'[Worker] = "checkPublish"
      BY <2>2, OthersEffects
    <3> QED BY <2>1, <3>1 DEF OpOK, IsVideo
  <2>3. ASSUME NEW t \in Caller, CallerStep(t), t # Worker PROVE OpOK'
    <3>1. op' = op /\ call'[Worker] = call[Worker] BY <2>3, CallerEffects, CallerMoves
    <3> QED BY <2>1, <3>1 DEF OpOK, IsVideo
  <2>4. CASE CallerStep(Worker)
    <3>1. /\ op' = op
          /\ call[Worker] \in Publishing => call'[Worker] \in Publishing \cup {"idle"}
          /\ call[Worker] \notin Media => call'[Worker] \notin Media
          /\ call[Worker] \in Media => call'[Worker] \in {call[Worker], "idle"}
          /\ call[Worker] # "idle"
      BY <2>4, CallerEffects, CallerMoves DEF Idle, At
    <3> QED BY <2>1, <3>1 DEF OpOK, IsVideo
  <2> QED BY <1>11, <2>2, <2>3, <2>4 DEF ConnectionStep
<1>12. CASE UNCHANGED vars BY <1>1, <1>12 DEF vars, muxVars, connVars, threads, flags, fields, Aside
<1> QED BY <1>2, <1>3, <1>4, <1>5, <1>6, <1>7, <1>8, <1>9, <1>10, <1>11, <1>12 DEF Next, UiStep

LEMMA PermittedNext ==
  ASSUME MuxTypeOK, TypeInv, WorkerOK, DisconnectOK, OpOK, PermittedOK, [Next]_vars
  PROVE  PermittedOK'
<1> USE Threads DEF Media
<1>a. call \in [Caller -> Step] /\ ret \in [Caller -> BOOLEAN] BY DEF TypeInv, TypeOK, ThreadTypes
<1>1. SUFFICES ASSUME Undisturbed', Streaming' \/ (work' = "publishing" /\ Idle(Worker)' /\ ret'[Worker])
               PROVE  publishPermitted'
  BY DEF PermittedOK
<1>2. Undisturbed /\ ~Start
  BY <1>1, UndisturbedBack DEF Start, Streaming
<1>3. late = "no" /\ ~Disconnecting BY <1>2 DEF Undisturbed, DisconnectOK
<1>4. ASSUME UNCHANGED <<call, ret, publishPermitted, work>> PROVE publishPermitted'
  BY <1>1, <1>2, <1>4 DEF PermittedOK, Streaming, Idle, At
<1>5. CASE StopPublish \/ (UiStep /\ ~JoinWorker) \/ EncoderStep BY <1>4, <1>5, UiAside DEF Aside
<1>6. ~JoinWorker BY <1>1 DEF JoinWorker, Streaming
<1>7. CASE WorkerConnect \/ WorkerConnected \/ WorkerPoll \/ WorkerLoop \/ WorkerSend \/ WorkerDrop \/ WorkerSent \/ WorkerWait
  BY <1>1, <1>2, <1>7 DEF WorkerConnect, WorkerConnected, WorkerPoll, WorkerLoop, WorkerSend,
     WorkerDrop, WorkerSent,
     WorkerWait, Work, PermittedOK, Streaming, BeginMedia, connVars, flags
<1>8. CASE WorkerPublish
  <2>1. work' = "publishing" /\ (call'[Worker] = "idle" => ~ret'[Worker])
    BY <1>8, <1>a DEF WorkerPublish, Work, BeginPublish, Begin, Return, Goto
  <2> QED BY <1>1, <2>1 DEF Streaming, Idle, At
<1>9. CASE WorkerPublished
  BY <1>1, <1>2, <1>9 DEF WorkerPublished, PermittedOK, Streaming, connVars, flags
<1>10. ASSUME NEW d \in Disconnector PROVE ~DisconnectClose(d) /\ ~DisconnectClosed(d)
  BY <1>3 DEF DisconnectClose, DisconnectClosed, Disconnecting
<1>11. CASE ConnectionStep
  <2>1. work' = work /\ work # "none" BY <1>2, <1>11 DEF ConnectionStep, muxVars, Undisturbed
  <2>2. ASSUME NEW s \in Session, RxStep(s) \/ ServerStep(s) PROVE publishPermitted'
    <3>1. /\ ret' = ret /\ (publishPermitted => publishPermitted') BY <2>2, OthersEffects
    <3>2. Idle(Worker)' <=> Idle(Worker) BY <2>2, OthersMove
    <3> QED BY <1>1, <1>2, <2>1, <3>1, <3>2 DEF PermittedOK, Streaming
  <2>3. ASSUME NEW t \in Caller, CallerStep(t) PROVE publishPermitted'
    <3>1. t = Worker BY <1>3, <2>1, <2>3, WorkerCalls
    <3>2. CASE Streaming'
      <4>1. Streaming /\ work = "sending" /\ call[Worker] # "idle"
        BY <2>1, <2>3, <3>1, <3>2, CallerMoves DEF Streaming, WorkerOK, Idle, At
      <4>2. call[Worker] \in Media BY <4>1 DEF OpOK
      <4> QED BY <1>2, <2>3, <3>1, <4>1, <4>2, CallerEffects DEF PermittedOK
    <3>3. CASE work' = "publishing" /\ Idle(Worker)' /\ ret'[Worker]
      <4>1. work = "publishing" /\ op[Worker] = "publish" /\ call[Worker] \in Publishing /\ call[Worker] \notin Media
        BY <2>1, <2>3, <3>1, <3>3, CallerMoves DEF OpOK, Idle, At
      <4>2. call'[Worker] = "idle" BY <3>3 DEF Idle, At
      <4> QED BY <2>3, <3>1, <3>3, <4>1, <4>2, CallerEffects
    <3> QED BY <1>1, <3>2, <3>3
  <2> QED BY <1>11, <2>2, <2>3 DEF ConnectionStep
<1>12. CASE UNCHANGED vars BY <1>4, <1>12 DEF vars, muxVars, connVars, threads, flags
<1> QED BY <1>2, <1>5, <1>6, <1>7, <1>8, <1>9, <1>10, <1>11, <1>12 DEF Next, UiStep, WorkerStep

\* The permission implies the other two conditions for media.
LEMMA PermittedMay == ASSUME TypeInv, ConnInv, publishPermitted PROVE MayPublish
<1>1. socket \in Session
  BY ConnAssumption DEF ConnInv, FlagsOfThisSession, TypeInv, TypeOK, FieldTypes, Session, None
<1>2. "metadata" \in Written(socket) BY DEF ConnInv, FlagState
<1>3. "publish" \in Written(socket) BY <1>1, <1>2 DEF ConnInv, WireOrder
<1> QED BY <1>1, <1>3 DEF ConnInv, AnswersKept, MayPublish

-----------------------------------------------------------------------------
(* The number of video frames in the cache.                                 *)

Videos(q) == {i \in 1 .. Len(q) : IsVideo(q[i])}

LEMMA VideosFinite ==
  ASSUME NEW q \in Seq(Frame)
  PROVE  IsFiniteSet(Videos(q)) /\ Cardinality(Videos(q)) \in Nat
<1>1. Len(q) \in Nat OBVIOUS
<1>2. IsFiniteSet(1 .. Len(q)) BY <1>1, FS_Interval
<1>3. Videos(q) \in SUBSET (1 .. Len(q)) BY DEF Videos
<1>4. IsFiniteSet(Videos(q)) BY <1>2, <1>3, FS_Subset
<1> QED BY <1>4, FS_CardinalityType

LEMMA AppendVideos ==
  ASSUME NEW q \in Seq(Frame), NEW f \in Frame
  PROVE  Cardinality(Videos(Append(q, f))) = Cardinality(Videos(q)) + (IF IsVideo(f) THEN 1 ELSE 0)
<1> DEFINE r == Append(q, f)
<1>1. /\ Len(r) = Len(q) + 1 /\ Len(q) \in Nat
      /\ \A i \in 1 .. Len(q) : r[i] = q[i]
      /\ r[Len(q) + 1] = f
  BY AppendedFrames
<1> HIDE DEF r
<1>2. IsFiniteSet(Videos(q)) /\ Cardinality(Videos(q)) \in Nat BY VideosFinite
<1>3. Len(q) + 1 \notin Videos(q) BY <1>1 DEF Videos
<1>4. \A i : i \in 1 .. Len(r) <=> i \in 1 .. Len(q) \/ i = Len(q) + 1 BY <1>1
<1>5. CASE IsVideo(f)
  <2>1. Videos(r) = Videos(q) \cup {Len(q) + 1} BY <1>1, <1>4, <1>5 DEF Videos
  <2>2. Cardinality(Videos(q) \cup {Len(q) + 1}) = Cardinality(Videos(q)) + 1 BY <1>2, <1>3, FS_AddElement
  <2> QED BY <1>5, <2>1, <2>2 DEF r
<1>6. CASE ~IsVideo(f)
  <2>1. Videos(r) = Videos(q) BY <1>1, <1>4, <1>6 DEF Videos
  <2> QED BY <1>2, <1>6, <2>1 DEF r
<1> QED BY <1>5, <1>6

LEMMA TailVideos ==
  ASSUME NEW q \in Seq(Frame), q # << >>
  PROVE  Cardinality(Videos(Tail(q))) = Cardinality(Videos(q)) - (IF IsVideo(Head(q)) THEN 1 ELSE 0)
<1> DEFINE r == Tail(q)
           S == Videos(q) \ {1}
           T == Videos(r)
<1>1. /\ Len(q) \in Nat /\ Len(q) >= 1 /\ Head(q) = q[1] /\ Len(r) = Len(q) - 1
      /\ \A i \in 1 .. Len(r) : r[i] = q[i + 1]
  BY TailOfFrames
<1>2. IsFiniteSet(Videos(q)) /\ Cardinality(Videos(q)) \in Nat BY VideosFinite
<1> HIDE DEF r
<1>3. \A i \in S : i - 1 \in T
  <2> SUFFICES ASSUME NEW i \in S PROVE i - 1 \in T OBVIOUS
  <2>1. i \in 2 .. Len(q) /\ IsVideo(q[i]) BY <1>1 DEF Videos
  <2>2. i - 1 \in 1 .. Len(r) /\ (i - 1) + 1 = i BY <1>1, <2>1
  <2> QED BY <1>1, <2>1, <2>2 DEF Videos
<1>4. \A j \in T : j + 1 \in S /\ (j + 1) - 1 = j
  <2> SUFFICES ASSUME NEW j \in T PROVE j + 1 \in S /\ (j + 1) - 1 = j OBVIOUS
  <2>1. j \in 1 .. Len(r) /\ IsVideo(r[j]) BY DEF Videos
  <2>2. j + 1 \in 1 .. Len(q) /\ j + 1 # 1 /\ (j + 1) - 1 = j BY <1>1, <2>1
  <2> QED BY <1>1, <2>1, <2>2 DEF Videos
<1>5. S \subseteq Int BY DEF Videos
<1> DEFINE g == [i \in S |-> i - 1]
<1>6. g \in Bijection(S, T)
  <2>1. g \in [S -> T] BY <1>3
  <2>2. \A a, b \in S : g[a] = g[b] => a = b BY <1>5
  <2>3. \A j \in T : \E i \in S : g[i] = j
    <3> SUFFICES ASSUME NEW j \in T PROVE \E i \in S : g[i] = j OBVIOUS
    <3>1. j + 1 \in S /\ g[j + 1] = j BY <1>4
    <3> QED BY <3>1
  <2> QED BY <2>1, <2>2, <2>3 DEF Bijection, Injection, Surjection, IsInjective
<1>7. IsFiniteSet(S) /\ Cardinality(S) = IF 1 \in Videos(q) THEN Cardinality(Videos(q)) - 1
                                                            ELSE Cardinality(Videos(q))
  BY <1>2, FS_RemoveElement
<1>8. Cardinality(T) = Cardinality(S)
  <2>1. ExistsBijection(S, T) BY <1>6 DEF ExistsBijection
  <2> QED BY <1>7, <2>1, FS_Bijection
<1>9. 1 \in Videos(q) <=> IsVideo(Head(q)) BY <1>1 DEF Videos
<1> QED BY <1>2, <1>7, <1>8, <1>9 DEF r

\* What separates the counter from the number of video frames in the cache.
Uncounted == IF vEnc = "count" THEN 1 ELSE 0
Sending   == IF InHand /\ IsVideo(hand) THEN 1 ELSE 0

\* The worker is about to give up: connect() or publish() has failed.
Failed ==
  \/ work = "ended" \/ call[Worker] \in {"resetSocket", "return"}
  \/ work \in {"connecting", "publishing"} /\ Idle(Worker) /\ ~ret[Worker]

Balanced == videoFrameCacheNumber = Cardinality(Videos(mFlvTagCache)) - Uncounted + Sending

\* The equation of CounterExact, from the start of the first run on.
CountOK == Undisturbed /\ ui \in {"starting", "live", "stopEncode"} /\ ~Failed => Balanced

LEMMA CountTypes ==
  ASSUME MuxTypeOK, TypeInv
  PROVE  {videoFrameCacheNumber, Cardinality(Videos(mFlvTagCache)), Uncounted, Sending} \subseteq Int
<1>1. mFlvTagCache \in Seq(Frame) /\ videoFrameCacheNumber \in Int BY DEF MuxTypeOK, TypeInv, TypeOK, FieldTypes
<1> QED BY <1>1, VideosFinite DEF Uncounted, Sending

\* A step that changes the four numbers by amounts that cancel out keeps the balance.
LEMMA Balance ==
  ASSUME NEW v \in Int, NEW n \in Int, NEW u \in Int, NEW s \in Int, v = n - u + s,
         NEW dn \in Int, NEW du \in Int, NEW ds \in Int,
         NEW v1, NEW n1, NEW u1, NEW s1,
         v1 = v + (dn - du + ds), n1 = n + dn, u1 = u + du, s1 = s + ds
  PROVE  v1 = n1 - u1 + s1
OBVIOUS

LEMMA BalanceKept ==
  ASSUME MuxTypeOK, TypeInv, Balanced,
         NEW dn \in {-1, 0, 1}, NEW du \in {-1, 0, 1}, NEW ds \in {-1, 0, 1},
         videoFrameCacheNumber' = videoFrameCacheNumber + (dn - du + ds),
         Cardinality(Videos(mFlvTagCache))' = Cardinality(Videos(mFlvTagCache)) + dn,
         Uncounted' = Uncounted + du, Sending' = Sending + ds
  PROVE  Balanced'
<1>1. /\ videoFrameCacheNumber \in Int /\ Cardinality(Videos(mFlvTagCache)) \in Int
      /\ Uncounted \in Int /\ Sending \in Int
  BY CountTypes
<1>2. videoFrameCacheNumber = Cardinality(Videos(mFlvTagCache)) - Uncounted + Sending BY DEF Balanced
<1>3. dn \in Int /\ du \in Int /\ ds \in Int OBVIOUS
<1> DEFINE v == videoFrameCacheNumber
           n == Cardinality(Videos(mFlvTagCache))
           u == Uncounted
           s == Sending
           v1 == videoFrameCacheNumber'
           n1 == Cardinality(Videos(mFlvTagCache))'
           u1 == Uncounted'
           s1 == Sending'
<1>4. v \in Int /\ n \in Int /\ u \in Int /\ s \in Int /\ v = n - u + s BY <1>1, <1>2
<1>5. v1 = v + (dn - du + ds) /\ n1 = n + dn /\ u1 = u + du /\ s1 = s + ds OBVIOUS
<1> HIDE DEF v, n, u, s, v1, n1, u1, s1
<1>6. v1 = n1 - u1 + s1 BY <1>3, <1>4, <1>5, Balance
<1> QED BY <1>6 DEF Balanced, v1, n1, u1, s1

\* The steps that change none of the four.
LEMMA BalanceUnchanged ==
  ASSUME Balanced, UNCHANGED <<videoFrameCacheNumber, mFlvTagCache, Uncounted, Sending>>
  PROVE  Balanced'
BY DEF Balanced, Videos, IsVideo

LEMMA CountNext ==
  ASSUME MuxTypeOK, TypeInv, EncodersOK, CacheOK, WorkerOK, DisconnectOK, LeftOver, NothingDropped,
         FirstRunOK, OpOK, PermittedOK, CountOK, [Next]_vars
  PROVE  CountOK'
<1> USE Threads DEF Media
<1>a. call \in [Caller -> Step] /\ mFlvTagCache \in Seq(Frame) BY DEF TypeInv, TypeOK, ThreadTypes, MuxTypeOK
<1>1. SUFFICES ASSUME Undisturbed', ui' \in {"starting", "live", "stopEncode"}, ~Failed' PROVE Balanced'
  BY DEF CountOK
<1>2. CASE Start /\ run = 0 /\ ~Disconnecting
  <2>1. ui = "stopped" /\ EncodersOff BY <1>2 DEF Start, EncodersOK
  <2>2. mFlvTagCache' = << >> /\ videoFrameCacheNumber' = 0 /\ vEnc' = "off" /\ work' = "connect"
    BY <1>2, <2>1, NothingLeft DEF Start, CleanAfterStop, flags, encoders, EncodersOff
  <2>3. Cardinality(Videos(mFlvTagCache))' = 0
    <3>1. Videos(<< >>) = {} BY DEF Videos
    <3> QED BY <2>2, <3>1, FS_EmptySet DEF Videos, IsVideo
  <2>4. Uncounted' = 0 /\ Sending' = 0 BY <2>2 DEF Uncounted, Sending, InHand
  <2> QED BY <2>2, <2>3, <2>4 DEF Balanced
<1>3. CASE Undisturbed /\ ~Start
  <2>1. late = "no" /\ work # "none" /\ ~Disconnecting /\ ui # "stopped"
    BY <1>3 DEF Undisturbed, DisconnectOK, WorkerOK
  <2>2. ASSUME ui \in {"starting", "live", "stopEncode"}, ~Failed PROVE Balanced BY <1>3, <2>2 DEF CountOK
  <2>3. CASE StopPublish \/ UiStep
    <3>1. StopPublish \/ StartEncode
      BY <1>1, <2>3 DEF UiStep, StopEncode, StopFlag, ClearCache, InterruptWorker, JoinWorker,
         ResetFlv, StartDisconnect
    <3>2. /\ UNCHANGED <<videoFrameCacheNumber, mFlvTagCache, call, ret, work, hand>>
          /\ ui \in {"starting", "live", "stopEncode"}
      BY <2>1, <3>1 DEF StopPublish, StartEncode, connVars, flags, threads
    <3>3. ~Failed /\ Sending' = Sending BY <1>1, <3>2 DEF Failed, Sending, InHand, IsVideo, Idle, At
    <3>4. Uncounted' = Uncounted
      BY <3>1 DEF StopPublish, StartEncode, EncodersOK, EncodersOff, Uncounted, encoders
    <3> QED BY <2>2, <3>2, <3>3, <3>4, BalanceUnchanged
  <2>4. CASE EncoderStep
    <3>1. UNCHANGED <<call, ret, work, hand, ui>>
      BY <2>4 DEF EncoderStep, EncodeVideo, AddVideo, CountVideo, EncodeAudio, AddAudio, connVars,
         threads
    <3>2. ~Failed /\ Sending' = Sending BY <1>1, <3>1 DEF Failed, Sending, InHand, IsVideo, Idle, At
    <3>3. Balanced BY <1>1, <2>2, <3>1, <3>2
    <3>4. CASE EncodeVideo \/ EncodeAudio
      <4>1. UNCHANGED <<videoFrameCacheNumber, mFlvTagCache>>
        BY <3>4 DEF EncodeVideo, EncodeAudio, connVars, flags
      <4>2. Uncounted' = Uncounted
        <5>1. CASE EncodeVideo
          <6>1. Emitted \subseteq VideoKind BY DEF Emitted, VideoKind, MuxTypeOK
          <6>2. vEnc = "ready" /\ \E k \in Emitted : vEnc' \in {k, "ready"} BY <5>1 DEF EncodeVideo
          <6>3. vEnc # "count" /\ vEnc' # "count" BY <6>1, <6>2 DEF VideoKind
          <6> QED BY <6>3 DEF Uncounted
        <5>2. CASE EncodeAudio BY <5>2 DEF EncodeAudio, Uncounted
        <5> QED BY <3>4, <5>1, <5>2
      <4> QED BY <3>2, <3>3, <4>1, <4>2, BalanceUnchanged
    <3>5. CASE AddVideo \/ AddAudio
      <4>1. PICK k \in Kind : /\ mFlvTagCache' = Append(mFlvTagCache, [kind |-> k, run |-> run])
                              /\ (AddVideo /\ k \in VideoKind) \/ (AddAudio /\ k \in AudioKind)
        BY <3>5 DEF AddVideo, AddAudio, Kind
      <4> DEFINE f == [kind |-> k, run |-> run]
      <4>2. f \in Frame BY DEF MuxTypeOK, Frame
      <4>3. IsVideo(f) <=> AddVideo
        <5>1. VideoKind \cap AudioKind = {} BY DEF VideoKind, AudioKind
        <5>2. ~(AddVideo /\ AddAudio) BY DEF AddVideo, AddAudio, VideoKind
        <5> QED BY <4>1, <5>1, <5>2 DEF IsVideo
      <4>4. Cardinality(Videos(Append(mFlvTagCache, f)))
              = Cardinality(Videos(mFlvTagCache)) + (IF IsVideo(f) THEN 1 ELSE 0)
        BY <1>a, <4>2, AppendVideos
      <4>5. Cardinality(Videos(mFlvTagCache))' = Cardinality(Videos(Append(mFlvTagCache, f)))
        BY <4>1 DEF Videos, IsVideo
      <4>6. UNCHANGED videoFrameCacheNumber /\ videoFrameCacheNumber \in Int
        BY <3>5 DEF AddVideo, AddAudio, connVars, flags, TypeInv, TypeOK, FieldTypes
      <4>7. Cardinality(Videos(mFlvTagCache)) \in Int /\ Uncounted \in Int /\ Sending \in Int BY CountTypes
      <4>8. CASE AddVideo
        <5>1. Uncounted' = Uncounted + 1 BY <4>8 DEF AddVideo, Uncounted, VideoKind
        <5>2. Cardinality(Videos(mFlvTagCache))' = Cardinality(Videos(mFlvTagCache)) + 1 BY <4>3, <4>4, <4>5, <4>8
        <5>3. videoFrameCacheNumber' = videoFrameCacheNumber + (1 - 1 + 0) BY <4>6
        <5>4. Sending' = Sending + 0 BY <3>2, <4>7
        <5> QED BY <3>3, <5>1, <5>2, <5>3, <5>4, BalanceKept
      <4>9. CASE ~AddVideo
        <5>1. Uncounted' = Uncounted BY <3>5, <4>9 DEF AddAudio, Uncounted
        <5>2. Cardinality(Videos(mFlvTagCache))' = Cardinality(Videos(mFlvTagCache)) + 0 BY <4>3, <4>4, <4>5, <4>9
        <5>3. videoFrameCacheNumber' = videoFrameCacheNumber + (0 - 0 + 0) BY <4>6
        <5>4. Sending' = Sending + 0 /\ Uncounted' = Uncounted + 0 BY <3>2, <4>7, <5>1
        <5> QED BY <3>3, <5>2, <5>3, <5>4, BalanceKept
      <4> QED BY <4>8, <4>9
    <3>6. CASE CountVideo
      <4>1. Cardinality(Videos(mFlvTagCache)) \in Int /\ Uncounted \in Int /\ Sending \in Int BY CountTypes
      <4>2. videoFrameCacheNumber' = videoFrameCacheNumber + (0 - (-1) + 0) BY <3>6 DEF CountVideo
      <4>3. Uncounted' = Uncounted + (-1) BY <3>6 DEF CountVideo, Uncounted
      <4>4. Cardinality(Videos(mFlvTagCache))' = Cardinality(Videos(mFlvTagCache)) + 0
        <5>1. mFlvTagCache' = mFlvTagCache BY <3>6 DEF CountVideo
        <5>2. Cardinality(Videos(mFlvTagCache))' = Cardinality(Videos(mFlvTagCache)) BY <5>1 DEF Videos, IsVideo
        <5> QED BY <4>1, <5>2
      <4>5. Sending' = Sending + 0 BY <3>2, <4>1
      <4> QED BY <3>3, <4>2, <4>3, <4>4, <4>5, BalanceKept
    <3> QED BY <2>4, <3>4, <3>5, <3>6 DEF EncoderStep
  <2>5. CASE WorkerStep
    <3>1. Idle(Worker) /\ UNCHANGED <<ui, vEnc, videoFrameCacheNumber>> /\ Uncounted' = Uncounted
      BY <2>5 DEF WorkerStep, WorkerConnect, WorkerConnected, WorkerPublish, WorkerPublished,
         WorkerLoop, WorkerPoll,
         WorkerSend, WorkerDrop, WorkerSent, WorkerWait, Work, WorkFrame, encoders, BeginConnect, BeginPublish,
         BeginMedia, WorkerOK, connVars, flags, Uncounted
    <3>2. ~Failed
      BY <1>1, <2>5, <3>1 DEF WorkerStep, WorkerConnect, WorkerConnected, WorkerPublish,
         WorkerPublished, WorkerLoop, WorkerPoll,
         WorkerSend, WorkerDrop, WorkerSent, WorkerWait, Work, Failed, Idle, At
    <3>3. Balanced BY <1>1, <2>2, <3>1, <3>2
    <3>4. ASSUME mFlvTagCache' = mFlvTagCache, ~InHand, ~InHand' PROVE Balanced'
      <4>1. Sending' = Sending BY <3>4 DEF Sending
      <4> QED BY <3>1, <3>3, <3>4, <4>1, BalanceUnchanged
    <3>5. CASE WorkerConnect \/ WorkerConnected \/ WorkerPublish \/ WorkerPublished
      BY <3>4, <3>5 DEF WorkerConnect, WorkerConnected, WorkerPublish, WorkerPublished, Work, InHand
    <3>6. CASE WorkerLoop \/ WorkerWait \/ (WorkerPoll /\ mFlvTagCache = << >>)
      BY <3>4, <3>6 DEF WorkerLoop, WorkerWait, WorkerPoll, Work, InHand
    <3>7. CASE WorkerSent BY <3>1, <3>4, <3>7 DEF WorkerSent, Work, InHand
    <3>8. ~WorkerDrop BY <2>1 DEF WorkerDrop, Work, NothingDropped
    <3>9. CASE WorkerSend
      <4>1. work = "dispatch" /\ work' = "sending" /\ UNCHANGED <<hand, mFlvTagCache>> BY <3>9 DEF WorkerSend, Work
      <4>2. MayPublish BY <1>3, <2>1, <4>1, PermittedMay DEF PermittedOK, Streaming, FirstRunOK
      <4>3. ~Idle(Worker)'
        BY <1>a, <3>9, <4>2 DEF WorkerSend, BeginMedia, Goto, Idle, At
      <4>4. Sending' = Sending BY <4>1, <4>3 DEF Sending, InHand, IsVideo
      <4> QED BY <3>1, <3>3, <4>1, <4>4, BalanceUnchanged
    <3>10. CASE WorkerPoll /\ mFlvTagCache # << >>
      <4> DEFINE x == IF IsVideo(Head(mFlvTagCache)) THEN 1 ELSE 0
      <4>1. /\ hand' = Head(mFlvTagCache) /\ mFlvTagCache' = Tail(mFlvTagCache)
            /\ work = "drain" /\ work' = "dispatch"
        BY <3>10 DEF WorkerPoll
      <4>2. Cardinality(Videos(Tail(mFlvTagCache))) = Cardinality(Videos(mFlvTagCache)) - x
        BY <1>a, <3>10, TailVideos
      <4>3. Cardinality(Videos(mFlvTagCache))' = Cardinality(Videos(Tail(mFlvTagCache)))
        BY <4>1 DEF Videos, IsVideo
      <4>4. Sending = 0 /\ Sending' = x BY <4>1 DEF Sending, InHand, IsVideo
      <4>5. Cardinality(Videos(mFlvTagCache)) \in Int /\ Uncounted \in Int /\ videoFrameCacheNumber \in Int
        BY CountTypes
      <4>6. x \in {0, 1} OBVIOUS
      <4> HIDE DEF x
      <4>7. -x \in {-1, 0, 1} /\ x \in {-1, 0, 1} BY <4>6
      <4>8. videoFrameCacheNumber' = videoFrameCacheNumber + ((-x) - 0 + x) BY <3>1, <4>5, <4>6
      <4>9. Cardinality(Videos(mFlvTagCache))' = Cardinality(Videos(mFlvTagCache)) + (-x) BY <4>2, <4>3, <4>5, <4>6
      <4>10. Uncounted' = Uncounted + 0 /\ Sending' = Sending + x BY <3>1, <4>4, <4>5, <4>6
      <4> QED BY <3>3, <4>7, <4>8, <4>9, <4>10, BalanceKept
    <3> QED BY <2>5, <3>5, <3>6, <3>7, <3>8, <3>9, <3>10 DEF WorkerStep
  <2>6. \A d \in Disconnector : ~DisconnectClose(d) /\ ~DisconnectClosed(d)
    BY <2>1 DEF DisconnectClose, DisconnectClosed, Disconnecting
  <2>7. CASE ConnectionStep
    <3>1. UNCHANGED <<mFlvTagCache, work, hand, ui, Uncounted>>
      BY <2>7 DEF ConnectionStep, muxVars, encoders, Uncounted
    <3>2. ASSUME NEW s \in Session, RxStep(s) \/ ServerStep(s) PROVE Balanced'
      <4>1. /\ UNCHANGED <<videoFrameCacheNumber, ret>> /\ (Idle(Worker)' <=> Idle(Worker))
            /\ call[Worker] \in {"resetSocket", "return"} => call'[Worker] = call[Worker]
        BY <3>2, OthersMove, OthersEffects
      <4>2. ~Failed /\ Sending' = Sending BY <1>1, <3>1, <4>1 DEF Failed, Sending, InHand, IsVideo
      <4> QED BY <1>1, <2>2, <3>1, <4>1, <4>2, BalanceUnchanged
    <3>3. ASSUME NEW t \in Caller, CallerStep(t) PROVE Balanced'
      <4>1. t = Worker /\ call[Worker] # "idle" BY <2>1, <3>3, WorkerCalls, CallerMoves DEF Idle, At
      <4>2. work \in {"connecting", "publishing", "sending"} BY <4>1 DEF WorkerOK, Idle, At
      <4>3. call[Worker] \notin {"resetSocket", "return"}
        <5>0. call[Worker] # "resetSocket" BY <1>1, <3>3, <4>1, CallerEffects DEF Failed
        <5>1. SUFFICES ASSUME call[Worker] = "return" PROVE FALSE BY <5>0
        <5>2. work \in {"connecting", "publishing"} BY <4>2, <5>1 DEF OpOK
        <5>3. ~connected /\ ~publishPermitted
          BY <1>3, <4>1, <5>1 DEF FirstRunOK, ConnInv, CallState, CallFacts, FlagsOfThisSession,
             None
        <5>4. \/ call'[Worker] = "return"
              \/ call'[Worker] = "idle" /\ ~ret'[Worker]
          BY <3>3, <4>1, <5>1, <5>2, <5>3, CallerEffects DEF OpOK
        <5> QED BY <1>1, <3>1, <5>2, <5>4 DEF Failed, Idle, At
      <4>4. ~Failed BY <4>1, <4>2, <4>3 DEF Failed, Idle, At
      <4>5. Balanced BY <1>1, <2>2, <3>1, <4>4
      <4>6. CASE call[Worker] \notin Media
        <5>1. work # "sending" BY <4>1, <4>6 DEF OpOK
        <5>2. call'[Worker] \notin {"resetSocket", "return"} BY <1>1 DEF Failed
        <5>3. UNCHANGED videoFrameCacheNumber BY <3>3, <4>1, <4>6, <5>2, CallerEffects
        <5>4. Sending' = Sending BY <3>1, <4>2, <5>1 DEF Sending, InHand
        <5> QED BY <3>1, <4>5, <5>3, <5>4, BalanceUnchanged
      <4>7. CASE call[Worker] \in Media
        <5>1. work = "sending" BY <4>7 DEF OpOK
        <5>2. IsVideo(hand) <=> call[Worker] = "sendVideo" BY <4>7 DEF OpOK
        <5>3. CASE call'[Worker] = call[Worker] /\ UNCHANGED videoFrameCacheNumber
          <6>1. Sending' = Sending BY <3>1, <5>3 DEF Sending, InHand, IsVideo, Idle, At
          <6> QED BY <3>1, <4>5, <5>3, <6>1, BalanceUnchanged
        <5>4. CASE call'[Worker] = "idle" /\ videoFrameCacheNumber' =
                      (IF call[Worker] = "sendVideo" THEN videoFrameCacheNumber - 1 ELSE videoFrameCacheNumber)
          <6> DEFINE x == IF call[Worker] = "sendVideo" THEN 1 ELSE 0
          <6>1. Sending = x /\ Sending' = 0 BY <3>1, <4>1, <5>1, <5>2, <5>4 DEF Sending, InHand, Idle, At
          <6>2. Cardinality(Videos(mFlvTagCache)) \in Int /\ Uncounted \in Int /\ videoFrameCacheNumber \in Int
            BY CountTypes
          <6>3. x \in {0, 1} OBVIOUS
          <6>4. videoFrameCacheNumber' = videoFrameCacheNumber - x BY <5>4, <6>2
          <6>5. Cardinality(Videos(mFlvTagCache))' = Cardinality(Videos(mFlvTagCache))
            BY <3>1 DEF Videos, IsVideo
          <6> HIDE DEF x
          <6>6. -x \in {-1, 0, 1} BY <6>3
          <6>7. videoFrameCacheNumber' = videoFrameCacheNumber + (0 - 0 + (-x)) BY <6>2, <6>3, <6>4
          <6>8. Sending' = Sending + (-x) BY <6>1, <6>3
          <6>9. Cardinality(Videos(mFlvTagCache))' = Cardinality(Videos(mFlvTagCache)) + 0 BY <6>2, <6>5
          <6>10. Uncounted' = Uncounted + 0 BY <3>1, <6>2
          <6> QED BY <4>5, <6>6, <6>7, <6>8, <6>9, <6>10, BalanceKept
        <5> QED BY <3>3, <4>1, <4>7, <5>3, <5>4, CallerEffects
      <4> QED BY <4>6, <4>7
    <3> QED BY <2>7, <3>2, <3>3 DEF ConnectionStep
  <2>8. CASE UNCHANGED vars
    <3>1. UNCHANGED <<call, ret, work, hand, ui, videoFrameCacheNumber, mFlvTagCache, vEnc>>
      BY <2>8 DEF vars, muxVars, connVars, threads, flags, encoders
    <3>2. ~Failed /\ Sending' = Sending /\ Uncounted' = Uncounted
      BY <1>1, <3>1 DEF Failed, Sending, Uncounted, InHand, IsVideo, Idle, At
    <3> QED BY <1>1, <2>2, <3>1, <3>2, BalanceUnchanged
  <2> QED BY <1>3, <2>3, <2>4, <2>5, <2>6, <2>7, <2>8 DEF Next
<1>4. ~(Undisturbed /\ Start) BY DEF Undisturbed, Start, WorkerOK
<1> QED BY <1>1, <1>2, <1>3, <1>4, UndisturbedBack

-----------------------------------------------------------------------------
(* The theorems.                                                            *)

\* The inductive invariant.
MuxInv ==
  /\ TypeInv /\ MuxTypeOK
  /\ EncodersOK /\ CacheOK /\ WorkerOK /\ NoRun /\ DisconnectOK /\ LeftOver
  /\ FlvOK /\ OrderOK /\ NothingDropped
  /\ FreshOK /\ FirstRunOK /\ OpOK /\ PermittedOK /\ CountOK

LEMMA MuxInvInit == ASSUME MuxInit PROVE MuxInv
<1> USE Threads
<1>1. /\ run = 0 /\ work = "none" /\ ui = "stopped" /\ vEnc = "off" /\ aEnc = "off"
      /\ mFlvTagCache = << >> /\ ~mVideoSequenceHeader /\ ~mAudioSequenceHeader
      /\ ~spsPpsSent /\ ~specificConfigGot
      /\ \A d \in Disconnector : disc[d] = "none"
  BY DEF MuxInit
<1>2. TypeInv /\ MuxTypeOK BY TypeInit, MuxTypeInit DEF MuxInit
<1>3. /\ \A t \in Caller : call[t] = "idle" /\ ~interrupted[t]
      /\ socket = None /\ videoFrameCacheNumber = 0
  BY DEF MuxInit, ConnInit
<1>4. EncodersOK /\ CacheOK BY <1>1 DEF EncodersOK, EncodersOff, CacheOK
<1>5. WorkerOK /\ NoRun /\ DisconnectOK /\ LeftOver
  BY <1>1, <1>3 DEF WorkerOK, NoRun, EncodersOff, DisconnectOK, LeftOver, StopStage, Idle, At
<1>6. FlvOK /\ OrderOK BY <1>1 DEF FlvOK, OrderOK, VideoKind, AudioKind
<1>7. NothingDropped BY <1>1, <1>3 DEF NothingDropped
<1>8. FreshOK BY <1>1, <1>3 DEF FreshOK, FreshCall, EncodersOff, MuxInit, ConnInit
<1>9. ~Undisturbed BY <1>1 DEF Undisturbed
<1>10. FirstRunOK /\ OpOK /\ PermittedOK /\ CountOK
  BY <1>1, <1>3, <1>9 DEF FirstRunOK, OpOK, PermittedOK, CountOK, Media
<1> QED BY <1>2, <1>4, <1>5, <1>6, <1>7, <1>8, <1>10 DEF MuxInv

LEMMA MuxInvNext == ASSUME MuxInv, [Next]_vars PROVE MuxInv'
<1> USE DEF MuxInv
<1>1. TypeInv' /\ MuxTypeOK' BY MuxConnTypes, MuxTypeNext
<1>2. EncodersOK' BY EncodersNext, MuxTypeParts
<1>3. CacheOK' /\ WorkerOK' /\ NoRun' /\ DisconnectOK' /\ FlvOK'
  BY CacheNext, WorkerNext, NoRunNext, DisconnectNext, FlvNext
<1>4. LeftOver' /\ OrderOK' /\ NothingDropped' BY LeftOverNext, OrderNext, DroppedNext
<1>5. FreshOK' BY FreshNext
<1>6. FirstRunOK' BY <1>1, FirstRunNext
<1>7. OpOK' /\ PermittedOK' /\ CountOK' BY OpNext, PermittedNext, CountNext
<1> QED BY <1>1, <1>2, <1>3, <1>4, <1>5, <1>6, <1>7

LEMMA MuxInvAlways == MuxSpec => []MuxInv
<1>1. MuxInit => MuxInv BY MuxInvInit
<1>2. MuxInv /\ [Next]_vars => MuxInv' BY MuxInvNext
<1> QED BY <1>1, <1>2, PTL DEF MuxSpec

\* Type correctness of the publisher: every thread is at one of its steps, and every frame in the
\* cache or in the worker's hand has one of the five kinds SrsFlv makes.
THEOREM MuxTypes == MuxSpec => []MuxTypeOK
<1>1. MuxInv => MuxTypeOK BY DEF MuxInv
<1> QED BY <1>1, MuxInvAlways, PTL

\* Started again, the muxer holds no frame of an earlier run: stopPublish() has joined the encoder
\* threads before stop() clears the cache, and stop() has joined the worker before it returns.
THEOREM NoStaleFramesHolds == MuxSpec => []NoStaleFrames
<1>1. MuxInv => NoStaleFrames BY DEF MuxInv, CacheOK, NoStaleFrames
<1> QED BY <1>1, MuxInvAlways, PTL

\* The worker never takes a frame from the cache whose sequence header it has not seen, although it
\* tests for one and would drop the frame: SrsFlv adds the header first, and both the encoder's memory
\* of it and the worker's are reset between two runs.  The exception is a run in which a disconnect
\* thread of the last one, met at its start, has cleared the headers (SrsFlvMuxer:97-98, 157-161).
THEOREM NothingDroppedHolds == MuxSpec => []NothingDropped
<1>1. MuxInv => NothingDropped BY DEF MuxInv
<1> QED BY <1>1, MuxInvAlways, PTL

\* When stop() has returned and the disconnect thread it started has ended, the cache is empty, the
\* counter of its video frames is 0, no sequence header is kept and the socket is closed.
THEOREM CleanAfterStopHolds == MuxSpec => []CleanAfterStop
<1>1. MuxInv => CleanAfterStop BY NothingLeft DEF MuxInv
<1> QED BY <1>1, MuxInvAlways, PTL

\* From the first start() until the worker has met the interrupt of stop(), the receive threads and the
\* worker never confuse two sessions and never leave the order of the protocol: the invariant of the
\* connection holds for the calls the muxer makes, with no assumption on its threads (a stopPublish()
\* before the run has no disconnect thread at work in it).
THEOREM FirstRunConnection == MuxSpec => [](Undisturbed => ConnInv)
<1>1. MuxInv => (Undisturbed => ConnInv) BY DEF MuxInv, FirstRunOK
<1> QED BY <1>1, MuxInvAlways, PTL

\* Before the first start() there is no session.
LEMMA FreshShows ==
  ASSUME FreshOK, run = 0
  PROVE  socket = None /\ Sent = {} /\ Told = {} /\ Heard = {} /\ ~Listening
<1>1. /\ socket = None /\ ~connected /\ ~publishPermitted /\ currentStreamId = None
      /\ \A s \in Session : rx[s] = "none"
  BY DEF FreshOK
<1> QED BY <1>1 DEF Sent, Told, Heard, Listening, Alive

\* The steps before the first run are invisible.
LEMMA FreshStep ==
  ASSUME MuxInv, MuxInv', run = 0, Next
  PROVE  UNCHANGED Publisher!publisherVars
<1>1. CASE run' = 0
  <2>1. FreshOK /\ FreshOK' BY DEF MuxInv
  <2>2. /\ socket = None /\ Sent = {} /\ Told = {} /\ Heard = {} /\ ~Listening
    BY <2>1, FreshShows
  <2>3. (socket = None /\ Sent = {} /\ Told = {} /\ Heard = {} /\ ~Listening)'
    BY <1>1, <2>1 DEF FreshOK, Sent, Told, Heard, Listening, Alive
  <2>4. Listening \in BOOLEAN /\ Listening' \in BOOLEAN BY DEF Listening
  <2> QED BY <2>2, <2>3, <2>4 DEF Publisher!publisherVars
<1>2. CASE run' # 0
  <2>1. Start BY <1>2, RunKept
  <2> QED BY <2>1, Invisible DEF Start, flags, fields, net, peer, rxs
<1> QED BY <1>1, <1>2

\* A step of the first run is one of the publisher, or invisible.
LEMMA FirstRunStep ==
  ASSUME MuxInv, Undisturbed, Next
  PROVE  [Publisher!PublisherNext]_(Publisher!publisherVars)
<1>1. /\ TypeInv /\ ConnInv /\ MuxTypeOK /\ WorkerOK /\ DisconnectOK /\ late = "no"
      /\ work = "connect" => socket = None
  BY DEF MuxInv, FirstRunOK, Undisturbed
<1>2. CASE UNCHANGED connVars \/ Flagged \/ Counted
  BY <1>2, Invisible DEF connVars, Flagged, Counted, flags, fields, net, peer, rxs
<1>3. CASE ConnectionStep
  BY <1>1, <1>3, PublisherCaller, PublisherRx, PublisherServer DEF ConnectionStep
<1>4. CASE WorkerConnect
  <2>1. \A u \in Caller : Idle(u) BY <1>1, <1>4, AllIdle DEF WorkerConnect, Work
  <2>2. socket = None /\ BeginConnect(Worker) BY <1>1, <1>4 DEF WorkerConnect, Work
  <2>3. Call(Worker) BY <2>1, <2>2 DEF Call
  <2> QED BY <1>1, <2>3, Threads, PublisherCall
<1>5. ASSUME NEW t \in Caller,
             BeginPublish(t) \/ BeginClose(t) \/ \E pc \in {"sendAudio", "sendVideo"} : BeginMedia(t, pc)
      PROVE  [Publisher!PublisherNext]_(Publisher!publisherVars)
  BY <1>5, Invisible DEF BeginPublish, BeginClose, BeginMedia, flags, fields, net, peer, rxs
<1>6. CASE WorkerPublish BY <1>5, <1>6, Threads DEF WorkerPublish
<1> QED BY <1>2, <1>3, <1>4, <1>5, <1>6, OwnStepOf

\* In the first run the muxer's threads are one publisher, as RtmpPublisher describes it, for any
\* frames, any answers of the server and any faults of the network (SrsFlvMuxer:91-130, 198-206).
THEOREM FirstRunIsPublisher == MuxSpec => FirstRunKeepsProtocol
<1>1. MuxInit => Publisher!PublisherInit
  BY DEF MuxInit, ConnInit, Publisher!PublisherInit, Sent, Told, Heard, Listening, Alive, Session, None
<1>2. MuxInv /\ MuxInv' /\ [Next]_vars =>
        [run = 0 \/ Undisturbed => Publisher!PublisherNext]_(Publisher!publisherVars)
  <2> SUFFICES ASSUME MuxInv, MuxInv', [Next]_vars, run = 0 \/ Undisturbed
               PROVE  [Publisher!PublisherNext]_(Publisher!publisherVars)
    OBVIOUS
  <2>1. CASE UNCHANGED vars
    BY <2>1, Invisible DEF vars, connVars, flags, fields, net, peer, rxs
  <2> QED BY <2>1, FreshStep, FirstRunStep
<1> QED BY <1>1, <1>2, MuxInvAlways, PTL DEF MuxSpec, FirstRunKeepsProtocol

-----------------------------------------------------------------------------
(* No crash in the first run: the register of commands is kept by the steps  *)
(* of the muxer, too.                                                        *)

\* The process is alive before the first run; in it the register is as NoCrash needs it.
RegisterOK == (run = 0 => ~crashed) /\ (Undisturbed => RegistryInv)

\* Before the first run nothing is registered or on its way.
LEMMA FreshRegistry ==
  ASSUME FreshOK, run = 0, ~crashed
  PROVE  RegistryInv
<1>1. \A s \in Session : Written(s) = {} /\ wire[s] = {} /\ rx[s] = "none" /\ inbox[s] = << >>
  BY DEF Written, FreshOK
<1>2. /\ \A t \in Caller : call[t] \in FreshCall
      /\ invoked = {} /\ ~publishPermitted
  BY DEF FreshOK
<1>3. ControlSent /\ NotYetSent BY <1>1, <1>2 DEF ControlSent, OnTheWay, NotYetSent, FreshCall, Connecting, Creating
<1>4. CreatedOnce BY <1>1, <1>2 DEF CreatedOnce, Flushes, FreshCall
<1>5. BothRegistered
  <2>1. Registered("connect", "connectResult", "flushConnect")
    BY <1>1 DEF Registered, OnTheWay, AtMostOnce
  <2>2. Registered("createStream", "createResult", "flushCreate")
    BY <1>1 DEF Registered, OnTheWay, AtMostOnce
  <2> QED BY <2>1, <2>2 DEF BothRegistered
<1>6. Published BY <1>1, <1>2 DEF Published, OnTheWay, AtMostOnce
<1>7. OpenHasSocket /\ NoCrash BY <1>2 DEF OpenHasSocket, NoCrash, FreshCall
<1> QED BY <1>3, <1>4, <1>5, <1>6, <1>7 DEF RegistryInv, Registry

\* Nothing that happens before the first run ends the process.
LEMMA FreshAlive ==
  ASSUME MuxInv, run = 0, ~crashed, [Next]_vars
  PROVE  ~crashed'
<1>1. /\ \A s \in Session : rx[s] = "none"
      /\ \A t \in Caller : call[t] \in FreshCall
  BY DEF MuxInv, FreshOK
<1>2. CASE UNCHANGED connVars \/ Flagged \/ Counted
  BY <1>2 DEF connVars, Flagged, Counted
<1>3. ASSUME NEW t \in Caller, Begun(t) PROVE ~crashed'
  BY <1>3 DEF Begun, BeginConnect, BeginPublish, BeginClose, BeginMedia
<1>4. CASE ConnectionStep
  <2>1. ASSUME NEW s \in Session, RxStep(s) \/ ServerStep(s) PROVE ~crashed'
    BY <1>1, <2>1 DEF RxStep, RxAt, RxExit, RxRead, RxControl, RxConnectResult, RxNotifyConnect, RxCreateResult,
       RxFmlePublish, RxPublishStart, RxPermit, RxNotifyPublish, RxNullPointer, ServerStep, ServerAnswer,
       ServerControl, LinkLost
  <2>2. ASSUME NEW t \in Caller, CallerStep(t) PROVE ~crashed'
    BY <1>1, <2>2 DEF CallerStep, At, OpenSocket, OpenFails, StartRx, RtmpConnect, FlushConnect,
       CheckConnected, SendCreateStream, FlushCreateStream, CheckPermitted, SendAudio, SendVideo,
       CloseStream, ShutdownSocket, InterruptRx, JoinRx, CloseSocket, Reset, ResetSocket, ReturnFlag,
       NullPointer, Wait, Timeout, WaitInterrupted, FreshCall
  <2> QED BY <1>4, <2>1, <2>2 DEF ConnectionStep
<1> QED BY <1>2, <1>3, <1>4, OwnStep DEF vars

\* What the register is about, but for the threads.
Books == <<socket, buffer, wire, answered, inbox, controls, invoked, connected, publishPermitted,
           currentStreamId, crashed>>

\* A step that begins no command and writes nothing keeps the register.
LEMMA RegistryQuiet ==
  ASSUME RegistryInv, ~crashed, Later, UNCHANGED <<Books, rx>>
  PROVE  RegistryInv'
<1>0. NoAnswer BY DEF NoAnswer, Books
<1>1. Registry' BY <1>0, QuietRegistry DEF RegistryInv, Books
<1>2. Published'
  <2>1. Grows({}) BY NothingGrows DEF Books
  <2> QED BY <2>1, QuietPublished DEF RegistryInv, Books
<1>3. OpenHasSocket' BY DEF RegistryInv, OpenHasSocket, Later, Early, Connecting, Books
<1>4. NoCrash' BY DEF NoCrash, Books
<1> QED BY <1>1, <1>2, <1>3, <1>4 DEF RegistryInv

\* A stutter keeps it, also after a crash.
LEMMA RegistrySame ==
  ASSUME RegistryInv, UNCHANGED <<Books, rx, call>>
  PROVE  RegistryInv'
<1>1. CASE ~crashed
  <2>1. Later BY DEF Later
  <2> QED BY <1>1, <2>1, RegistryQuiet
<1>2. CASE crashed
  <2>1. Later /\ NoAnswer BY DEF Later, NoAnswer
  <2>2. Registry' BY <2>1, QuietRegistry DEF RegistryInv, Books
  <2>3. Published'
    <3>1. Grows({}) BY NothingGrows DEF Books
    <3> QED BY <3>1, QuietPublished DEF RegistryInv, Books
  <2>4. OpenHasSocket' /\ NoCrash'
    BY DEF RegistryInv, OpenHasSocket, NoCrash, Overtaken, At, Books
  <2> QED BY <2>2, <2>3, <2>4 DEF RegistryInv
<1> QED BY <1>1, <1>2

\* A step of the connection's threads, the server and the network, or the beginning of a call.
LEMMA RegistryStep ==
  ASSUME TypeInv, TypeInv', ConnInv, RegistryInv, ~crashed,
         \/ \E t \in Caller : Call(t) \/ CallerStep(t)
         \/ \E s \in Session : RxStep(s) \/ ServerStep(s)
  PROVE  RegistryInv'
<1>1. ConnNext BY DEF ConnNext
<1>2. OpenHasSocket' /\ NoCrash' BY <1>1, OpenStep, CrashStep DEF RegistryInv
<1>3. Registry' BY BeginRegistry, CallerRegistry, RxRegistry, ServerRegistry DEF RegistryInv
<1>4. Published' BY <1>1, PublishedNext DEF RegistryInv
<1> QED BY <1>2, <1>3, <1>4 DEF RegistryInv

LEMMA RegisterNext == ASSUME MuxInv, MuxInv', RegisterOK, [Next]_vars PROVE RegisterOK'
<1>1. MuxTypeOK /\ WorkerOK /\ DisconnectOK /\ TypeInv /\ TypeInv' BY DEF MuxInv
<1>2. CASE run' = 0
  <2>1. run = 0
    <3>1. run \in Nat BY <1>1 DEF MuxTypeOK
    <3>2. Start => run' = run + 1 BY DEF Start
    <3>3. ~Start BY <1>2, <3>1, <3>2
    <3> QED BY <1>2, <3>3, RunKept
  <2> QED BY <1>2, <2>1, FreshAlive DEF RegisterOK, Undisturbed
<1>3. CASE run' # 0 /\ Undisturbed'
  <2>1. CASE Start /\ run = 0
    <3>1. RegistryInv /\ ~crashed BY <2>1, FreshRegistry DEF RegisterOK, MuxInv
    <3>2. UNCHANGED <<Books, rx, call>>
      BY <2>1 DEF Start, flags, fields, net, peer, rxs, Books
    <3>3. Later BY <3>2 DEF Later
    <3> QED BY <1>3, <3>1, <3>2, <3>3, RegistryQuiet DEF RegisterOK
  <2>2. CASE Undisturbed
    <3> SUFFICES RegistryInv' BY <1>3 DEF RegisterOK
    <3>1. RegistryInv /\ ConnInv /\ (work = "connect" => socket = None) /\ late = "no"
      BY <2>2 DEF RegisterOK, MuxInv, FirstRunOK, Undisturbed
    <3>2. ASSUME ~crashed, Later, UNCHANGED <<Books, rx>> PROVE RegistryInv'
      BY <3>1, <3>2, RegistryQuiet
    <3>3. CASE ~crashed /\ (UNCHANGED connVars \/ Flagged \/ Counted)
      <4>1. UNCHANGED <<Books, rx, call>>
        BY <3>3 DEF connVars, Flagged, Counted, flags, fields, net, peer, threads, rxs, Books
      <4>2. Later BY <4>1 DEF Later
      <4> QED BY <3>2, <3>3, <4>1, <4>2
    <3>4. ASSUME ~crashed, NEW t \in Caller, Call(t) \/ CallerStep(t) PROVE RegistryInv'
      <4>1. \E u \in Caller : Call(u) \/ CallerStep(u) BY <3>4
      <4> QED BY <1>1, <3>1, <3>4, <4>1, RegistryStep
    <3>5. ASSUME ~crashed, NEW s \in Session, RxStep(s) \/ ServerStep(s) PROVE RegistryInv'
      <4>1. \E u \in Session : RxStep(u) \/ ServerStep(u) BY <3>5
      <4> QED BY <1>1, <3>1, <3>5, <4>1, RegistryStep
    <3>6. CASE ~crashed /\ ConnectionStep
      BY <3>6, <3>4, <3>5 DEF ConnectionStep
    <3>7. CASE ~crashed /\ WorkerConnect
      <4>1. \A u \in Caller : Idle(u) BY <1>1, <3>1, <3>7, AllIdle DEF WorkerConnect, Work
      <4>2. Call(Worker) BY <3>1, <3>7, <4>1 DEF Call, WorkerConnect, Work
      <4> QED BY <3>7, <3>4, <4>2, Threads
    <3>8. ASSUME ~crashed, NEW t \in Caller,
                 BeginClose(t) \/ \E pc \in {"sendAudio", "sendVideo"} : BeginMedia(t, pc)
          PROVE  RegistryInv'
      <4>1. UNCHANGED <<Books, rx>>
        BY <3>8 DEF BeginClose, BeginMedia, flags, fields, net, peer, rxs, Books
      <4>2. \A u \in Caller : call'[u] = call[u] \/ (call[u] = "idle" /\ call'[u] \notin Early)
        BY <1>1, <3>8 DEF BeginClose, BeginMedia, Begin, Goto, Idle, At, Early, Connecting, Creating, TypeInv,
           TypeOK, ThreadTypes
      <4>3. Later BY <4>2 DEF Later, PublishSteps
      <4> QED BY <3>2, <3>8, <4>1, <4>3
    <3>9. CASE ~crashed /\ WorkerPublish
      <4>1. \A u \in Caller : Idle(u) BY <1>1, <3>1, <3>9, AllIdle DEF WorkerPublish, Work
      <4>2. BeginPublish(Worker) BY <3>9 DEF WorkerPublish
      <4>3. CASE connected
        <5>1. socket # None BY <3>1, <4>3 DEF ConnInv, FlagsOfThisSession
        <5>2. Call(Worker) BY <4>1, <4>2, <5>1 DEF Call
        <5> QED BY <3>9, <3>4, <5>2, Threads
      <4>4. CASE ~connected
        <5>1. UNCHANGED <<Books, rx, call>>
          BY <1>1, <4>1, <4>2, <4>4, Threads DEF BeginPublish, Return, Goto, Idle, At, flags, fields, net, peer, rxs,
             TypeInv, TypeOK, ThreadTypes, Books
        <5>2. Later BY <5>1 DEF Later
        <5> QED BY <3>2, <3>9, <5>1, <5>2
      <4> QED BY <4>3, <4>4
    <3>10. CASE UNCHANGED vars
      <4>1. UNCHANGED <<Books, rx, call>>
        BY <3>10 DEF vars, connVars, flags, fields, net, peer, threads, rxs, Books
      <4> QED BY <3>1, <4>1, RegistrySame
    <3>11. CASE Next
      <4>1. ~crashed BY <3>11 DEF Next
      <4> QED BY <3>3, <3>6, <3>7, <3>8, <3>9, <3>11, <4>1, OwnStepOf
    <3> QED BY <3>10, <3>11
  <2> QED BY <1>1, <1>3, <2>1, <2>2, UndisturbedBack
<1> QED BY <1>2, <1>3 DEF RegisterOK, Undisturbed

\* In the first run, until the worker has met the interrupt of stop(), no thread meets a field that
\* was reset, nor a result without its command, unless the receive thread has flushed that command
\* with its reply to a control message and the result is there before the worker has registered it
\* (RtmpConnection:379, 493-501, 594; SrsFlvMuxer:187).
THEOREM FirstRunNoCrashHolds == MuxSpec => []FirstRunNoCrash
<1>1. MuxInit => RegisterOK BY DEF MuxInit, ConnInit, RegisterOK, Undisturbed
<1>2. MuxInv /\ MuxInv' /\ RegisterOK /\ [Next]_vars => RegisterOK' BY RegisterNext
<1>3. RegisterOK => FirstRunNoCrash BY DEF RegisterOK, FirstRunNoCrash, RegistryInv, NoCrash
<1> QED BY <1>1, <1>2, <1>3, MuxInvAlways, PTL DEF MuxSpec

\* In the first run, begun beside no disconnect thread, videoFrameCacheNumber counts the video
\* frames that are in the cache or being sent, whatever the encoders, the worker and the receive
\* thread do at the same time: flvTagCacheAdd() and sendVideo() keep it up to one addition.
THEOREM CounterExactHolds == MuxSpec => []CounterExact
<1>1. ASSUME MuxInv, run = 1, late = "no", Streaming, ui \in {"live", "stopEncode"} PROVE Balanced
  <2>1. work # "none" BY <1>1 DEF Streaming
  <2>2. Undisturbed BY <1>1, <2>1 DEF Undisturbed
  <2>3. call[Worker] \notin {"resetSocket", "return"}
    BY <1>1 DEF MuxInv, WorkerOK, OpOK, Streaming, Media, Idle, At
  <2>4. ~Failed BY <1>1, <2>3 DEF Failed, Streaming
  <2> QED BY <1>1, <2>2, <2>4 DEF MuxInv, CountOK
<1>2. InCache = Cardinality(Videos(mFlvTagCache)) BY DEF InCache, Videos
<1>3. MuxInv => CounterExact
  BY <1>1, <1>2 DEF CounterExact, Balanced, Uncounted, Sending
<1> QED BY <1>3, MuxInvAlways, PTL
=============================================================================
