---------------------------- MODULE SrsFlvMuxer ----------------------------
(***************************************************************************)
(* Live publishing: the UI thread that starts and stops SrsPublisher, the  *)
(* two encoder threads, SrsFlvMuxer with its frame cache and its worker    *)
(* thread, and the threads stop() starts to disconnect, all of them on the *)
(* one RtmpConnection of the module this one extends.                      *)
(*                                                                         *)
(* The worker and the disconnect threads call RtmpConnection, so they are  *)
(* its Caller threads; their own code is work and disc.  A frame is its    *)
(* kind and the number of the start() it was encoded after.  Both          *)
(* h264_pps, which equals the codec's PPS, and h264_sps_pps_sent are set   *)
(* by the first sequence header and cleared by SrsFlv.reset(), so          *)
(* spsPpsSent stands for the two.  With sendAudioOnly no picture is        *)
(* encoded: a run in which the encoder has none to give.                   *)
(***************************************************************************)
EXTENDS RtmpConnection, FiniteSets

CONSTANTS
  Worker,        \* the worker thread; stop() joins it before start() makes the next one
  Disconnector,  \* the threads stop() starts; their number bounds the stops
  GOP,           \* SrsEncoder.vGOP, the limit of videoFrameCacheNumber
  MaxFrames      \* bound: frames the encoders produce after one start()

ASSUME MuxerAssumption ==
  /\ Worker \notin Disconnector
  /\ Caller = {Worker} \cup Disconnector
  /\ Interruptible = {Worker}
  /\ GOP \in Nat \ {0}
  /\ MaxFrames \in Nat

VideoKind == {"videoHeader", "keyFrame", "interFrame"}
AudioKind == {"audioHeader", "audioRaw"}
Kind      == VideoKind \cup AudioKind

VARIABLES
  started, mFlvTagCache,
  mVideoSequenceHeader, mAudioSequenceHeader,  \* is the field set?
  needToFindKeyFrame, spsPpsSent, specificConfigGot,
  work, hand,        \* next step of the worker, and the frame it took from the cache
  disc,              \* next step of every disconnect thread
  ui,                \* next step of the UI thread
  codec,             \* what the video codec emits next
  vEnc, aEnc,        \* next step of the encoder threads; a Kind when adding such a frame
  run, frames,       \* how often start() was called, and frames encoded since
  late               \* history, read by no step: has the run begun beside a disconnect thread
                     \* of the last one, and has that thread cleared the sequence headers since?

flv      == <<needToFindKeyFrame, spsPpsSent, specificConfigGot>>
headers  == <<mVideoSequenceHeader, mAudioSequenceHeader>>
encoders == <<codec, vEnc, aEnc, frames>>
muxVars  == <<started, mFlvTagCache, headers, flv, work, hand, disc, ui, encoders, run, late>>
vars     == <<connVars, muxVars>>

Frame   == [kind : Kind, run : Nat]
NoFrame == [kind |-> "audioRaw", run |-> 0]

MuxTypeOK ==
  /\ started \in BOOLEAN
  /\ mFlvTagCache \in Seq(Frame)
  /\ mVideoSequenceHeader \in BOOLEAN
  /\ mAudioSequenceHeader \in BOOLEAN
  /\ needToFindKeyFrame \in BOOLEAN
  /\ spsPpsSent \in BOOLEAN
  /\ specificConfigGot \in BOOLEAN
  /\ work \in {"none", "connect", "connecting", "publish", "publishing", "loop", "drain",
               "dispatch", "sending", "wait", "ended"}
  /\ hand \in Frame
  /\ disc \in [Disconnector -> {"none", "close", "closing", "ended"}]
  /\ ui \in {"stopped", "starting", "live", "stopEncode", "stopFlag", "clearCache",
             "interrupt", "join", "resetFlv", "disconnect"}
  /\ codec \in {"config", "idr", "picture"}
  /\ vEnc \in VideoKind \cup {"off", "ready", "count"}
  /\ aEnc \in AudioKind \cup {"off", "ready"}
  /\ run \in Nat
  /\ frames \in Nat
  /\ late \in {"no", "met", "cleared"}

MuxInit ==
  /\ ConnInit
  /\ started = FALSE
  /\ mFlvTagCache = << >>
  /\ mVideoSequenceHeader = FALSE /\ mAudioSequenceHeader = FALSE
  /\ needToFindKeyFrame = TRUE /\ spsPpsSent = FALSE /\ specificConfigGot = FALSE
  /\ work = "none"
  /\ hand = NoFrame
  /\ disc = [d \in Disconnector |-> "none"]
  /\ ui = "stopped"
  /\ codec = "config"
  /\ vEnc = "off" /\ aEnc = "off"
  /\ run = 0 /\ frames = 0
  /\ late = "no"

IsVideo(f) == f.kind \in VideoKind

-----------------------------------------------------------------------------
(* The UI thread: startPublish() and stopPublish().                         *)

Disconnecting == \E d \in Disconnector : disc[d] \in {"close", "closing"}

\* SrsFlvMuxer.start(), which does not wait for the disconnect thread of the last stop().
Start ==
  /\ ui = "stopped"
  /\ sockets < MaxSession
  /\ started' = TRUE
  /\ run' = run + 1
  /\ late' = IF Disconnecting THEN "met" ELSE "no"
  /\ work' = "connect"
  /\ SetInterrupted(Worker, FALSE)
  /\ ui' = "starting"
  /\ UNCHANGED <<call, op, ret, joining, flags, fields, invoked, net, rxs, crashed,
                 mFlvTagCache, headers, flv, hand, disc, encoders>>

StartEncode ==
  /\ ui = "starting"
  /\ vEnc' = "ready" /\ aEnc' = "ready"
  /\ ui' = "live"
  /\ UNCHANGED <<connVars, started, mFlvTagCache, headers, flv, work, hand, disc, codec, frames, run,
                 late>>

\* stopPublish(), also called again after every exception the UI is told of.
StopPublish ==
  /\ ui \in {"live", "stopped"}
  /\ \E d \in Disconnector : disc[d] = "none"
  /\ ui' = "stopEncode"
  /\ UNCHANGED <<connVars, started, mFlvTagCache, headers, flv, work, hand, disc, encoders, run, late>>

\* stopPreview() and stopAudio() join the encoder threads; mEncoder.stop() releases the codecs, and
\* the next start() makes new ones.
StopEncode ==
  /\ ui = "stopEncode"
  /\ vEnc \in {"off", "ready"} /\ aEnc \in {"off", "ready"}
  /\ vEnc' = "off" /\ aEnc' = "off"
  /\ codec' = "config" /\ frames' = 0
  /\ ui' = "stopFlag"
  /\ UNCHANGED <<connVars, started, mFlvTagCache, headers, flv, work, hand, disc, run, late>>

StopFlag ==
  /\ ui = "stopFlag"
  /\ started' = FALSE
  /\ ui' = "clearCache"
  /\ UNCHANGED <<connVars, mFlvTagCache, headers, flv, work, hand, disc, encoders, run, late>>

\* Mutant: the frames of the ended run stay in the cache.
KeepCache ==
  /\ ui = "clearCache"
  /\ ui' = IF work = "none" THEN "resetFlv" ELSE "interrupt"
  /\ UNCHANGED <<connVars, started, mFlvTagCache, headers, flv, work, hand, disc, encoders, run, late>>

ClearCache ==
  /\ ui = "clearCache"
  /\ mFlvTagCache' = << >>
  /\ ui' = IF work = "none" THEN "resetFlv" ELSE "interrupt"
  /\ UNCHANGED <<connVars, started, headers, flv, work, hand, disc, encoders, run, late>>

InterruptWorker ==
  /\ ui = "interrupt"
  /\ interrupted' = [interrupted EXCEPT ![Worker] = (work # "ended")]
  /\ ui' = "join"
  /\ UNCHANGED <<call, op, ret, joining, flags, fields, invoked, net, rxs, crashed,
                 started, mFlvTagCache, headers, flv, work, hand, disc, encoders, run, late>>

JoinWorker ==
  /\ ui = "join"
  /\ work = "ended"
  /\ work' = "none"
  /\ ui' = "resetFlv"
  /\ UNCHANGED <<connVars, started, mFlvTagCache, headers, flv, hand, disc, encoders, run, late>>

\* Mutant: the audio configuration counts as sent in the next run.
KeepSpecificConfig ==
  /\ spsPpsSent' = FALSE /\ needToFindKeyFrame' = TRUE
  /\ UNCHANGED specificConfigGot

\* SrsFlv.reset()
ForgetHeaders ==
  /\ spsPpsSent' = FALSE /\ specificConfigGot' = FALSE
  /\ needToFindKeyFrame' = TRUE

ResetFlv ==
  /\ ui = "resetFlv"
  /\ ForgetHeaders
  /\ ui' = "disconnect"
  /\ UNCHANGED <<connVars, started, mFlvTagCache, headers, work, hand, disc, encoders, run, late>>

StartDisconnect ==
  /\ ui = "disconnect"
  /\ LET d == CHOOSE d \in Disconnector : disc[d] = "none"
     IN  disc' = [disc EXCEPT ![d] = "close"]
  /\ ui' = "stopped"
  /\ UNCHANGED <<connVars, started, mFlvTagCache, headers, flv, work, hand, encoders, run, late>>

-----------------------------------------------------------------------------
(* The encoder threads: SrsEncoder's throttle, then SrsFlv.                  *)

Throttled == videoFrameCacheNumber >= GOP

\* The codec emits its configuration, a key frame, and then any pictures.
Emitted ==
  CASE codec = "config"  -> {"videoHeader"}
    [] codec = "idr"     -> {"keyFrame"}
    [] codec = "picture" -> {"keyFrame", "interFrame"}

\* writeVideoSample() up to the test of started in flvTagCacheAdd().  SrsEncoder tests the throttle
\* once for a picture it feeds the codec and then writes all that the codec has to give (464); here it
\* is tested for each of these frames.
EncodeVideo ==
  /\ vEnc = "ready" /\ ~Throttled /\ frames < MaxFrames
  /\ frames' = frames + 1
  /\ codec' = IF codec = "config" THEN "idr" ELSE "picture"
  /\ \E k \in Emitted :
       LET writes == IF k = "videoHeader" THEN ~spsPpsSent ELSE spsPpsSent
           passes == writes /\ (k \in {"videoHeader", "keyFrame"} \/ ~needToFindKeyFrame)
       IN  /\ spsPpsSent' = (spsPpsSent \/ k = "videoHeader")
           /\ needToFindKeyFrame' = (needToFindKeyFrame /\ ~passes)
           /\ vEnc' = IF passes /\ started THEN k ELSE "ready"
  /\ UNCHANGED <<connVars, started, mFlvTagCache, headers, specificConfigGot, work, hand, disc, ui,
                 aEnc, run, late>>

AddVideo ==
  /\ vEnc \in VideoKind
  /\ mFlvTagCache' = Append(mFlvTagCache, [kind |-> vEnc, run |-> run])
  /\ vEnc' = "count"
  /\ UNCHANGED <<connVars, started, headers, flv, work, hand, disc, ui, codec, aEnc,
                 frames, run, late>>

CountVideo ==
  /\ vEnc = "count"
  /\ videoFrameCacheNumber' = videoFrameCacheNumber + 1
  /\ vEnc' = "ready"
  /\ UNCHANGED <<connected, publishPermitted, currentStreamId, fields, invoked, net, threads, rxs,
                 crashed, started, mFlvTagCache, headers, flv, work, hand, disc, ui, codec, aEnc, frames, run, late>>

EncodeAudio ==
  /\ aEnc = "ready" /\ ~Throttled /\ frames < MaxFrames
  /\ frames' = frames + 1
  /\ aEnc' = CASE ~started -> "ready"
                [] started /\ specificConfigGot -> "audioRaw"
                [] started /\ ~specificConfigGot -> "audioHeader"
  /\ specificConfigGot' = TRUE
  /\ UNCHANGED <<connVars, started, mFlvTagCache, headers, needToFindKeyFrame, spsPpsSent, work,
                 hand, disc, ui, codec, vEnc, run, late>>

AddAudio ==
  /\ aEnc \in AudioKind
  /\ mFlvTagCache' = Append(mFlvTagCache, [kind |-> aEnc, run |-> run])
  /\ aEnc' = "ready"
  /\ UNCHANGED <<connVars, started, headers, flv, work, hand, disc, ui, codec, vEnc,
                 frames, run, late>>

-----------------------------------------------------------------------------
(* The worker thread.                                                       *)

Work(from, to) == work = from /\ work' = to
WorkFrame == <<started, flv, disc, ui, encoders, run, late>>

\* A URL that connect() does not take (RtmpConnection 113-121) ends the worker as a refused connection
\* does, and is left out.
WorkerConnect ==
  /\ Work("connect", "connecting")
  /\ BeginConnect(Worker)
  /\ UNCHANGED <<WorkFrame, mFlvTagCache, headers, hand>>

\* connect() of the muxer: publish("live") follows a successful connect(); the sequence
\* headers of an earlier run are forgotten either way.
WorkerConnected ==
  /\ work = "connecting" /\ Idle(Worker)
  /\ \/ ret[Worker] /\ work' = "publish" /\ UNCHANGED headers
     \/ ~ret[Worker] /\ work' = "ended" /\ mVideoSequenceHeader' = FALSE /\ mAudioSequenceHeader' = FALSE
  /\ UNCHANGED <<connVars, WorkFrame, mFlvTagCache, hand>>

WorkerPublish ==
  /\ Work("publish", "publishing")
  /\ BeginPublish(Worker)
  /\ UNCHANGED <<WorkFrame, mFlvTagCache, headers, hand>>

WorkerPublished ==
  /\ work = "publishing" /\ Idle(Worker)
  /\ work' = IF ret[Worker] THEN "loop" ELSE "ended"
  /\ mVideoSequenceHeader' = FALSE /\ mAudioSequenceHeader' = FALSE
  /\ UNCHANGED <<connVars, WorkFrame, mFlvTagCache, hand>>

Interrupted == interrupted[Worker]

\* while (!Thread.interrupted())
WorkerLoop ==
  /\ work = "loop"
  /\ work' = IF Interrupted THEN "ended" ELSE "drain"
  /\ SetInterrupted(Worker, FALSE)
  /\ UNCHANGED <<call, op, ret, joining, flags, fields, invoked, net, rxs, crashed, WorkFrame,
                 mFlvTagCache, headers, hand>>

WorkerPoll ==
  /\ work = "drain"
  /\ \/ /\ mFlvTagCache = << >>
        /\ work' = "wait"
        /\ UNCHANGED <<mFlvTagCache, hand>>
     \/ /\ mFlvTagCache # << >>
        /\ hand' = Head(mFlvTagCache)
        /\ mFlvTagCache' = Tail(mFlvTagCache)
        /\ work' = "dispatch"
  /\ UNCHANGED <<connVars, WorkFrame, headers>>

HasHeader == IF IsVideo(hand) THEN mVideoSequenceHeader ELSE mAudioSequenceHeader

\* A sequence header is kept and sent; another frame is sent only after one, and else dropped.
WorkerSend ==
  /\ Work("dispatch", "sending")
  /\ hand.kind \in {"videoHeader", "audioHeader"} \/ HasHeader
  /\ mVideoSequenceHeader' = (mVideoSequenceHeader \/ hand.kind = "videoHeader")
  /\ mAudioSequenceHeader' = (mAudioSequenceHeader \/ hand.kind = "audioHeader")
  /\ BeginMedia(Worker, IF IsVideo(hand) THEN "sendVideo" ELSE "sendAudio")
  /\ UNCHANGED <<WorkFrame, mFlvTagCache, hand>>

WorkerDrop ==
  /\ Work("dispatch", "drain")
  /\ hand.kind \notin {"videoHeader", "audioHeader"} /\ ~HasHeader
  /\ hand' = NoFrame
  /\ UNCHANGED <<connVars, WorkFrame, mFlvTagCache, headers>>

WorkerSent ==
  /\ Work("sending", "drain")
  /\ Idle(Worker)
  /\ hand' = NoFrame
  /\ UNCHANGED <<connVars, WorkFrame, mFlvTagCache, headers>>

\* Mutant: the interrupt that ends the wait is forgotten.
WaitForgets ==
  /\ Work("wait", "loop")
  /\ SetInterrupted(Worker, FALSE)
  /\ UNCHANGED <<call, op, ret, joining, flags, fields, invoked, net, rxs, crashed, WorkFrame,
                 mFlvTagCache, headers, hand>>

\* txFrameLock.wait(500): a notification, the timeout, or an interrupt that is set again.
WorkerWait ==
  /\ Work("wait", "loop")
  /\ UNCHANGED <<connVars, WorkFrame, mFlvTagCache, headers, hand>>

WorkerStep ==
  \/ WorkerConnect \/ WorkerConnected \/ WorkerPublish \/ WorkerPublished
  \/ WorkerLoop \/ WorkerPoll \/ WorkerSend \/ WorkerDrop \/ WorkerSent \/ WorkerWait

-----------------------------------------------------------------------------
(* A disconnect thread.                                                     *)

DisconnectClose(d) ==
  /\ disc[d] = "close"
  /\ BeginClose(d)
  /\ disc' = [disc EXCEPT ![d] = "closing"]
  /\ UNCHANGED <<started, mFlvTagCache, headers, flv, work, hand, ui, encoders, run, late>>

DisconnectClosed(d) ==
  /\ disc[d] = "closing" /\ Idle(d)
  /\ disc' = [disc EXCEPT ![d] = "ended"]
  /\ mVideoSequenceHeader' = FALSE /\ mAudioSequenceHeader' = FALSE
  /\ late' = IF work = "none" THEN late ELSE "cleared"
  /\ UNCHANGED <<connVars, started, mFlvTagCache, flv, work, hand, ui, encoders, run>>

-----------------------------------------------------------------------------

UiStep ==
  \/ StartEncode \/ StopEncode \/ StopFlag \/ ClearCache \/ InterruptWorker \/ JoinWorker
  \/ ResetFlv \/ StartDisconnect

EncoderStep == EncodeVideo \/ AddVideo \/ CountVideo \/ EncodeAudio \/ AddAudio

ConnectionStep ==
  /\ \/ \E t \in Caller : CallerStep(t)
     \/ \E s \in Session : RxStep(s) \/ ServerStep(s)
  /\ UNCHANGED muxVars

Next ==
  /\ ~crashed
  /\ \/ Start \/ StopPublish \/ UiStep
     \/ EncoderStep
     \/ WorkerStep
     \/ \E d \in Disconnector : DisconnectClose(d) \/ DisconnectClosed(d)
     \/ ConnectionStep

MuxSpec == MuxInit /\ [][Next]_vars

\* The threads that stop() waits for run, unless they write to the connection; the user need not
\* start or stop, the encoders and the disconnect thread need not go on, the server need not answer
\* or take data, and the network may lose the connection.
MuxFairSpec ==
  /\ MuxSpec
  /\ WF_vars(~crashed /\ UiStep)
  /\ WF_vars(~crashed /\ WorkerStep)
  /\ WF_vars(~crashed /\ ~(AtWrite(Worker) /\ MayBlock) /\ CallerStep(Worker) /\ UNCHANGED muxVars)
  /\ \A s \in Session :
       WF_vars(~crashed /\ ~(RxAtWrite(s) /\ MayBlock) /\ RxStep(s) /\ UNCHANGED muxVars)

-----------------------------------------------------------------------------
(* Properties. *)

Streaming == work \in {"loop", "drain", "dispatch", "sending", "wait"}

InHand    == work = "dispatch" \/ (work = "sending" /\ ~Idle(Worker))
InCache   == Cardinality({i \in 1 .. Len(mFlvTagCache) : IsVideo(mFlvTagCache[i])})

\* No frame of an earlier run is in the cache or in the worker's hand once the muxer is started
\* again: stopPublish() joins the encoders before stop() clears the cache.
NoStaleFrames ==
  started =>
    /\ \A i \in 1 .. Len(mFlvTagCache) : mFlvTagCache[i].run = run
    /\ work \in {"dispatch", "sending"} => hand.run = run

\* A run drops no frame for want of its sequence header (SrsFlvMuxer:119-128): SrsFlv puts the
\* header into the cache first and forgets at stop() that it did, and the headers of an earlier
\* run are cleared before the first frame is taken.  Only a disconnect thread of the last run that
\* comes to its own clearing (97-98) during this one takes the headers away, and with them all
\* later frames.
NothingDropped ==
  work = "dispatch" =>
    hand.kind \in {"videoHeader", "audioHeader"} \/ HasHeader \/ late = "cleared"

\* While the first run streams, videoFrameCacheNumber is the number of video frames that are in the
\* cache or being sent, give or take the one the encoder has added but not yet counted.  (A close()
\* that comes late resets the counter of the next run.)
CounterExact ==
  run = 1 /\ late = "no" /\ Streaming /\ ui \in {"live", "stopEncode"} =>
    videoFrameCacheNumber =
      InCache - (IF vEnc = "count" THEN 1 ELSE 0)
              + (IF InHand /\ IsVideo(hand)
                   THEN 1 ELSE 0)

\* After stop() and the disconnect it started, nothing of the run is left in the muxer: no frame
\* and no count of one, no sequence header, no socket.
CleanAfterStop ==
  ui = "stopped" /\ ~Disconnecting =>
    /\ mFlvTagCache = << >> /\ videoFrameCacheNumber = 0
    /\ ~mVideoSequenceHeader /\ ~mAudioSequenceHeader
    /\ socket = None

\* The first run, until stop() has interrupted the worker and the worker has met the interrupt; no
\* disconnect thread of a stopPublish() that came before it is at work.
Undisturbed == run = 1 /\ late = "no" /\ work # "none" /\ (ui = "join" => Interrupted)

\* In the first run the muxer's threads together are one publisher (RtmpPublisher): the worker makes
\* its calls in the order in which the answers allow them, and the disconnect thread makes none
\* while the worker has a session (SrsFlvMuxer:91-130, 198-206).  A worker whose join was interrupted
\* may leave a receive thread to a closed session.
FirstRunKeepsProtocol ==
  /\ Publisher!PublisherInit
  /\ [][run = 0 \/ Undisturbed => Publisher!PublisherNext]_(Publisher!publisherVars)

\* Nor does a thread meet a field that was reset, or a result without its command, except that of an
\* answer that overtook its registration, until the interrupt of stop() has made a shutdown() reset
\* the fields under the receive thread (RtmpConnection:357-360, 379, 493-501, 594; SrsFlvMuxer:187).
FirstRunNoCrash == run = 0 \/ Undisturbed => NoCrash

\* stop() returns (SrsFlvMuxer:183-206), unless the worker's write never does or the worker has lost
\* the interrupt to a wait or join of RtmpConnection, which forget it, and streams on.  Once the
\* worker streams it keeps the interrupt until its loop has seen it, whatever the encoders left in
\* the cache; before, the calls it is in fail or end and leave it without work, or streaming.
MuxStopReturns ==
  /\ [][ui = "join" /\ Streaming /\ interrupted[Worker] => interrupted[Worker]' \/ work' = "ended"]_vars
  /\ []<>~AtWrite(Worker) =>
       ((ui = "join" /\ (Streaming => interrupted[Worker]))
          ~> (ui = "stopped" \/ crashed \/ (Streaming /\ ~interrupted[Worker])))
=============================================================================
