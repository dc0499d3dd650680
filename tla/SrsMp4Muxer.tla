---------------------------- MODULE SrsMp4Muxer ----------------------------
(***************************************************************************)
(* Recording of one live session to MP4 files: the UI thread that records, *)
(* pauses, resumes and stops, the two encoder threads that fill frameCache *)
(* and the writer thread each record() starts.                             *)
(*                                                                         *)
(* A file is the sequence of its boxes and samples, each one cell long, so *)
(* an offset is a number of cells.  A frame is its track, whether it is a  *)
(* key frame, its number in the track and the recording that was running   *)
(* when the encoder thread saw bRecording set.  The tables that            *)
(* createMovieBox() makes of the samples are those of Mp4SampleTable.      *)
(***************************************************************************)
EXTENDS Integers, FiniteSets, SequencesExt

CONSTANTS
  MaxRecord,   \* bound: successful calls of record()
  MaxPause,    \* bound: times the activity is paused
  MaxVideo,    \* bound: frames the video encoder emits, the codec configuration not counted
  MaxAudio,    \* bound: frames the audio encoder emits, those that are not counted as frames aside
  OpenFails,   \* may the file fail to open?
  WriteFails,  \* may a write to the file fail?
  Recycles     \* may the codec refill a released output buffer while its frame is queued?

ASSUME Mp4Assumption ==
  /\ {MaxRecord, MaxPause, MaxVideo, MaxAudio} \subseteq Nat
  /\ {OpenFails, WriteFails, Recycles} \subseteq BOOLEAN

Track  == {"video", "audio"}
Record == 1..MaxRecord

VARIABLES
  bRecording, bPaused, needToFindKeyFrame, aacSpecConfig,
  parameterSets,      \* do spsList and ppsList have an entry?
  frameCache,
  worker,             \* the recording whose thread the field holds, or 0
  formats,            \* the tracks that addTrack() has given a format
  ui, button,         \* next step of the UI thread; does the button read "stop recording"?
  away, pauses,       \* is the activity paused, and how often has it been?
  enc, encoded,       \* every encoder thread's next step and frame; frames it has emitted
  writer, taken,      \* every writer thread's next step, and the frame it has polled
  cells, isOpen,      \* the file and its channel
  mdat, mdatOffset,   \* "null", "first" or "begun"
  recFileSize,
  samples,            \* mp4Movie: the samples of every track it has
  recycled,           \* frames whose buffer the codec has refilled
  recordings,         \* how often record() has started a recording
  finished,           \* history: the files that finishMovie() completed
  failed,             \* history: has an IOException been reported?
  crashed             \* has an exception that no handler catches ended the process?

flags   == <<bRecording, bPaused, needToFindKeyFrame, aacSpecConfig, parameterSets>>
uiVars  == <<ui, button, away, pauses, recordings, worker>>
encVars == <<enc, encoded, recycled>>
wrtVars == <<writer, taken>>
movie   == <<cells, isOpen, mdat, mdatOffset, recFileSize, samples, finished, failed>>
mp4Vars == <<flags, frameCache, formats, uiVars, encVars, wrtVars, movie, crashed>>

Frame   == [track : Track, key : BOOLEAN, n : Nat, rec : 0..MaxRecord]
Box(b)  == [track |-> b, key |-> FALSE, n |-> 0, rec |-> 0]
NoFrame == Box("audio")
Idle    == [pc |-> "idle", frame |-> NoFrame]

Call == {"stop", "find", "clear", "join", "finish", "resume"}

Mp4TypeOK ==
  /\ {bRecording, bPaused, needToFindKeyFrame, aacSpecConfig, parameterSets} \subseteq BOOLEAN
  /\ frameCache \in Seq(Frame)
  /\ worker \in {0} \cup Record
  /\ formats \subseteq Track
  /\ ui \in {"idle"} \cup Call /\ {button, away} \subseteq BOOLEAN /\ pauses \in 0..MaxPause
  /\ enc \in [Track -> [pc : {"idle", "recording", "paused", "find", "found", "add"}, frame : Frame]]
  /\ encoded["video"] \in 0..MaxVideo /\ encoded["audio"] \in 0..MaxAudio
  /\ writer \in [Record -> {"none", "new", "loop", "drain", "write", "wait", "done"}]
  /\ taken \in [Record -> Frame]
  /\ cells \in Seq(Frame \cup {Box(b) : b \in {"ftyp", "mdat", "moov", "hole"}}) /\ isOpen \in BOOLEAN
  /\ mdat \in {"null", "first", "begun"}
  /\ {mdatOffset, recFileSize} \subseteq Nat
  /\ DOMAIN samples \subseteq Track
  /\ \A t \in DOMAIN samples : samples[t] \in Seq([offset : Nat, frame : Frame])
  /\ recycled \subseteq Frame
  /\ recordings \in 0..MaxRecord
  /\ {failed, crashed} \subseteq BOOLEAN

Mp4Init ==
  /\ bRecording = FALSE /\ bPaused = FALSE /\ needToFindKeyFrame = TRUE
  /\ aacSpecConfig = FALSE /\ parameterSets = FALSE
  /\ frameCache = <<>>
  /\ worker = 0 /\ recordings = 0
  \* SrsEncoder.start() may give up before either codec, or before the video codec.
  /\ formats \in {{}, {"audio"}, Track}
  /\ ui = "idle" /\ button = FALSE /\ away = FALSE /\ pauses = 0
  /\ enc = [t \in Track |-> Idle]
  /\ encoded = [t \in Track |-> 0]
  /\ writer = [r \in Record |-> "none"] /\ taken = [r \in Record |-> NoFrame]
  /\ cells = <<>> /\ isOpen = FALSE /\ mdat = "null" /\ mdatOffset = 0 /\ recFileSize = 0
  /\ samples = <<>>
  /\ recycled = {}
  /\ finished = <<>> /\ failed = FALSE /\ crashed = FALSE

----------------------------------------------------------------------------
(* The encoder threads.  The codecs emit once both have started.           *)

\* The handler's next step; it forgets its frame when it is done.
Step(t, pc) ==
  enc' = [enc EXCEPT ![t] = IF pc = "idle" THEN Idle ELSE [pc |-> pc, frame |-> enc[t].frame]]

Encoding == formats = Track

\* The codec configuration is the video codec's first output.
EncodeConfig ==
  /\ Encoding /\ enc["video"].pc = "idle" /\ ~parameterSets
  /\ parameterSets' = TRUE
  /\ UNCHANGED <<bRecording, bPaused, needToFindKeyFrame, aacSpecConfig,
                 frameCache, formats, uiVars, encVars, wrtVars, movie, crashed>>

NewFrame(t, key) == [track |-> t, key |-> key, n |-> encoded[t] + 1, rec |-> 0]

EncodeVideo ==
  \E key \in BOOLEAN :
    /\ Encoding /\ parameterSets
    /\ enc["video"].pc = "idle" /\ encoded["video"] < MaxVideo
    /\ encoded' = [encoded EXCEPT !["video"] = @ + 1]
    /\ enc' = [enc EXCEPT !["video"] = [pc |-> "recording", frame |-> NewFrame("video", key)]]
    /\ UNCHANGED <<flags, frameCache, formats, uiVars, recycled, wrtVars, movie, crashed>>

\* The first packet, which is the codec configuration, is not a frame; nor is the
\* first one after a stop().
EncodeAudio ==
  /\ Encoding /\ enc["audio"].pc = "idle"
  /\ IF ~aacSpecConfig
     THEN /\ aacSpecConfig' = TRUE
          /\ UNCHANGED <<enc, encoded>>
     ELSE /\ encoded["audio"] < MaxAudio
          /\ encoded' = [encoded EXCEPT !["audio"] = @ + 1]
          /\ enc' = [enc EXCEPT !["audio"] = [pc |-> "recording", frame |-> NewFrame("audio", FALSE)]]
          /\ UNCHANGED aacSpecConfig
  /\ UNCHANGED <<bRecording, bPaused, needToFindKeyFrame, parameterSets,
                 frameCache, formats, uiVars, recycled, wrtVars, movie, crashed>>

ReadRecording(t) ==
  /\ enc[t].pc = "recording"
  /\ enc' = [enc EXCEPT ![t] = IF bRecording
                                THEN [pc |-> "paused", frame |-> [@.frame EXCEPT !.rec = recordings]]
                                ELSE Idle]
  /\ UNCHANGED <<flags, frameCache, formats, uiVars, encoded, recycled, wrtVars, movie, crashed>>

ReadPaused(t) ==
  /\ enc[t].pc = "paused"
  /\ Step(t, IF bPaused THEN "idle" ELSE "find")
  /\ UNCHANGED <<flags, frameCache, formats, uiVars, encoded, recycled, wrtVars, movie, crashed>>

WantedAlways(t) == IF needToFindKeyFrame /\ enc[t].frame.key THEN "found" ELSE "add"  \* mutant
Wanted(t) == IF ~needToFindKeyFrame THEN "add" ELSE IF enc[t].frame.key THEN "found" ELSE "idle"

ReadNeedKeyFrame(t) ==
  /\ enc[t].pc = "find"
  /\ Step(t, Wanted(t))
  /\ UNCHANGED <<flags, frameCache, formats, uiVars, encoded, recycled, wrtVars, movie, crashed>>

KeyFrameFound(t) ==
  /\ enc[t].pc = "found"
  /\ needToFindKeyFrame' = FALSE
  /\ Step(t, "add")
  /\ UNCHANGED <<bRecording, bPaused, aacSpecConfig, parameterSets,
                 frameCache, formats, uiVars, encoded, recycled, wrtVars, movie, crashed>>

AddFrame(t) ==
  /\ enc[t].pc = "add"
  /\ frameCache' = Append(frameCache, enc[t].frame)
  /\ Step(t, "idle")
  /\ UNCHANGED <<flags, formats, uiVars, encoded, recycled, wrtVars, movie, crashed>>

Queued == Range(frameCache) \cup {taken[r] : r \in {q \in Record : writer[q] = "write"}}

\* releaseOutputBuffer() follows the call; the codec owns the bytes from then on.
Recycle ==
  \E f \in Queued :
    /\ Recycles
    /\ f # enc[f.track].frame
    /\ recycled' = recycled \cup {f}
    /\ UNCHANGED <<flags, frameCache, formats, uiVars, enc, encoded, wrtVars, movie, crashed>>

Encoder(t) == ReadRecording(t) \/ ReadPaused(t) \/ ReadNeedKeyFrame(t) \/ KeyFrameFound(t)
              \/ AddFrame(t)

----------------------------------------------------------------------------
(* The file.                                                               *)

\* fc.position(at) and a write: what lies between the end and at is a hole.
PutAt(file, at, cell) ==
  [i \in 1..Max({Len(file), at + 1}) |->
     IF i = at + 1 THEN cell ELSE IF i <= Len(file) THEN file[i] ELSE Box("hole")]

\* Does a write succeed?  On a closed channel none does.
Writes(open) == IF ~open THEN {FALSE} ELSE IF WriteFails THEN BOOLEAN ELSE {TRUE}

\* Opens the file and writes the file type box; a file that does not open leaves the
\* fields of the last one.
CreateMovie ==
  \/ \E ok \in Writes(TRUE) :
       /\ cells' = IF ok THEN <<Box("ftyp")>> ELSE <<>>
       /\ isOpen' = TRUE
       /\ mdat' = "first" /\ mdatOffset' = 0
       /\ recFileSize' = recFileSize + (IF ok THEN 1 ELSE 0)
       /\ failed' = (failed \/ ~ok)
  \/ /\ OpenFails
     /\ failed' = TRUE
     /\ UNCHANGED <<cells, isOpen, mdat, mdatOffset, recFileSize>>

AddTracks ==
  LET added == {t \in formats : t = "video" => parameterSets}
  IN  samples' = [t \in DOMAIN samples \cup added |-> IF t \in added THEN <<>> ELSE samples[t]]

\* The mdat header goes before the first sample.  getBox() reports its own failure and
\* returns; a sample is entered in its track before its bytes are written (a NAL unit's length and
\* data are one write).  What a sample that addSample() refuses does to the tables is in
\* Mp4SampleTable.
WriteSampleData(f) ==
  \E header \in Writes(isOpen), data \in Writes(isOpen) :
    LET begin == mdat = "first"
        at    == IF begin THEN recFileSize + 1 ELSE recFileSize
        begun == IF begin /\ header THEN Append(cells, Box("mdat")) ELSE cells
    IN  /\ mdat' = "begun"
        /\ mdatOffset' = IF begin THEN recFileSize ELSE mdatOffset
        /\ samples' = [samples EXCEPT ![f.track] = Append(@, [offset |-> at, frame |-> f])]
        /\ cells' = IF data THEN Append(begun, f) ELSE begun
        /\ recFileSize' = IF data THEN at + 1 ELSE at
        /\ failed' = (failed \/ ~data \/ (begin /\ ~header))
        /\ UNCHANGED <<isOpen, finished>>

SizeKept    == recFileSize  \* mutant
SizeUnknown == -1           \* mutant
\* The field is not set when a file is created, but when the last one is finished.
NextFileSize == 0

MdatForgotten == "null"  \* mutant: the field is cleared with the others
MdatKept == mdat

\* Rewrites the mdat header and appends the movie box.  When that throws, the file
\* stays open and the fields keep their values.
FinishMovie ==
  \E header \in Writes(isOpen), rest \in Writes(isOpen) :
    LET begun == IF header THEN PutAt(cells, mdatOffset, Box("mdat")) ELSE cells
    IN  /\ failed' = (failed \/ ~header \/ ~rest)
        /\ IF rest
           THEN /\ cells' = PutAt(begun, Len(cells), Box("moov"))
                /\ isOpen' = FALSE
                /\ finished' = Append(finished, [rec |-> recordings, cells |-> cells', samples |-> samples])
                /\ samples' = <<>>
                /\ recFileSize' = NextFileSize
                /\ mdat' = MdatKept
           ELSE /\ cells' = begun
                /\ UNCHANGED <<isOpen, finished, samples, recFileSize, mdat>>
        /\ UNCHANGED mdatOffset

----------------------------------------------------------------------------
(* The writer threads.                                                     *)

WriterStep(r, pc) == writer' = [writer EXCEPT ![r] = pc]

WriterBegin(r) ==
  /\ writer[r] = "new"
  /\ bRecording' = TRUE
  /\ WriterStep(r, "loop")
  /\ UNCHANGED <<bPaused, needToFindKeyFrame, aacSpecConfig, parameterSets,
                 frameCache, formats, uiVars, encVars, taken, movie, crashed>>

LoopsWhileWorker == worker # 0  \* mutant: the loop asks for the field that stop() clears
LoopsOn == bRecording

WriterLoop(r) ==
  /\ writer[r] = "loop"
  /\ WriterStep(r, IF LoopsOn THEN "drain" ELSE "done")
  /\ UNCHANGED <<flags, frameCache, formats, uiVars, encVars, taken, movie, crashed>>

Peeked == frameCache  \* mutant: peek() for poll()
Polled == Tail(frameCache)

WriterPoll(r) ==
  /\ writer[r] = "drain" /\ frameCache # <<>>
  /\ taken' = [taken EXCEPT ![r] = Head(frameCache)]
  /\ frameCache' = Polled
  /\ WriterStep(r, "write")
  /\ UNCHANGED <<flags, formats, uiVars, encVars, movie, crashed>>

\* The wait ends with a frame or after half a second.
WriterWait(r) ==
  /\ writer[r] = "drain" /\ frameCache = <<>>
  /\ WriterStep(r, "loop")
  /\ UNCHANGED <<flags, frameCache, formats, uiVars, encVars, taken, movie, crashed>>

Written(r) == WriterStep(r, "drain") /\ taken' = [taken EXCEPT ![r] = NoFrame]

WriterWrite(r) ==
  /\ writer[r] = "write"
  /\ IF taken[r].track \notin DOMAIN samples
     THEN /\ Written(r)
          /\ UNCHANGED <<movie, crashed>>
     ELSE IF mdat = "null"
     THEN /\ crashed' = TRUE
          /\ UNCHANGED <<writer, taken, movie>>
     ELSE /\ WriteSampleData(taken[r])
          /\ Written(r)
          /\ UNCHANGED crashed
  /\ UNCHANGED <<flags, frameCache, formats, uiVars, encVars>>

Writer(r) == WriterBegin(r) \/ WriterLoop(r) \/ WriterPoll(r) \/ WriterWait(r) \/ WriterWrite(r)

----------------------------------------------------------------------------
(* The UI thread.                                                          *)

\* The button reads "stop recording" from now on, whatever record() returned.
StartRecord ==
  /\ ui = "idle" /\ ~button /\ ~away
  /\ button' = TRUE
  /\ IF formats = {}
     THEN UNCHANGED <<worker, recordings, writer, movie>>
     ELSE /\ recordings < MaxRecord
          /\ recordings' = recordings + 1
          /\ CreateMovie
          /\ AddTracks
          /\ worker' = recordings'
          /\ WriterStep(recordings', "new")
          /\ UNCHANGED finished
  /\ UNCHANGED <<flags, frameCache, formats, ui, away, pauses, encVars, taken, crashed>>

\* onPause(); pause() has no effect before the writer has set bRecording.
Pause ==
  /\ ui = "idle" /\ ~away /\ pauses < MaxPause
  /\ away' = TRUE
  /\ pauses' = pauses + 1
  /\ bPaused' = (bPaused \/ (button /\ bRecording))
  /\ UNCHANGED <<bRecording, needToFindKeyFrame, aacSpecConfig, parameterSets, frameCache, formats,
                 ui, button, recordings, worker, encVars, wrtVars, movie, crashed>>

\* onResume(); resume() then goes on to ResumeAtKeyFrame.
Resume ==
  /\ ui = "idle" /\ away
  /\ away' = FALSE
  /\ IF button /\ bRecording
     THEN bPaused' = FALSE /\ ui' = "resume"
     ELSE UNCHANGED <<bPaused, ui>>
  /\ UNCHANGED <<bRecording, needToFindKeyFrame, aacSpecConfig, parameterSets, frameCache, formats,
                 button, pauses, recordings, worker, encVars, wrtVars, movie, crashed>>

ResumeAtKeyFrame ==
  /\ ui = "resume"
  /\ needToFindKeyFrame' = TRUE
  /\ ui' = "idle"
  /\ UNCHANGED <<bRecording, bPaused, aacSpecConfig, parameterSets, frameCache, formats,
                 button, away, pauses, recordings, worker, encVars, wrtVars, movie, crashed>>

\* The button, or stopLive() after a message that reported an exception.
StopRecord ==
  /\ ui = "idle" /\ button
  /\ button' = FALSE
  /\ ui' = "stop"
  /\ UNCHANGED <<flags, frameCache, formats, away, pauses, recordings, worker, encVars, wrtVars, movie, crashed>>

StopFlags ==
  /\ ui = "stop"
  /\ bRecording' = FALSE /\ bPaused' = FALSE
  /\ ui' = "find"
  /\ UNCHANGED <<needToFindKeyFrame, aacSpecConfig, parameterSets, frameCache, formats,
                 button, away, pauses, recordings, worker, encVars, wrtVars, movie, crashed>>

StopKeyFrame ==
  /\ ui = "find"
  /\ needToFindKeyFrame' = TRUE /\ aacSpecConfig' = FALSE
  /\ ui' = "clear"
  /\ UNCHANGED <<bRecording, bPaused, parameterSets, frameCache, formats,
                 button, away, pauses, recordings, worker, encVars, wrtVars, movie, crashed>>

KeepCache == frameCache  \* mutant
Cleared == <<>>

StopClear ==
  /\ ui = "clear"
  /\ frameCache' = Cleared
  /\ ui' = IF worker = 0 THEN "idle" ELSE "join"
  /\ UNCHANGED <<flags, formats, button, away, pauses, recordings, worker, encVars, wrtVars, movie, crashed>>

NotJoined == TRUE  \* mutant
Joined == writer[worker] = "done"

StopJoin ==
  /\ ui = "join" /\ Joined
  /\ worker' = 0
  /\ ui' = "finish"
  /\ UNCHANGED <<flags, frameCache, formats, button, away, pauses, recordings, encVars, wrtVars, movie, crashed>>

StopFinish ==
  /\ ui = "finish"
  /\ IF mdat = "null"
     THEN /\ crashed' = TRUE
          /\ UNCHANGED <<ui, movie>>
     ELSE /\ FinishMovie
          /\ ui' = "idle"
          /\ UNCHANGED crashed
  /\ UNCHANGED <<flags, frameCache, formats, button, away, pauses, recordings, worker, encVars, wrtVars>>

Stopping == StopFlags \/ StopKeyFrame \/ StopClear \/ StopJoin \/ StopFinish \/ ResumeAtKeyFrame

UI == StartRecord \/ Pause \/ Resume \/ StopRecord \/ Stopping

----------------------------------------------------------------------------
Mp4Next ==
  /\ ~crashed
  /\ \/ UI
     \/ EncodeConfig \/ EncodeVideo \/ EncodeAudio
     \/ \E t \in Track : Encoder(t)
     \/ Recycle
     \/ \E r \in Record : Writer(r)

Mp4Spec == Mp4Init /\ [][Mp4Next]_mp4Vars

\* A call that has begun goes on, and the scheduler starves no thread; nothing makes the
\* user press a button or a codec emit a frame.
Mp4Fairness ==
  /\ WF_mp4Vars(~crashed /\ Stopping)
  /\ \A t \in Track : WF_mp4Vars(~crashed /\ Encoder(t))
  /\ \A r \in Record : WF_mp4Vars(~crashed /\ Writer(r))

Mp4FairSpec == Mp4Spec /\ Mp4Fairness

----------------------------------------------------------------------------
(* Properties.                                                             *)

Movies == {finished[i].samples : i \in DOMAIN finished}

(* The file of the first recording starts with a key frame, however often  *)
(* it was paused and resumed: writeFrameByte (320-343) waits for one with  *)
(* a flag that the UI thread sets again at any moment.  A lone video       *)
(* sample need not be one: stop() may clear the key frame and the writer   *)
(* still take the frame that is added after it.                            *)
StartsWithKeyFrame ==
  \A i \in DOMAIN finished :
    LET m == finished[i].samples
    IN  finished[i].rec = 1 /\ "video" \in DOMAIN m /\ Len(m["video"]) > 1 => m["video"][1].frame.key

(* As long as no IOException was reported, every file with a sample is the *)
(* type box, the mdat box, the samples and the movie box, and every offset *)
(* in its tables is the place of that sample's bytes: recFileSize, which   *)
(* record() does not set, is the length of the file throughout.            *)
FilesReadable ==
  \A i \in DOMAIN finished :
    LET file == finished[i].cells
        used == UNION {Range(finished[i].samples[t]) : t \in DOMAIN finished[i].samples}
    IN  ~failed /\ used # {} =>
          /\ file[1] = Box("ftyp") /\ file[2] = Box("mdat") /\ Last(file) = Box("moov")
          /\ Len(file) = Cardinality(used) + 3
          /\ \A s \in used : file[s.offset + 1] = s.frame

(* Samples of one track are in the order in which its encoder emitted      *)
(* them, none twice, across every race of the threads.                     *)
InOrder ==
  \A m \in Movies \cup {samples} : \A t \in DOMAIN m : \A i, j \in DOMAIN m[t] :
    i < j => m[t][i].frame.n < m[t][j].frame.n

(* A frame that passed the bRecording check before stop() may be added     *)
(* after frameCache.clear() and then opens the next file.  Each encoder    *)
(* thread can leave one such frame, never more.                            *)
OneStaleFrame ==
  \A i \in DOMAIN finished : \A t \in DOMAIN finished[i].samples :
    Cardinality({s \in Range(finished[i].samples[t]) : s.frame.rec # finished[i].rec}) <= 1

(* Outside of stop() a writer thread lives only while the field worker     *)
(* holds it, so finishMovie() and the next record() find the file, the     *)
(* tracks and the offsets at rest.                                         *)
OneWriter ==
  \A r \in Record : writer[r] \notin {"none", "done"} => r = worker

(* stop() returns once the writer has set bRecording, whatever the         *)
(* encoders add meanwhile.                                                 *)
StopReturnsWhenRecording == (ui = "stop" /\ bRecording) ~> (ui = "idle" \/ crashed)

(* "The encoded sample" (SrsMp4Muxer.java:225) is what is written: no      *)
(* frame's buffer is back in the codec's hands before its bytes are in the *)
(* file.                                                                   *)
BytesIntact == \A r \in Record : writer[r] = "write" => taken[r] \notin recycled

(* createMovie() reports a file that does not open and record() goes on,   *)
(* so stop() or the writer thread may dereference a null mdat field.  It   *)
(* happens only after such a report, and never once a file was finished.   *)
CrashesBeforeFirstFile == crashed => failed /\ finished = <<>>
=============================================================================
