------------------------- MODULE SrsMp4Muxer_proofs -------------------------
(***************************************************************************)
(* Theorems about SrsMp4Muxer for every bound, with and without failures   *)
(* of the storage: the types, the one writer thread, the order of the      *)
(* samples, the frames a stop() leaves behind, the key frame in front, and *)
(* the layout of the files.                                                *)
(***************************************************************************)
EXTENDS SrsMp4Muxer, FiniteSetTheorems, SequenceTheorems, TLAPS

(***************************************************************************)
(* OneWriter is not inductive: that StartRecord finds no writer follows    *)
(* from the UI thread's button, which reads "start recording" only after   *)
(* stop() has joined the writer.  WriterInv adds that link.                *)
(***************************************************************************)
StopPc == {"stop", "find", "clear", "join"}

WriterInv ==
  /\ writer \in [Record -> {"none", "new", "loop", "drain", "write", "wait", "done"}]
  /\ recordings \in Nat
  /\ OneWriter
  /\ ui \in StopPc \cup {"finish"} => ~button
  /\ worker # 0 => button \/ ui \in StopPc

LEMMA WriterInvInit == ASSUME Mp4Init PROVE WriterInv
BY DEF Mp4Init, WriterInv, OneWriter, Record, StopPc

\* The encoder threads touch nothing of WriterInv.
LEMMA EncodersKeep ==
  ASSUME WriterInv,
         EncodeConfig \/ EncodeVideo \/ EncodeAudio \/ Recycle \/ \E t \in Track : Encoder(t)
  PROVE  WriterInv'
<1>1. UNCHANGED <<uiVars, writer>>
  BY DEF EncodeConfig, EncodeVideo, EncodeAudio, Recycle, Encoder, ReadRecording, ReadPaused,
         ReadNeedKeyFrame, KeyFrameFound, AddFrame, wrtVars
<1>2. QED
  BY <1>1 DEF WriterInv, OneWriter, uiVars

\* A step of a writer thread leaves it alive or ends it, and starts no other.
LEMMA WritersKeep ==
  ASSUME WriterInv, NEW r \in Record, Writer(r)
  PROVE  WriterInv'
<1>1. UNCHANGED <<ui, button, recordings, worker>>
  BY DEF Writer, WriterBegin, WriterLoop, WriterPoll, WriterWait, WriterWrite, uiVars
<1>2. writer[r] \notin {"none", "done"}
  BY DEF Writer, WriterBegin, WriterLoop, WriterPoll, WriterWait, WriterWrite
<1>3. \E pc \in {"loop", "drain", "write", "done"} : writer' = [writer EXCEPT ![r] = pc]
      \/ UNCHANGED writer
  BY DEF Writer, WriterBegin, WriterLoop, WriterPoll, WriterWait, WriterWrite, Written, WriterStep
<1>4. QED
  BY <1>1, <1>2, <1>3 DEF WriterInv, OneWriter

LEMMA StartRecordKeeps == ASSUME Mp4Assumption, WriterInv, StartRecord PROVE WriterInv'
<1>1. worker = 0 /\ button' = TRUE /\ ui' = ui /\ ui = "idle"
  BY DEF StartRecord, WriterInv, StopPc
<1>2. CASE formats = {}
  <2>1. UNCHANGED <<worker, recordings, writer>>
    BY <1>2 DEF StartRecord
  <2>2. QED
    BY <1>1, <2>1 DEF WriterInv, OneWriter, StopPc
<1>3. CASE formats # {}
  <2>1. /\ recordings < MaxRecord /\ recordings' = recordings + 1
        /\ worker' = recordings'
        /\ writer' = [writer EXCEPT ![recordings'] = "new"]
    BY <1>3 DEF StartRecord, WriterStep
  <2>2. recordings' \in Record
    BY <2>1 DEF WriterInv, Record, Mp4Assumption
  <2>3. writer' \in [Record -> {"none", "new", "loop", "drain", "write", "wait", "done"}]
    BY <2>1, <2>2 DEF WriterInv
  <2>4. recordings' \in Nat
    BY <2>1 DEF WriterInv
  <2>5. OneWriter'
    <3>1. ASSUME NEW r \in Record, r # worker' PROVE writer'[r] \in {"none", "done"}
      BY <1>1, <2>1, <2>2, <3>1 DEF WriterInv, OneWriter, Record
    <3>2. QED
      BY <3>1 DEF OneWriter
  <2>6. QED
    BY <1>1, <2>3, <2>4, <2>5 DEF WriterInv, StopPc
<1>4. QED
  BY <1>2, <1>3

LEMMA UIKeeps == ASSUME Mp4Assumption, WriterInv, UI PROVE WriterInv'
<1>1. CASE StartRecord
  BY <1>1, StartRecordKeeps
<1>2. CASE Pause \/ Resume \/ ResumeAtKeyFrame
  BY <1>2 DEF Pause, Resume, ResumeAtKeyFrame, wrtVars, WriterInv, OneWriter, StopPc
<1>3. CASE StopRecord \/ StopFlags \/ StopKeyFrame
  BY <1>3 DEF StopRecord, StopFlags, StopKeyFrame, wrtVars, WriterInv, OneWriter, StopPc
<1>4. CASE StopClear
  BY <1>4 DEF StopClear, wrtVars, WriterInv, OneWriter, StopPc
<1>5. CASE StopJoin
  BY <1>5 DEF StopJoin, Joined, wrtVars, WriterInv, OneWriter, StopPc
<1>6. CASE StopFinish
  BY <1>6 DEF StopFinish, wrtVars, WriterInv, OneWriter, StopPc
<1>7. QED
  BY <1>1, <1>2, <1>3, <1>4, <1>5, <1>6 DEF UI, Stopping

LEMMA WriterInvNext == ASSUME Mp4Assumption, WriterInv, [Mp4Next]_mp4Vars PROVE WriterInv'
<1>1. CASE Mp4Next
  BY <1>1, EncodersKeep, WritersKeep, UIKeeps DEF Mp4Next
<1>2. CASE UNCHANGED mp4Vars
  BY <1>2 DEF mp4Vars, uiVars, wrtVars, WriterInv, OneWriter
<1>3. QED
  BY <1>1, <1>2

(* For every number of recordings, pauses and frames, and whatever the     *)
(* storage does, a writer thread is alive outside of stop() only as the    *)
(* one that the field worker holds (SrsMp4Muxer.java:130-158, 183-203).    *)
THEOREM OneWriterHolds == ASSUME Mp4Assumption PROVE Mp4Spec => []OneWriter
<1>1. Mp4Init => WriterInv
  BY WriterInvInit
<1>2. WriterInv /\ [Mp4Next]_mp4Vars => WriterInv'
  BY WriterInvNext
<1>3. WriterInv => OneWriter
  BY DEF WriterInv
<1>4. QED
  BY <1>1, <1>2, <1>3, PTL DEF Mp4Spec

-----------------------------------------------------------------------------
(* Type correctness.                                                        *)

Cell   == Frame \cup {Box(b) : b \in {"ftyp", "mdat", "moov", "hole"}}
Sample == [offset : Nat, frame : Frame]

\* The type invariant in three parts: the flags, the threads and the file.
FlagTypes ==
  /\ bRecording \in BOOLEAN /\ bPaused \in BOOLEAN /\ needToFindKeyFrame \in BOOLEAN
  /\ aacSpecConfig \in BOOLEAN /\ parameterSets \in BOOLEAN
  /\ button \in BOOLEAN /\ away \in BOOLEAN
  /\ isOpen \in BOOLEAN /\ failed \in BOOLEAN /\ crashed \in BOOLEAN

EncPc == {"idle", "recording", "paused", "find", "found", "add"}

ThreadTypes ==
  /\ frameCache \in Seq(Frame)
  /\ worker \in {0} \cup Record
  /\ formats \subseteq Track
  /\ ui \in {"idle"} \cup Call /\ pauses \in 0 .. MaxPause
  /\ enc \in [Track -> [pc : EncPc, frame : Frame]]
  /\ encoded \in [Track -> Nat]
  /\ encoded["video"] <= MaxVideo /\ encoded["audio"] <= MaxAudio
  /\ writer \in [Record -> {"none", "new", "loop", "drain", "write", "wait", "done"}]
  /\ taken \in [Record -> Frame]
  /\ recycled \subseteq Frame
  /\ recordings \in 0 .. MaxRecord

FileTypes ==
  /\ cells \in Seq(Cell)
  /\ mdat \in {"null", "first", "begun"}
  /\ mdatOffset \in Nat /\ recFileSize \in Nat
  /\ DOMAIN samples \subseteq Track
  /\ \A t \in DOMAIN samples : samples[t] \in Seq(Sample)

Types == FlagTypes /\ ThreadTypes /\ FileTypes

LEMMA TypesSuffice == ASSUME Mp4Assumption, Types PROVE Mp4TypeOK
<1>1. /\ {bRecording, bPaused, needToFindKeyFrame, aacSpecConfig, parameterSets} \subseteq BOOLEAN
      /\ {button, away} \subseteq BOOLEAN /\ isOpen \in BOOLEAN /\ {failed, crashed} \subseteq BOOLEAN
  BY DEF Types, FlagTypes
<1>2. encoded["video"] \in 0 .. MaxVideo /\ encoded["audio"] \in 0 .. MaxAudio
  BY DEF Types, ThreadTypes, Mp4Assumption, Track
<1>3. {mdatOffset, recFileSize} \subseteq Nat BY DEF Types, FileTypes
<1>4. ThreadTypes /\ FileTypes BY DEF Types
<1> QED BY <1>1, <1>2, <1>3, <1>4 DEF Mp4TypeOK, ThreadTypes, FileTypes, EncPc, Cell, Sample

LEMMA NoFrameTypes == ASSUME Mp4Assumption PROVE NoFrame \in Frame /\ Idle \in [pc : EncPc, frame : Frame]
BY DEF NoFrame, Box, Frame, Idle, EncPc, Track, Mp4Assumption

LEMMA TypesInit == ASSUME Mp4Assumption, Mp4Init PROVE Types
<1>1. FlagTypes BY DEF Mp4Init, FlagTypes
<1>2. ThreadTypes
  <2>1. formats \subseteq Track BY DEF Mp4Init, Track
  <2>2. enc \in [Track -> [pc : EncPc, frame : Frame]] BY NoFrameTypes DEF Mp4Init
  <2>3. taken \in [Record -> Frame] BY NoFrameTypes DEF Mp4Init
  <2>4. encoded \in [Track -> Nat] /\ encoded["video"] = 0 /\ encoded["audio"] = 0 BY DEF Mp4Init, Track
  <2>5. frameCache \in Seq(Frame) BY DEF Mp4Init
  <2> QED BY <2>1, <2>2, <2>3, <2>4, <2>5 DEF Mp4Init, ThreadTypes, Mp4Assumption
<1>3. FileTypes
  <2>1. cells \in Seq(Cell) BY DEF Mp4Init
  <2>2. samples = <<>> /\ DOMAIN samples = {} BY DEF Mp4Init
  <2> QED BY <2>1, <2>2 DEF Mp4Init, FileTypes
<1> QED BY <1>1, <1>2, <1>3 DEF Types

LEMMA FlagsKeepType == ASSUME FlagTypes, [Mp4Next]_mp4Vars PROVE FlagTypes'
<1> USE DEF FlagTypes
<1>1. CASE UI
  <2> USE DEF flags, uiVars, movie
  <2>1. CASE StartRecord
    <3>1. CreateMovie \/ UNCHANGED movie BY <2>1 DEF StartRecord
    <3>2. isOpen' \in BOOLEAN /\ failed' \in BOOLEAN BY <3>1 DEF CreateMovie
    <3> QED BY <2>1, <3>2 DEF StartRecord
  <2>2. CASE StopFinish
    <3>1. FinishMovie \/ UNCHANGED movie BY <2>2 DEF StopFinish
    <3>2. isOpen' \in BOOLEAN /\ failed' \in BOOLEAN BY <3>1 DEF FinishMovie
    <3> QED BY <2>2, <3>2 DEF StopFinish
  <2>3. CASE Pause \/ Resume \/ ResumeAtKeyFrame BY <2>3 DEF Pause, Resume, ResumeAtKeyFrame
  <2>4. CASE StopRecord   BY <2>4 DEF StopRecord
  <2>5. CASE StopFlags    BY <2>5 DEF StopFlags
  <2>6. CASE StopKeyFrame BY <2>6 DEF StopKeyFrame
  <2>7. CASE StopClear    BY <2>7 DEF StopClear
  <2>8. CASE StopJoin     BY <2>8 DEF StopJoin
  <2> QED BY <1>1, <2>1, <2>2, <2>3, <2>4, <2>5, <2>6, <2>7, <2>8 DEF UI, Stopping
<1>2. CASE EncodeConfig \/ EncodeVideo \/ EncodeAudio \/ Recycle
  <2> USE DEF flags, uiVars, movie
  <2>1. CASE EncodeConfig BY <2>1 DEF EncodeConfig
  <2>2. CASE EncodeVideo  BY <2>2 DEF EncodeVideo
  <2>3. CASE EncodeAudio  BY <2>3 DEF EncodeAudio
  <2>4. CASE Recycle      BY <2>4 DEF Recycle
  <2> QED BY <1>2, <2>1, <2>2, <2>3, <2>4
<1>3. ASSUME NEW t \in Track, Encoder(t) PROVE FlagTypes'
  <2> USE DEF flags, uiVars, movie
  <2>1. CASE ReadRecording(t)    BY <2>1 DEF ReadRecording
  <2>2. CASE ReadPaused(t)       BY <2>2 DEF ReadPaused
  <2>3. CASE ReadNeedKeyFrame(t) BY <2>3 DEF ReadNeedKeyFrame
  <2>4. CASE KeyFrameFound(t)    BY <2>4 DEF KeyFrameFound
  <2>5. CASE AddFrame(t)         BY <2>5 DEF AddFrame
  <2> QED BY <1>3, <2>1, <2>2, <2>3, <2>4, <2>5 DEF Encoder
<1>4. ASSUME NEW r \in Record, Writer(r) PROVE FlagTypes'
  <2>1. CASE WriterWrite(r)
    <3>1. WriteSampleData(taken[r]) \/ UNCHANGED movie BY <2>1 DEF WriterWrite
    <3>2. isOpen' \in BOOLEAN /\ failed' \in BOOLEAN BY <3>1 DEF WriteSampleData, movie
    <3> QED BY <2>1, <3>2 DEF WriterWrite, flags, uiVars
  <2> USE DEF flags, uiVars, movie
  <2>2. CASE WriterBegin(r) BY <2>2 DEF WriterBegin
  <2>3. CASE WriterLoop(r)  BY <2>3 DEF WriterLoop
  <2>4. CASE WriterPoll(r)  BY <2>4 DEF WriterPoll
  <2>5. CASE WriterWait(r)  BY <2>5 DEF WriterWait
  <2> QED BY <1>4, <2>1, <2>2, <2>3, <2>4, <2>5 DEF Writer
<1>5. CASE UNCHANGED mp4Vars BY <1>5 DEF mp4Vars, flags, uiVars, movie
<1> QED BY <1>1, <1>2, <1>3, <1>4, <1>5 DEF Mp4Next

LEMMA EncoderTypes ==
  ASSUME Mp4Assumption, ThreadTypes, NEW t \in Track
  PROVE  /\ enc[t].pc \in EncPc /\ enc[t].frame \in Frame
         /\ \A key \in BOOLEAN : NewFrame(t, key) \in Frame
         /\ [enc[t].frame EXCEPT !.rec = recordings] \in Frame
<1>1. enc[t] \in [pc : EncPc, frame : Frame] /\ encoded[t] \in Nat /\ recordings \in 0 .. MaxRecord
  BY DEF ThreadTypes
<1>2. enc[t].frame \in Frame BY <1>1
<1>3. ASSUME NEW key \in BOOLEAN PROVE NewFrame(t, key) \in Frame
  BY <1>1 DEF NewFrame, Frame, Mp4Assumption
<1> QED BY <1>1, <1>2, <1>3 DEF Frame

LEMMA ThreadsKeepType == ASSUME Mp4Assumption, ThreadTypes, [Mp4Next]_mp4Vars PROVE ThreadTypes'
<1> USE DEF ThreadTypes
<1>1. CASE UI
  <2> USE DEF uiVars, encVars, wrtVars, Call
  <2>1. CASE StartRecord
    <3>1. CASE formats = {} BY <2>1, <3>1 DEF StartRecord
    <3>2. CASE formats # {}
      <4>1. recordings' \in Record /\ recordings' \in 0 .. MaxRecord
        BY <2>1, <3>2 DEF StartRecord, Record, Mp4Assumption
      <4>2. writer' \in [Record -> {"none", "new", "loop", "drain", "write", "wait", "done"}]
        BY <2>1, <3>2, <4>1 DEF StartRecord, WriterStep
      <4> QED BY <2>1, <3>2, <4>1, <4>2 DEF StartRecord
    <3> QED BY <3>1, <3>2
  <2>2. CASE Pause
    <3>1. pauses' \in 0 .. MaxPause BY <2>2 DEF Pause, Mp4Assumption
    <3> QED BY <2>2, <3>1 DEF Pause
  <2>3. CASE Resume \/ ResumeAtKeyFrame BY <2>3 DEF Resume, ResumeAtKeyFrame
  <2>4. CASE StopRecord \/ StopFlags \/ StopKeyFrame BY <2>4 DEF StopRecord, StopFlags, StopKeyFrame
  <2>5. CASE StopClear
    <3>1. frameCache' \in Seq(Frame) BY <2>5 DEF StopClear, Cleared
    <3> QED BY <2>5, <3>1 DEF StopClear
  <2>6. CASE StopJoin BY <2>6 DEF StopJoin
  <2>7. CASE StopFinish BY <2>7 DEF StopFinish
  <2> QED BY <1>1, <2>1, <2>2, <2>3, <2>4, <2>5, <2>6, <2>7 DEF UI, Stopping
<1>2. CASE EncodeConfig \/ EncodeVideo \/ EncodeAudio
  <2> USE DEF uiVars, wrtVars
  <2>1. "video" \in Track /\ "audio" \in Track BY DEF Track
  <2>2. CASE EncodeConfig BY <2>2 DEF EncodeConfig, encVars
  <2>3. CASE EncodeVideo
    <3>1. /\ encoded["video"] < MaxVideo
          /\ encoded' = [encoded EXCEPT !["video"] = @ + 1]
          /\ \E key \in BOOLEAN : enc' = [enc EXCEPT !["video"] = [pc |-> "recording", frame |-> NewFrame("video", key)]]
      BY <2>3 DEF EncodeVideo
    <3>2. encoded' \in [Track -> Nat] /\ encoded'["video"] <= MaxVideo /\ encoded'["audio"] <= MaxAudio
      BY <2>1, <3>1 DEF Mp4Assumption
    <3>3. enc' \in [Track -> [pc : EncPc, frame : Frame]]
      <4>1. ASSUME NEW key \in BOOLEAN
            PROVE  [enc EXCEPT !["video"] = [pc |-> "recording", frame |-> NewFrame("video", key)]]
                     \in [Track -> [pc : EncPc, frame : Frame]]
        BY <2>1, EncoderTypes DEF EncPc
      <4> QED BY <3>1, <4>1
    <3> QED BY <2>3, <3>2, <3>3 DEF EncodeVideo
  <2>4. CASE EncodeAudio
    <3>1. \/ UNCHANGED <<enc, encoded>>
          \/ /\ encoded["audio"] < MaxAudio
             /\ encoded' = [encoded EXCEPT !["audio"] = @ + 1]
             /\ enc' = [enc EXCEPT !["audio"] = [pc |-> "recording", frame |-> NewFrame("audio", FALSE)]]
      BY <2>4 DEF EncodeAudio
    <3>2. encoded' \in [Track -> Nat] /\ encoded'["video"] <= MaxVideo /\ encoded'["audio"] <= MaxAudio
      <4>1. CASE UNCHANGED <<enc, encoded>> BY <4>1
      <4>2. CASE encoded["audio"] < MaxAudio /\ encoded' = [encoded EXCEPT !["audio"] = @ + 1]
        BY <2>1, <4>2 DEF Mp4Assumption
      <4> QED BY <3>1, <4>1, <4>2
    <3>3. enc' \in [Track -> [pc : EncPc, frame : Frame]]
      <4>1. [enc EXCEPT !["audio"] = [pc |-> "recording", frame |-> NewFrame("audio", FALSE)]]
              \in [Track -> [pc : EncPc, frame : Frame]]
        BY <2>1, EncoderTypes DEF EncPc
      <4> QED BY <3>1, <4>1
    <3> QED BY <2>4, <3>2, <3>3 DEF EncodeAudio
  <2> QED BY <1>2, <2>2, <2>3, <2>4
<1>3. CASE Recycle
  <2>1. Range(frameCache) \subseteq Frame
    <3>1. \A i \in DOMAIN frameCache : frameCache[i] \in Frame OBVIOUS
    <3> QED BY <3>1 DEF Range
  <2>2. Queued \subseteq Frame BY <2>1 DEF Queued
  <2>3. recycled' \subseteq Frame BY <1>3, <2>2 DEF Recycle
  <2> QED BY <1>3, <2>3 DEF Recycle, uiVars, wrtVars
<1>4. ASSUME NEW t \in Track, Encoder(t) PROVE ThreadTypes'
  <2> USE DEF uiVars, wrtVars
  <2>1. ASSUME NEW pc \in EncPc, Step(t, pc) PROVE enc' \in [Track -> [pc : EncPc, frame : Frame]]
    BY <2>1, EncoderTypes, NoFrameTypes DEF Step
  <2>2. CASE ReadRecording(t)
    <3>1. \/ enc' = [enc EXCEPT ![t] = Idle]
          \/ enc' = [enc EXCEPT ![t] = [pc |-> "paused", frame |-> [enc[t].frame EXCEPT !.rec = recordings]]]
      BY <2>2 DEF ReadRecording
    <3>2. [pc |-> "paused", frame |-> [enc[t].frame EXCEPT !.rec = recordings]] \in [pc : EncPc, frame : Frame]
      BY EncoderTypes DEF EncPc
    <3>3. enc' \in [Track -> [pc : EncPc, frame : Frame]] BY <3>1, <3>2, NoFrameTypes
    <3> QED BY <2>2, <3>3 DEF ReadRecording
  <2>3. CASE ReadPaused(t)
    <3>1. Step(t, "idle") \/ Step(t, "find") BY <2>3 DEF ReadPaused
    <3>2. enc' \in [Track -> [pc : EncPc, frame : Frame]] BY <2>1, <3>1 DEF EncPc
    <3> QED BY <2>3, <3>2 DEF ReadPaused
  <2>4. CASE ReadNeedKeyFrame(t)
    <3>1. Wanted(t) \in EncPc BY DEF Wanted, EncPc
    <3>2. enc' \in [Track -> [pc : EncPc, frame : Frame]] BY <2>1, <2>4, <3>1 DEF ReadNeedKeyFrame
    <3> QED BY <2>4, <3>2 DEF ReadNeedKeyFrame
  <2>5. CASE KeyFrameFound(t)
    <3>1. enc' \in [Track -> [pc : EncPc, frame : Frame]] BY <2>1, <2>5 DEF KeyFrameFound, EncPc
    <3> QED BY <2>5, <3>1 DEF KeyFrameFound
  <2>6. CASE AddFrame(t)
    <3>1. enc' \in [Track -> [pc : EncPc, frame : Frame]] BY <2>1, <2>6 DEF AddFrame, EncPc
    <3>2. frameCache' \in Seq(Frame) BY <2>6, EncoderTypes DEF AddFrame
    <3> QED BY <2>6, <3>1, <3>2 DEF AddFrame
  <2> QED BY <1>4, <2>2, <2>3, <2>4, <2>5, <2>6 DEF Encoder
<1>5. ASSUME NEW r \in Record, Writer(r) PROVE ThreadTypes'
  <2> USE DEF uiVars, encVars, WriterStep
  <2>1. CASE WriterBegin(r) BY <2>1 DEF WriterBegin
  <2>2. CASE WriterLoop(r)  BY <2>2 DEF WriterLoop
  <2>3. CASE WriterPoll(r)
    <3>1. Head(frameCache) \in Frame /\ Tail(frameCache) \in Seq(Frame)
      <4>1. ASSUME NEW S, NEW q \in Seq(S), q # <<>> PROVE Head(q) \in S /\ Tail(q) \in Seq(S) BY <4>1
      <4> QED BY <2>3, <4>1 DEF WriterPoll
    <3> QED BY <2>3, <3>1 DEF WriterPoll, Polled
  <2>4. CASE WriterWait(r)  BY <2>4 DEF WriterWait
  <2>5. CASE WriterWrite(r)
    <3>1. /\ writer' = writer \/ writer' = [writer EXCEPT ![r] = "drain"]
          /\ taken' = taken \/ taken' = [taken EXCEPT ![r] = NoFrame]
      BY <2>5 DEF WriterWrite, Written
    <3> QED BY <2>5, <3>1, NoFrameTypes DEF WriterWrite
  <2> QED BY <1>5, <2>1, <2>2, <2>3, <2>4, <2>5 DEF Writer
<1>6. CASE UNCHANGED mp4Vars BY <1>6 DEF mp4Vars, uiVars, encVars, wrtVars
<1> QED BY <1>1, <1>2, <1>3, <1>4, <1>5, <1>6 DEF Mp4Next

\* Where a write at a place of the file puts its cell.
LEMMA PutAtType ==
  ASSUME NEW S, NEW file \in Seq(S), NEW at \in Nat, NEW cell \in S, Box("hole") \in S
  PROVE  PutAt(file, at, cell) \in Seq(S)
<1> DEFINE n == Max({Len(file), at + 1})
<1>1. n \in Nat
  <2>1. {Len(file), at + 1} \subseteq Nat /\ \E x \in {Len(file), at + 1} : \A y \in {Len(file), at + 1} : x >= y
    OBVIOUS
  <2>2. n \in {Len(file), at + 1} BY <2>1 DEF Max
  <2> QED BY <2>1, <2>2
<1>2. \A i \in 1 .. n : (IF i = at + 1 THEN cell ELSE IF i <= Len(file) THEN file[i] ELSE Box("hole")) \in S
  OBVIOUS
<1>3. PutAt(file, at, cell) \in [1 .. n -> S] BY <1>2 DEF PutAt
<1> HIDE DEF n
<1>4. PutAt(file, at, cell) \in UNION {[1 .. m -> S] : m \in Nat} BY <1>1, <1>3
<1> QED BY <1>4, SeqDef

LEMMA CellTypes ==
  /\ Frame \subseteq Cell
  /\ \A b \in {"ftyp", "mdat", "moov", "hole"} : Box(b) \in Cell
BY DEF Cell

\* What is appended to a sequence, kept apart from what the sequence holds.
LEMMA AppendedTo ==
  ASSUME NEW S, NEW q \in Seq(S), NEW e \in S
  PROVE  /\ Append(q, e) \in Seq(S) /\ Len(Append(q, e)) = Len(q) + 1 /\ Len(q) \in Nat
         /\ DOMAIN q = 1 .. Len(q) /\ DOMAIN Append(q, e) = 1 .. Len(q) + 1
         /\ \A i \in 1 .. Len(q) : Append(q, e)[i] = q[i]
         /\ Append(q, e)[Len(q) + 1] = e
OBVIOUS

LEMMA AppendedOne ==
  ASSUME NEW S, NEW q \in Seq(S), NEW x, NEW j \in DOMAIN Append(q, x)
  PROVE  (j \in DOMAIN q /\ Append(q, x)[j] = q[j]) \/ Append(q, x)[j] = x
OBVIOUS

\* A write moves recFileSize by what it writes, and enters the sample in its track.
LEMMA WrittenTypes ==
  ASSUME FileTypes, NEW f \in Frame, f.track \in DOMAIN samples, WriteSampleData(f)
  PROVE  FileTypes'
<1> USE DEF FileTypes
<1>1. PICK header \in Writes(isOpen), data \in Writes(isOpen) :
        LET begin == mdat = "first"
            at    == IF begin THEN recFileSize + 1 ELSE recFileSize
            begun == IF begin /\ header THEN Append(cells, Box("mdat")) ELSE cells
        IN  /\ mdat' = "begun"
            /\ mdatOffset' = IF begin THEN recFileSize ELSE mdatOffset
            /\ samples' = [samples EXCEPT ![f.track] = Append(@, [offset |-> at, frame |-> f])]
            /\ cells' = IF data THEN Append(begun, f) ELSE begun
            /\ recFileSize' = IF data THEN at + 1 ELSE at
  BY DEF WriteSampleData
<1> DEFINE begun == IF mdat = "first" /\ header THEN Append(cells, Box("mdat")) ELSE cells
           at    == IF mdat = "first" THEN recFileSize + 1 ELSE recFileSize
<1>2. begun \in Seq(Cell) BY CellTypes, AppendedTo
<1>3. at \in Nat OBVIOUS
<1>4. [offset |-> at, frame |-> f] \in Sample BY <1>3 DEF Sample
<1>5. /\ mdat' = "begun"
      /\ mdatOffset' \in {recFileSize, mdatOffset}
      /\ samples' = [samples EXCEPT ![f.track] = Append(@, [offset |-> at, frame |-> f])]
      /\ cells' = Append(begun, f) \/ cells' = begun
      /\ recFileSize' \in {at, at + 1}
  BY <1>1
<1> HIDE DEF begun, at
<1>6. cells' \in Seq(Cell) BY <1>2, <1>5, CellTypes, AppendedTo
<1>7. Append(samples[f.track], [offset |-> at, frame |-> f]) \in Seq(Sample) BY <1>4, AppendedTo
<1>8. DOMAIN samples' = DOMAIN samples
      /\ \A t \in DOMAIN samples : samples'[t] = IF t = f.track THEN Append(samples[t], [offset |-> at, frame |-> f])
                                                               ELSE samples[t]
  BY <1>5
<1> QED BY <1>3, <1>5, <1>6, <1>7, <1>8

LEMMA FinishedTypes == ASSUME FileTypes, FinishMovie PROVE FileTypes'
<1> USE DEF FileTypes
<1>1. \E header \in Writes(isOpen) :
        LET begun == IF header THEN PutAt(cells, mdatOffset, Box("mdat")) ELSE cells
        IN  /\ mdat' = mdat /\ mdatOffset' = mdatOffset
            /\ \/ cells' = PutAt(begun, Len(cells), Box("moov")) /\ samples' = <<>> /\ recFileSize' = 0
               \/ cells' = begun /\ UNCHANGED <<samples, recFileSize>>
  BY DEF FinishMovie, NextFileSize, MdatKept
<1>2. PICK header \in Writes(isOpen) :
        LET begun == IF header THEN PutAt(cells, mdatOffset, Box("mdat")) ELSE cells
        IN  cells' \in {PutAt(begun, Len(cells), Box("moov")), begun}
  BY <1>1
<1> DEFINE begun == IF header THEN PutAt(cells, mdatOffset, Box("mdat")) ELSE cells
<1>3. begun \in Seq(Cell) /\ Len(cells) \in Nat
  <2>1. PutAt(cells, mdatOffset, Box("mdat")) \in Seq(Cell) BY CellTypes, PutAtType
  <2> QED BY <2>1
<1>4. cells' \in {PutAt(begun, Len(cells), Box("moov")), begun} BY <1>2
<1> HIDE DEF begun
<1>5. cells' \in Seq(Cell) BY <1>3, <1>4, CellTypes, PutAtType
<1>6. DOMAIN <<>> = {} OBVIOUS
<1> QED BY <1>1, <1>5, <1>6

LEMMA FileKeepsType == ASSUME Mp4Assumption, ThreadTypes, FileTypes, [Mp4Next]_mp4Vars PROVE FileTypes'
<1>1. CASE UNCHANGED <<cells, mdat, mdatOffset, recFileSize, samples>> BY <1>1 DEF FileTypes
<1>2. CASE UI
  <2> USE DEF movie
  <2>1. CASE StartRecord
    <3>1. CASE formats = {} BY <1>1, <2>1, <3>1 DEF StartRecord
    <3>2. CASE formats # {}
      <4>1. CreateMovie /\ AddTracks BY <2>1, <3>2 DEF StartRecord
      <4>2. DOMAIN samples' \subseteq Track /\ \A t \in DOMAIN samples' : samples'[t] \in Seq(Sample)
        BY <4>1 DEF AddTracks, FileTypes, ThreadTypes
      <4>3. <<>> \in Seq(Cell) /\ <<Box("ftyp")>> \in Seq(Cell) BY CellTypes
      <4>4. cells' \in Seq(Cell) BY <4>1, <4>3 DEF CreateMovie, FileTypes
      <4>5. \/ mdat' = "first" /\ mdatOffset' = 0 /\ recFileSize' \in {recFileSize + 1, recFileSize + 0}
            \/ UNCHANGED <<mdat, mdatOffset, recFileSize>>
        BY <4>1 DEF CreateMovie
      <4>6. mdat' \in {"null", "first", "begun"} /\ mdatOffset' \in Nat /\ recFileSize' \in Nat
        BY <4>5 DEF FileTypes
      <4> QED BY <4>2, <4>4, <4>6 DEF FileTypes
    <3> QED BY <3>1, <3>2
  <2>2. CASE StopFinish BY <1>1, <2>2, FinishedTypes DEF StopFinish
  <2>3. CASE Pause \/ Resume \/ ResumeAtKeyFrame BY <1>1, <2>3 DEF Pause, Resume, ResumeAtKeyFrame
  <2>4. CASE StopRecord \/ StopFlags \/ StopKeyFrame \/ StopClear \/ StopJoin
    BY <1>1, <2>4 DEF StopRecord, StopFlags, StopKeyFrame, StopClear, StopJoin
  <2> QED BY <1>2, <2>1, <2>2, <2>3, <2>4 DEF UI, Stopping
<1>3. CASE EncodeConfig \/ EncodeVideo \/ EncodeAudio \/ Recycle
  BY <1>1, <1>3 DEF EncodeConfig, EncodeVideo, EncodeAudio, Recycle, movie
<1>4. ASSUME NEW t \in Track, Encoder(t) PROVE FileTypes'
  BY <1>1, <1>4 DEF Encoder, ReadRecording, ReadPaused, ReadNeedKeyFrame, KeyFrameFound, AddFrame,
     movie
<1>5. ASSUME NEW r \in Record, Writer(r) PROVE FileTypes'
  <2>1. CASE WriterWrite(r)
    <3>1. \/ UNCHANGED movie
          \/ taken[r].track \in DOMAIN samples /\ WriteSampleData(taken[r])
      BY <2>1 DEF WriterWrite
    <3>2. taken[r] \in Frame BY DEF ThreadTypes
    <3> QED BY <1>1, <3>1, <3>2, WrittenTypes DEF movie
  <2>2. CASE WriterBegin(r) \/ WriterLoop(r) \/ WriterPoll(r) \/ WriterWait(r)
    BY <1>1, <2>2 DEF WriterBegin, WriterLoop, WriterPoll, WriterWait, movie
  <2> QED BY <1>5, <2>1, <2>2 DEF Writer
<1>6. CASE UNCHANGED mp4Vars BY <1>1, <1>6 DEF mp4Vars, movie
<1> QED BY <1>2, <1>3, <1>4, <1>5, <1>6 DEF Mp4Next

LEMMA TypesNext == ASSUME Mp4Assumption, Types, [Mp4Next]_mp4Vars PROVE Types'
BY FlagsKeepType, ThreadsKeepType, FileKeepsType DEF Types

-----------------------------------------------------------------------------
(* The flag, the tracks and the finished files.                             *)

\* bRecording is set only while the writer that the field worker holds runs its loop.
RecordingOK == bRecording => worker # 0 /\ writer[worker] \in {"loop", "drain", "write"}

LEMMA RecordingNext ==
  ASSUME Mp4Assumption, Types, WriterInv, RecordingOK, [Mp4Next]_mp4Vars PROVE RecordingOK'
<1>a. /\ writer \in [Record -> {"none", "new", "loop", "drain", "write", "wait", "done"}]
      /\ worker \in {0} \cup Record
  BY DEF Types, ThreadTypes
<1>1. CASE UNCHANGED <<bRecording, worker, writer>> BY <1>1 DEF RecordingOK
<1>2. CASE UI
  <2> USE DEF flags, wrtVars
  <2>1. CASE StartRecord
    <3>1. worker = 0 BY <2>1 DEF StartRecord, WriterInv, StopPc
    <3>2. ~bRecording' BY <2>1, <3>1 DEF StartRecord, RecordingOK
    <3> QED BY <3>2 DEF RecordingOK
  <2>2. CASE StopJoin
    <3>1. ~bRecording BY <2>2 DEF StopJoin, Joined, RecordingOK
    <3> QED BY <2>2, <3>1 DEF StopJoin, RecordingOK
  <2>3. CASE StopFlags BY <2>3 DEF StopFlags, RecordingOK
  <2>4. CASE Pause \/ Resume \/ ResumeAtKeyFrame BY <1>1, <2>4 DEF Pause, Resume, ResumeAtKeyFrame
  <2>5. CASE StopRecord \/ StopKeyFrame \/ StopClear \/ StopFinish
    BY <1>1, <2>5 DEF StopRecord, StopKeyFrame, StopClear, StopFinish
  <2> QED BY <1>2, <2>1, <2>2, <2>3, <2>4, <2>5 DEF UI, Stopping, uiVars
<1>3. CASE EncodeConfig \/ EncodeVideo \/ EncodeAudio \/ Recycle
  BY <1>1, <1>3 DEF EncodeConfig, EncodeVideo, EncodeAudio, Recycle, flags, uiVars, wrtVars
<1>4. ASSUME NEW t \in Track, Encoder(t) PROVE RecordingOK'
  BY <1>1, <1>4 DEF Encoder, ReadRecording, ReadPaused, ReadNeedKeyFrame, KeyFrameFound, AddFrame,
     flags, uiVars, wrtVars
<1>5. ASSUME NEW r \in Record, Writer(r) PROVE RecordingOK'
  <2> USE DEF WriterStep, flags, uiVars
  <2>1. worker' = worker /\ r = worker /\ r # 0
    BY <1>5 DEF Writer, WriterBegin, WriterLoop, WriterPoll, WriterWait, WriterWrite, WriterInv,
       OneWriter, Record
  <2>2. CASE WriterBegin(r) BY <1>a, <2>1, <2>2 DEF WriterBegin, RecordingOK
  <2>3. CASE WriterLoop(r)  BY <1>a, <2>1, <2>3 DEF WriterLoop, LoopsOn, RecordingOK
  <2>4. CASE WriterPoll(r)  BY <1>a, <2>1, <2>4 DEF WriterPoll, RecordingOK
  <2>5. CASE WriterWait(r)  BY <1>a, <2>1, <2>5 DEF WriterWait, RecordingOK
  <2>6. CASE WriterWrite(r)
    <3>1. bRecording' = bRecording /\ (writer' = writer \/ writer' = [writer EXCEPT ![r] = "drain"])
      BY <2>6 DEF WriterWrite, Written
    <3> QED BY <1>a, <2>1, <3>1 DEF RecordingOK
  <2> QED BY <1>5, <2>2, <2>3, <2>4, <2>5, <2>6 DEF Writer
<1>6. CASE UNCHANGED mp4Vars BY <1>1, <1>6 DEF mp4Vars, flags, uiVars, wrtVars
<1> QED BY <1>2, <1>3, <1>4, <1>5, <1>6 DEF Mp4Next

\* A movie has the tracks that its record() has given it.
Tracks   == {t \in formats : t = "video" => parameterSets}
TracksOK == DOMAIN samples \subseteq Tracks

\* What is kept of a finished file.
Movie == UNION {[D -> Seq(Sample)] : D \in SUBSET Track}
HistoryTypes == samples \in Movie /\ finished \in Seq([rec : Nat, cells : Seq(Cell), samples : Movie])

\* What a step does to the samples: nothing, or it takes them all away, or it is one of two writes.
LEMMA SamplesStep ==
  ASSUME Mp4Assumption, Types, WriterInv, TracksOK, [Mp4Next]_mp4Vars
  PROVE  \/ samples' = samples
         \/ StartRecord /\ formats # {} /\ samples' = [t \in Tracks |-> <<>>]
         \/ StopFinish /\ samples' = <<>>
         \/ \E r \in Record : WriterWrite(r) /\ WriteSampleData(taken[r]) /\ taken[r].track \in DOMAIN samples
<1> USE DEF movie
<1>1. CASE StartRecord
  <2>1. CASE formats = {} BY <1>1, <2>1 DEF StartRecord
  <2>2. CASE formats # {}
    <3>1. AddTracks BY <1>1, <2>2 DEF StartRecord
    <3>2. samples' = [t \in Tracks |-> <<>>] BY <3>1 DEF AddTracks, Tracks, TracksOK
    <3> QED BY <1>1, <2>2, <3>2
  <2> QED BY <2>1, <2>2
<1>2. CASE StopFinish
  <2>1. FinishMovie \/ samples' = samples BY <1>2 DEF StopFinish
  <2>2. samples' \in {<<>>, samples} BY <2>1 DEF FinishMovie
  <2> QED BY <1>2, <2>2
<1>3. CASE Pause \/ Resume \/ ResumeAtKeyFrame BY <1>3 DEF Pause, Resume, ResumeAtKeyFrame
<1>4. CASE StopRecord \/ StopFlags \/ StopKeyFrame \/ StopClear \/ StopJoin
  BY <1>4 DEF StopRecord, StopFlags, StopKeyFrame, StopClear, StopJoin
<1>5. CASE EncodeConfig \/ EncodeVideo \/ EncodeAudio \/ Recycle
  BY <1>5 DEF EncodeConfig, EncodeVideo, EncodeAudio, Recycle
<1>6. ASSUME NEW t \in Track, Encoder(t) PROVE samples' = samples
  BY <1>6 DEF Encoder, ReadRecording, ReadPaused, ReadNeedKeyFrame, KeyFrameFound, AddFrame
<1>7. ASSUME NEW r \in Record, Writer(r)
      PROVE  \/ samples' = samples
             \/ WriterWrite(r) /\ WriteSampleData(taken[r]) /\ taken[r].track \in DOMAIN samples
  BY <1>7 DEF Writer, WriterBegin, WriterLoop, WriterPoll, WriterWait, WriterWrite
<1>8. CASE UNCHANGED mp4Vars BY <1>8 DEF mp4Vars
<1> QED BY <1>1, <1>2, <1>3, <1>4, <1>5, <1>6, <1>7, <1>8 DEF Mp4Next, UI, Stopping

\* The one sample that a write enters.
LEMMA SampleWritten ==
  ASSUME Types, NEW f \in Frame, f.track \in DOMAIN samples, WriteSampleData(f)
  PROVE  \E s \in Sample :
           /\ s.frame = f /\ s.offset = (IF mdat = "first" THEN recFileSize + 1 ELSE recFileSize)
           /\ samples' = [samples EXCEPT ![f.track] = Append(@, s)]
<1> DEFINE s == [offset |-> IF mdat = "first" THEN recFileSize + 1 ELSE recFileSize, frame |-> f]
<1>1. recFileSize \in Nat BY DEF Types, FileTypes
<1>2. s \in Sample BY <1>1 DEF Sample
<1>3. samples' = [samples EXCEPT ![f.track] = Append(@, s)] BY DEF WriteSampleData
<1> QED BY <1>2, <1>3

LEMMA TracksNext ==
  ASSUME Mp4Assumption, Types, WriterInv, TracksOK, [Mp4Next]_mp4Vars PROVE TracksOK'
<1>1. formats' = formats /\ (parameterSets => parameterSets')
  <2> USE DEF flags
  <2>1. CASE UI
    BY <2>1 DEF UI, Stopping, StartRecord, Pause, Resume, ResumeAtKeyFrame, StopRecord, StopFlags,
       StopKeyFrame,
       StopClear, StopJoin, StopFinish
  <2>2. CASE EncodeVideo \/ EncodeAudio \/ Recycle
    <3>1. UNCHANGED <<formats, parameterSets>> BY <2>2 DEF EncodeVideo, EncodeAudio, Recycle
    <3> QED BY <3>1
  <2>3. CASE EncodeConfig BY <2>3 DEF EncodeConfig
  <2>4. ASSUME NEW t \in Track, Encoder(t) PROVE UNCHANGED <<formats, parameterSets>>
    BY <2>4 DEF Encoder, ReadRecording, ReadPaused, ReadNeedKeyFrame, KeyFrameFound, AddFrame
  <2>5. ASSUME NEW r \in Record, Writer(r) PROVE UNCHANGED <<formats, parameterSets>>
    BY <2>5 DEF Writer, WriterBegin, WriterLoop, WriterPoll, WriterWait, WriterWrite
  <2>6. CASE UNCHANGED mp4Vars BY <2>6 DEF mp4Vars
  <2> QED BY <2>1, <2>2, <2>3, <2>4, <2>5, <2>6 DEF Mp4Next
<1>2. Tracks \subseteq Tracks' BY <1>1 DEF Tracks
<1>3. ASSUME NEW r \in Record, WriteSampleData(taken[r]) PROVE DOMAIN samples' = DOMAIN samples
  BY <1>3 DEF WriteSampleData
<1>4. DOMAIN <<>> = {} OBVIOUS
<1> QED BY <1>2, <1>3, <1>4, SamplesStep DEF TracksOK

LEMMA EmptyMovie == <<>> \in Movie /\ DOMAIN <<>> = {}
<1>1. <<>> \in [1 .. 0 -> Seq(Sample)] BY SeqDef, EmptySeq, LenProperties
<1>2. 1 .. 0 = {} OBVIOUS
<1>3. <<>> \in [{} -> Seq(Sample)] BY <1>1, <1>2
<1> QED BY <1>3 DEF Movie

\* finishMovie() adds the file it has completed to the finished ones.
LEMMA FinishedStep ==
  ASSUME Mp4Assumption, Types, HistoryTypes, [Mp4Next]_mp4Vars
  PROVE  \/ UNCHANGED finished
         \/ /\ StopFinish /\ samples' = <<>>
            /\ finished' = Append(finished, [rec |-> recordings, cells |-> cells', samples |-> samples])
<1> USE DEF movie
<1>1. CASE StopFinish
  <2>1. FinishMovie \/ UNCHANGED finished BY <1>1 DEF StopFinish
  <2> QED BY <1>1, <2>1 DEF FinishMovie
<1>2. CASE StartRecord BY <1>2 DEF StartRecord
<1>3. CASE Pause \/ Resume \/ ResumeAtKeyFrame \/ StopRecord \/ StopFlags \/ StopKeyFrame \/ StopClear \/ StopJoin
  BY <1>3 DEF Pause, Resume, ResumeAtKeyFrame, StopRecord, StopFlags, StopKeyFrame, StopClear,
     StopJoin
<1>4. CASE EncodeConfig \/ EncodeVideo \/ EncodeAudio \/ Recycle
  BY <1>4 DEF EncodeConfig, EncodeVideo, EncodeAudio, Recycle
<1>5. ASSUME NEW t \in Track, Encoder(t) PROVE UNCHANGED finished
  BY <1>5 DEF Encoder, ReadRecording, ReadPaused, ReadNeedKeyFrame, KeyFrameFound, AddFrame
<1>6. ASSUME NEW r \in Record, Writer(r) PROVE UNCHANGED finished
  BY <1>6 DEF Writer, WriterBegin, WriterLoop, WriterPoll, WriterWait, WriterWrite, WriteSampleData
<1>7. CASE UNCHANGED mp4Vars BY <1>7 DEF mp4Vars
<1> QED BY <1>1, <1>2, <1>3, <1>4, <1>5, <1>6, <1>7 DEF Mp4Next, UI, Stopping

\* Every finished file was finished before, or it is the one that is finished now.
LEMMA FinishedOne ==
  ASSUME Mp4Assumption, Types, HistoryTypes, [Mp4Next]_mp4Vars, NEW i \in DOMAIN finished'
  PROVE  \/ i \in DOMAIN finished /\ finished'[i] = finished[i]
         \/ /\ StopFinish /\ samples' = <<>> /\ finished' # finished
            /\ finished'[i] = [rec |-> recordings, cells |-> cells', samples |-> samples]
<1>1. CASE UNCHANGED finished BY <1>1
<1>2. CASE finished' # finished
  <2> DEFINE e == [rec |-> recordings, cells |-> cells', samples |-> samples]
  <2>1. StopFinish /\ samples' = <<>> /\ finished' = Append(finished, e) BY <1>2, FinishedStep
  <2> HIDE DEF e
  <2>2. (i \in DOMAIN finished /\ finished'[i] = finished[i]) \/ finished'[i] = e
    BY <2>1, AppendedOne DEF HistoryTypes
  <2> QED BY <1>2, <2>1, <2>2 DEF e
<1> QED BY <1>1, <1>2

LEMMA HistoryNext ==
  ASSUME Mp4Assumption, Types, Types', WriterInv, TracksOK, HistoryTypes, [Mp4Next]_mp4Vars PROVE HistoryTypes'
<1>1. samples' \in Movie
  <2>1. CASE samples' = samples BY <2>1 DEF HistoryTypes
  <2>2. CASE samples' = [t \in Tracks |-> <<>>]
    <3>1. Tracks \in SUBSET Track BY DEF Tracks, Types, ThreadTypes
    <3>2. samples' \in [Tracks -> Seq(Sample)] BY <2>2
    <3> QED BY <3>1, <3>2 DEF Movie
  <2>3. CASE samples' = <<>> BY <2>3, EmptyMovie
  <2>4. ASSUME NEW r \in Record, WriteSampleData(taken[r]), taken[r].track \in DOMAIN samples
        PROVE  samples' \in Movie
    <3>1. taken[r] \in Frame BY DEF Types, ThreadTypes
    <3>2. PICK s \in Sample : samples' = [samples EXCEPT ![taken[r].track] = Append(@, s)]
      BY <2>4, <3>1, SampleWritten
    <3>3. PICK D \in SUBSET Track : samples \in [D -> Seq(Sample)] BY DEF HistoryTypes, Movie
    <3>4. Append(samples[taken[r].track], s) \in Seq(Sample) BY <2>4, <3>3, AppendedTo
    <3>5. samples' \in [D -> Seq(Sample)] BY <3>2, <3>3, <3>4
    <3> QED BY <3>5 DEF Movie
  <2> QED BY <2>1, <2>2, <2>3, <2>4, SamplesStep
<1>2. finished' \in Seq([rec : Nat, cells : Seq(Cell), samples : Movie])
  <2>1. recordings \in Nat /\ cells' \in Seq(Cell) /\ samples \in Movie
    BY DEF Types, ThreadTypes, FileTypes, HistoryTypes, Mp4Assumption
  <2> DEFINE S == [rec : Nat, cells : Seq(Cell), samples : Movie]
             e == [rec |-> recordings, cells |-> cells', samples |-> samples]
  <2>2. e \in S BY <2>1
  <2>3. finished' = finished \/ finished' = Append(finished, e) BY FinishedStep
  <2>4. finished \in Seq(S) BY DEF HistoryTypes
  <2> HIDE DEF S, e
  <2>5. Append(finished, e) \in Seq(S) BY <2>2, <2>4, AppendedTo
  <2>6. finished' \in Seq(S) BY <2>3, <2>4, <2>5
  <2> QED BY <2>6 DEF S
<1> QED BY <1>1, <1>2 DEF HistoryTypes

-----------------------------------------------------------------------------
(* The order of the samples.                                                *)

\* The frame an encoder has in hand is the last one it has emitted; only the video encoder finds a
\* key frame.
EncoderOK ==
  /\ \A t \in Track : enc[t].pc # "idle" => enc[t].frame.track = t /\ enc[t].frame.n = encoded[t]
  /\ enc["video"].pc = "found" => enc["video"].frame.key
  /\ enc["audio"].pc # "found" /\ (enc["audio"].pc # "idle" => ~enc["audio"].frame.key)

\* An encoder thread's frame is emitted, goes on to the next test, or is done with.
EncMoves(t) ==
  \/ /\ enc[t].pc = "idle" /\ enc'[t].pc = "recording"
     /\ encoded' = [encoded EXCEPT ![t] = @ + 1]
     /\ enc'[t].frame.track = t /\ enc'[t].frame.n = encoded[t] + 1
     /\ t = "audio" => ~enc'[t].frame.key
  \/ /\ encoded' = encoded /\ enc[t].pc # "idle"
     /\ \/ enc'[t].pc = "idle"
        \/ /\ enc[t].pc # "recording" /\ enc'[t].pc \notin {"idle", "recording"}
           /\ enc'[t].frame = enc[t].frame
        \/ /\ enc[t].pc = "recording" /\ bRecording /\ enc'[t].pc = "paused"
           /\ enc'[t].frame = [enc[t].frame EXCEPT !.rec = recordings]
     /\ enc'[t].pc = "found" => enc'[t].frame.key

LEMMA EncStep ==
  ASSUME Types, [Mp4Next]_mp4Vars
  PROVE  \/ UNCHANGED <<enc, encoded>>
         \/ \E t \in Track : EncMoves(t) /\ \A u \in Track \ {t} : enc'[u] = enc[u]
<1>a. enc \in [Track -> [pc : EncPc, frame : Frame]] /\ encoded \in [Track -> Nat]
  BY DEF Types, ThreadTypes
<1>1. CASE UI
  BY <1>1 DEF UI, Stopping, StartRecord, Pause, Resume, ResumeAtKeyFrame, StopRecord, StopFlags,
     StopKeyFrame,
     StopClear, StopJoin, StopFinish, encVars
<1>2. CASE EncodeConfig \/ Recycle BY <1>2 DEF EncodeConfig, Recycle, encVars
<1>3. CASE EncodeVideo
  <2>1. "video" \in Track BY DEF Track
  <2>2. PICK key \in BOOLEAN :
          /\ enc["video"].pc = "idle" /\ encoded' = [encoded EXCEPT !["video"] = @ + 1]
          /\ enc' = [enc EXCEPT !["video"] = [pc |-> "recording", frame |-> NewFrame("video", key)]]
    BY <1>3 DEF EncodeVideo
  <2>3. enc'["video"] = [pc |-> "recording", frame |-> NewFrame("video", key)]
        /\ \A u \in Track \ {"video"} : enc'[u] = enc[u]
    BY <1>a, <2>1, <2>2
  <2>4. EncMoves("video") BY <2>1, <2>2, <2>3 DEF EncMoves, NewFrame
  <2> QED BY <2>1, <2>3, <2>4
<1>4. CASE EncodeAudio
  <2>1. "audio" \in Track BY DEF Track
  <2>2. CASE UNCHANGED <<enc, encoded>> BY <2>2
  <2>3. CASE /\ encoded' = [encoded EXCEPT !["audio"] = @ + 1]
             /\ enc' = [enc EXCEPT !["audio"] = [pc |-> "recording", frame |-> NewFrame("audio", FALSE)]]
    <3>1. enc'["audio"] = [pc |-> "recording", frame |-> NewFrame("audio", FALSE)]
          /\ \A u \in Track \ {"audio"} : enc'[u] = enc[u]
      BY <1>a, <2>1, <2>3
    <3>2. enc["audio"].pc = "idle" BY <1>4 DEF EncodeAudio
    <3>3. EncMoves("audio") BY <2>3, <3>1, <3>2 DEF EncMoves, NewFrame
    <3> QED BY <2>1, <3>1, <3>3
  <2> QED BY <1>4, <2>2, <2>3 DEF EncodeAudio
<1>5. ASSUME NEW t \in Track, Encoder(t)
      PROVE  EncMoves(t) /\ \A u \in Track \ {t} : enc'[u] = enc[u]
  <2>1. ASSUME NEW pc \in EncPc \ {"recording"}, Step(t, pc), enc[t].pc \notin {"idle", "recording"}, encoded' = encoded,
               pc = "found" => enc[t].frame.key
        PROVE  EncMoves(t) /\ \A u \in Track \ {t} : enc'[u] = enc[u]
    <3>1. enc'[t] = (IF pc = "idle" THEN Idle ELSE [pc |-> pc, frame |-> enc[t].frame])
          /\ \A u \in Track \ {t} : enc'[u] = enc[u]
      BY <1>a, <2>1 DEF Step
    <3>2. Idle.pc = "idle" BY DEF Idle
    <3> QED BY <2>1, <3>1, <3>2 DEF EncMoves
  <2>2. CASE ReadRecording(t)
    <3>1. enc'[t] = (IF bRecording THEN [pc |-> "paused", frame |-> [enc[t].frame EXCEPT !.rec = recordings]]
                                   ELSE Idle)
          /\ \A u \in Track \ {t} : enc'[u] = enc[u]
      BY <1>a, <2>2 DEF ReadRecording
    <3>2. Idle.pc = "idle" BY DEF Idle
    <3> QED BY <2>2, <3>1, <3>2 DEF EncMoves, ReadRecording
  <2>3. CASE ReadPaused(t) BY <2>1, <2>3 DEF ReadPaused, EncPc
  <2>4. CASE ReadNeedKeyFrame(t)
    <3>1. Wanted(t) \in EncPc \ {"recording"} /\ (Wanted(t) = "found" => enc[t].frame.key) BY DEF Wanted, EncPc
    <3> QED BY <2>1, <2>4, <3>1 DEF ReadNeedKeyFrame
  <2>5. CASE KeyFrameFound(t) BY <2>1, <2>5 DEF KeyFrameFound, EncPc
  <2>6. CASE AddFrame(t) BY <2>1, <2>6 DEF AddFrame, EncPc
  <2> QED BY <1>5, <2>2, <2>3, <2>4, <2>5, <2>6 DEF Encoder
<1>6. ASSUME NEW r \in Record, Writer(r) PROVE UNCHANGED <<enc, encoded>>
  BY <1>6 DEF Writer, WriterBegin, WriterLoop, WriterPoll, WriterWait, WriterWrite, encVars
<1>7. CASE UNCHANGED mp4Vars BY <1>7 DEF mp4Vars, encVars
<1> QED BY <1>1, <1>2, <1>3, <1>4, <1>5, <1>6, <1>7 DEF Mp4Next

LEMMA EncoderNext == ASSUME Types, EncoderOK, [Mp4Next]_mp4Vars PROVE EncoderOK'
<1>a. enc \in [Track -> [pc : EncPc, frame : Frame]] /\ encoded \in [Track -> Nat]
  BY DEF Types, ThreadTypes
<1>1. CASE UNCHANGED <<enc, encoded>> BY <1>1 DEF EncoderOK
<1>2. ASSUME NEW t \in Track, EncMoves(t), \A u \in Track \ {t} : enc'[u] = enc[u] PROVE EncoderOK'
  <2>1. \A u \in Track \ {t} : encoded'[u] = encoded[u] BY <1>a, <1>2 DEF EncMoves
  <2>2. enc'[t].pc # "idle" => enc'[t].frame.track = t /\ enc'[t].frame.n = encoded'[t]
    <3>1. CASE enc[t].pc = "idle" /\ encoded' = [encoded EXCEPT ![t] = @ + 1]
               /\ enc'[t].frame.track = t /\ enc'[t].frame.n = encoded[t] + 1
      BY <1>a, <3>1
    <3>2. CASE enc[t].pc # "idle" /\ encoded' = encoded /\ enc'[t].frame = enc[t].frame
      BY <3>2 DEF EncoderOK
    <3>3. CASE enc[t].pc # "idle" /\ encoded' = encoded /\ enc'[t].frame = [enc[t].frame EXCEPT !.rec = recordings]
      <4>1. enc[t].frame \in Frame BY <1>a
      <4>2. enc'[t].frame.track = enc[t].frame.track /\ enc'[t].frame.n = enc[t].frame.n BY <3>3, <4>1 DEF Frame
      <4> QED BY <3>3, <4>2 DEF EncoderOK
    <3> QED BY <1>2, <3>1, <3>2, <3>3 DEF EncMoves
  <2>3. enc'[t].pc = "found" => enc'[t].frame.key BY <1>2 DEF EncMoves
  <2>4. t = "audio" => (enc'[t].pc # "idle" => ~enc'[t].frame.key)
    <3>1. enc[t].frame \in Frame BY <1>a
    <3>2. [enc[t].frame EXCEPT !.rec = recordings].key = enc[t].frame.key BY <3>1 DEF Frame
    <3> QED BY <1>2, <3>2 DEF EncMoves, EncoderOK
  <2>5. Track = {"video", "audio"} BY DEF Track
  <2> QED BY <1>2, <2>1, <2>2, <2>3, <2>4, <2>5 DEF EncoderOK
<1> QED BY <1>1, <1>2, EncStep

\* The number of the next frame that an encoder adds to frameCache, at the least.
NextNumber(t) == IF enc[t].pc = "idle" THEN encoded[t] + 1 ELSE encoded[t]

Before(f, g) == f.track = g.track => f.n < g.n
Coming(f)    == f.n < NextNumber(f.track)

\* From the samples to the frame in the writer's hand, to those in the cache, and to the one that an
\* encoder adds next, the numbers of a track grow.
CacheOrder ==
  /\ \A i, j \in DOMAIN frameCache : i < j => Before(frameCache[i], frameCache[j])
  /\ \A i \in DOMAIN frameCache : Coming(frameCache[i])

TakenOrder ==
  \A r \in Record : writer[r] = "write" =>
    /\ Coming(taken[r])
    /\ \A i \in DOMAIN frameCache : Before(taken[r], frameCache[i])

\* The frame f, which is a sample, comes before all that may become one.
SampleOrder(f) ==
  /\ Coming(f)
  /\ \A i \in DOMAIN frameCache : Before(f, frameCache[i])
  /\ \A r \in Record : writer[r] = "write" => Before(f, taken[r])

\* The frames that the movie has of a track.
Sampled(t) == IF t \in DOMAIN samples THEN {samples[t][i].frame : i \in DOMAIN samples[t]} ELSE {}

SamplesOrder == \A t \in Track : \A f \in Sampled(t) : f.track = t /\ SampleOrder(f)

Ordered(m) == \A t \in DOMAIN m : \A i, j \in DOMAIN m[t] : i < j => m[t][i].frame.n < m[t][j].frame.n

OrderOK == CacheOrder /\ TakenOrder /\ SamplesOrder /\ Ordered(samples)

LEMMA NumbersGrow ==
  ASSUME Types, Types', [Mp4Next]_mp4Vars
  PROVE  \A t \in Track : NextNumber(t) \in Nat /\ NextNumber(t)' \in Nat /\ NextNumber(t) <= NextNumber(t)'
<1> TAKE t \in Track
<1>1. encoded[t] \in Nat /\ encoded'[t] \in Nat /\ encoded \in [Track -> Nat] BY DEF Types, ThreadTypes
<1>2. CASE enc'[t] = enc[t] /\ encoded'[t] = encoded[t] BY <1>1, <1>2 DEF NextNumber
<1>3. CASE EncMoves(t)
  <2>1. CASE enc[t].pc = "idle" /\ enc'[t].pc = "recording" /\ encoded' = [encoded EXCEPT ![t] = @ + 1]
    <3>1. encoded'[t] = encoded[t] + 1 BY <1>1, <2>1
    <3> QED BY <1>1, <2>1, <3>1 DEF NextNumber
  <2>2. CASE enc[t].pc # "idle" /\ encoded' = encoded BY <1>1, <2>2 DEF NextNumber
  <2> QED BY <1>3, <2>1, <2>2 DEF EncMoves
<1>4. ASSUME NEW u \in Track \ {t}, EncMoves(u), \A v \in Track \ {u} : enc'[v] = enc[v]
      PROVE  enc'[t] = enc[t] /\ encoded'[t] = encoded[t]
  BY <1>1, <1>4 DEF EncMoves
<1> QED BY <1>2, <1>3, <1>4, EncStep

\* The frames that the order is about have a number and a track.
LEMMA FramesTyped ==
  ASSUME Types
  PROVE  /\ \A f \in Frame : f.n \in Nat /\ f.track \in Track
         /\ \A i \in DOMAIN frameCache : frameCache[i] \in Frame
         /\ \A r \in Record : taken[r] \in Frame
         /\ \A t \in Track : Sampled(t) \subseteq Frame
         /\ DOMAIN samples \subseteq Track
<1>1. \A f \in Frame : f.n \in Nat /\ f.track \in Track BY DEF Frame
<1>2. frameCache \in Seq(Frame) /\ taken \in [Record -> Frame] BY DEF Types, ThreadTypes
<1>3. ASSUME NEW t \in DOMAIN samples, NEW i \in DOMAIN samples[t] PROVE samples[t][i].frame \in Frame
  <2>1. samples[t] \in Seq(Sample) BY DEF Types, FileTypes
  <2>2. samples[t][i] \in Sample BY <2>1
  <2> QED BY <2>2 DEF Sample
<1> QED BY <1>1, <1>2, <1>3 DEF Sampled, Types, FileTypes

\* The numbers that come grow.
LEMMA ComingKept ==
  ASSUME Types, Types', [Mp4Next]_mp4Vars, NEW f \in Frame, Coming(f) PROVE Coming(f)'
<1>1. f.n \in Nat /\ f.track \in Track BY FramesTyped
<1> QED BY <1>1, NumbersGrow DEF Coming

\* A step that adds no frame to the cache, takes none and writes none.
LEMMA OrderKept ==
  ASSUME Types, Types', OrderOK, [Mp4Next]_mp4Vars,
         frameCache' \in {frameCache, <<>>},
         \A r \in Record : writer'[r] = "write" => writer[r] = "write" /\ taken'[r] = taken[r],
         \A t \in DOMAIN samples' : samples'[t] = <<>> \/ (t \in DOMAIN samples /\ samples'[t] = samples[t])
  PROVE  OrderOK'
<1>1. \A i \in DOMAIN frameCache' : i \in DOMAIN frameCache /\ frameCache'[i] = frameCache[i] OBVIOUS
<1>2. CacheOrder' BY <1>1, ComingKept, FramesTyped DEF OrderOK, CacheOrder, Before
<1>3. TakenOrder' BY <1>1, ComingKept, FramesTyped DEF OrderOK, TakenOrder, Before
<1>4. \A t \in DOMAIN samples' : \A i \in DOMAIN samples'[t] :
        t \in DOMAIN samples /\ i \in DOMAIN samples[t] /\ samples'[t] = samples[t]
  OBVIOUS
<1>5. SamplesOrder'
  <2> SUFFICES ASSUME NEW t \in Track, NEW f \in Sampled(t)' PROVE f.track = t /\ SampleOrder(f)'
    BY DEF SamplesOrder
  <2>1. f \in Sampled(t) BY <1>4 DEF Sampled
  <2>2. f \in Frame /\ f.track = t /\ SampleOrder(f) BY <2>1, FramesTyped DEF OrderOK, SamplesOrder
  <2> QED BY <1>1, <2>2, ComingKept DEF SampleOrder, Before
<1>6. Ordered(samples)' BY <1>4 DEF OrderOK, Ordered
<1> QED BY <1>2, <1>3, <1>5, <1>6 DEF OrderOK

\* An encoder thread adds the frame with the last number to the cache.
LEMMA OrderAdded ==
  ASSUME Types, Types', EncoderOK, OrderOK, [Mp4Next]_mp4Vars, NEW t \in Track, AddFrame(t)
  PROVE  OrderOK'
<1>1. PICK g \in Frame : g = enc[t].frame /\ g.track = t /\ g.n = encoded[t] /\ NextNumber(t) = g.n
  BY DEF AddFrame, EncoderOK, Types, ThreadTypes, NextNumber
<1>2. NextNumber(t)' = g.n + 1
  <2>1. enc \in [Track -> [pc : EncPc, frame : Frame]] BY DEF Types, ThreadTypes
  <2>2. enc'[t].pc = "idle" BY <2>1 DEF AddFrame, Step, Idle
  <2> QED BY <1>1, <2>2 DEF AddFrame, NextNumber
<1>3. /\ frameCache' = Append(frameCache, g)
      /\ UNCHANGED <<writer, taken, samples>>
  BY <1>1 DEF AddFrame, wrtVars, movie
<1>4. /\ DOMAIN frameCache = 1 .. Len(frameCache) /\ Len(frameCache) \in Nat
      /\ DOMAIN frameCache' = 1 .. Len(frameCache) + 1
      /\ \A i \in DOMAIN frameCache : frameCache'[i] = frameCache[i]
      /\ frameCache'[Len(frameCache) + 1] = g
  <2>1. frameCache \in Seq(Frame) BY DEF Types, ThreadTypes
  <2> QED BY <1>1, <1>3, <2>1, AppendedTo
<1>5. \A i \in DOMAIN frameCache' :
        (i \in DOMAIN frameCache /\ frameCache'[i] = frameCache[i]) \/ (i = Len(frameCache) + 1 /\ frameCache'[i] = g)
  BY <1>4
<1>6. ASSUME NEW f \in Frame, Coming(f) PROVE Before(f, g) BY <1>1, <1>6 DEF Before, Coming
<1>7. Coming(g)'
  <2>1. g.n \in Nat BY FramesTyped
  <2> QED BY <1>1, <1>2, <2>1 DEF Coming
<1>8. CacheOrder'
  <2>1. ASSUME NEW i \in DOMAIN frameCache', NEW j \in DOMAIN frameCache', i < j
        PROVE  Before(frameCache'[i], frameCache'[j])
    <3>1. i \in DOMAIN frameCache /\ frameCache'[i] = frameCache[i] BY <1>4, <1>5, <2>1
    <3>2. CASE j \in DOMAIN frameCache BY <1>4, <2>1, <3>1, <3>2 DEF OrderOK, CacheOrder
    <3>3. CASE frameCache'[j] = g BY <1>6, <3>1, <3>3, FramesTyped DEF OrderOK, CacheOrder
    <3> QED BY <1>5, <3>2, <3>3
  <2>2. ASSUME NEW f \in Frame, \E i \in DOMAIN frameCache' : f = frameCache'[i] PROVE Coming(f)'
    <3>1. CASE f = g BY <1>7, <3>1
    <3>2. CASE \E i \in DOMAIN frameCache : f = frameCache[i]
      BY <3>2, ComingKept DEF OrderOK, CacheOrder
    <3> QED BY <1>5, <2>2, <3>1, <3>2
  <2>3. \A i \in DOMAIN frameCache' : frameCache'[i] \in Frame BY <1>1, <1>5, FramesTyped
  <2> QED BY <2>1, <2>2, <2>3 DEF CacheOrder, Before, Coming, NextNumber
<1>9. TakenOrder'
  <2> SUFFICES ASSUME NEW r \in Record, writer[r] = "write"
               PROVE  Coming(taken[r])' /\ \A i \in DOMAIN frameCache' : Before(taken[r], frameCache'[i])
    BY <1>3 DEF TakenOrder, Before
  <2>1. taken[r] \in Frame /\ Coming(taken[r]) /\ taken'[r] = taken[r] BY <1>3, FramesTyped DEF OrderOK, TakenOrder
  <2>2. Coming(taken[r])' BY <2>1, ComingKept
  <2>3. \A i \in DOMAIN frameCache' : Before(taken[r], frameCache'[i])
    BY <1>5, <1>6, <2>1 DEF OrderOK, TakenOrder
  <2> QED BY <2>2, <2>3
<1>10. SamplesOrder'
  <2> SUFFICES ASSUME NEW u \in Track, NEW f \in Sampled(u)' PROVE f.track = u /\ SampleOrder(f)'
    BY DEF SamplesOrder
  <2>1. f \in Sampled(u) BY <1>3 DEF Sampled
  <2>2. f \in Frame /\ f.track = u /\ SampleOrder(f) BY <2>1, FramesTyped DEF OrderOK, SamplesOrder
  <2>3. \A i \in DOMAIN frameCache' : Before(f, frameCache'[i]) BY <1>5, <1>6, <2>2 DEF SampleOrder
  <2> QED BY <1>3, <2>2, <2>3, ComingKept DEF SampleOrder, Before
<1>11. Ordered(samples)' BY <1>3 DEF OrderOK, Ordered
<1> QED BY <1>8, <1>9, <1>10, <1>11 DEF OrderOK

\* The writer takes the first frame of the cache.
LEMMA OrderPolled ==
  ASSUME Types, Types', OrderOK, [Mp4Next]_mp4Vars, NEW r \in Record, WriterPoll(r)
  PROVE  OrderOK'
<1>1. PICK g \in Frame : /\ g = frameCache[1] /\ Coming(g) /\ frameCache # <<>> /\ 1 \in DOMAIN frameCache
                        /\ taken' = [taken EXCEPT ![r] = g]
  <2>1. ASSUME NEW S, NEW q \in Seq(S), q # <<>> PROVE Head(q) = q[1] /\ 1 \in DOMAIN q BY <2>1
  <2>2. frameCache # <<>> /\ frameCache \in Seq(Frame) BY DEF WriterPoll, Types, ThreadTypes
  <2> QED BY <2>1, <2>2, FramesTyped DEF WriterPoll, OrderOK, CacheOrder
<1>2. /\ writer' = [writer EXCEPT ![r] = "write"] /\ UNCHANGED samples
      /\ frameCache' = Tail(frameCache)
  BY DEF WriterPoll, WriterStep, Polled, movie
<1>3. \A i \in DOMAIN frameCache' : /\ i \in Nat /\ 1 < i + 1
                                    /\ 1 \in DOMAIN frameCache
                                    /\ i + 1 \in DOMAIN frameCache /\ frameCache'[i] = frameCache[i + 1]
  <2>1. ASSUME NEW S, NEW q \in Seq(S), q # <<>>, NEW i \in DOMAIN Tail(q)
        PROVE  i \in Nat /\ 1 < i + 1 /\ 1 \in DOMAIN q /\ i + 1 \in DOMAIN q /\ Tail(q)[i] = q[i + 1]
    BY <2>1
  <2>2. frameCache \in Seq(Frame) BY DEF Types, ThreadTypes
  <2> QED BY <1>1, <1>2, <2>1, <2>2
<1>4. \A i \in DOMAIN frameCache' : Before(g, frameCache'[i]) BY <1>1, <1>3 DEF OrderOK, CacheOrder
<1>5. \A q \in Record : writer'[q] = "write" => taken'[q] = g \/ (writer[q] = "write" /\ taken'[q] = taken[q])
  <2>1. taken \in [Record -> Frame] /\ writer \in [Record -> {"none", "new", "loop", "drain", "write", "wait", "done"}]
    BY DEF Types, ThreadTypes
  <2> QED BY <1>1, <1>2, <2>1
<1>6. CacheOrder'
  <2>1. ASSUME NEW i \in DOMAIN frameCache', NEW j \in DOMAIN frameCache', i < j
        PROVE  Before(frameCache'[i], frameCache'[j])
    <3>1. i + 1 < j + 1 BY <1>3, <2>1
    <3> QED BY <1>3, <3>1 DEF OrderOK, CacheOrder
  <2>2. ASSUME NEW f \in Frame, \E i \in DOMAIN frameCache' : f = frameCache'[i] PROVE Coming(f)'
    BY <1>3, <2>2, ComingKept DEF OrderOK, CacheOrder
  <2>3. \A i \in DOMAIN frameCache' : frameCache'[i] \in Frame BY <1>3, FramesTyped
  <2> QED BY <2>1, <2>2, <2>3 DEF CacheOrder, Before, Coming, NextNumber
<1>7. TakenOrder'
  <2> SUFFICES ASSUME NEW q \in Record, writer'[q] = "write", NEW f \in Frame, f = taken'[q]
               PROVE  Coming(f)' /\ \A i \in DOMAIN frameCache' : Before(f, frameCache'[i])
    <3>1. \A q \in Record : taken'[q] \in Frame BY DEF Types, ThreadTypes
    <3> QED BY <3>1 DEF TakenOrder, Before, Coming, NextNumber
  <2>1. CASE f = g BY <1>1, <1>4, <2>1, ComingKept
  <2>2. CASE writer[q] = "write" /\ f = taken[q] BY <1>3, <2>2, ComingKept DEF OrderOK, TakenOrder
  <2> QED BY <1>5, <2>1, <2>2
<1>8. SamplesOrder'
  <2> SUFFICES ASSUME NEW u \in Track, NEW f \in Sampled(u)' PROVE f.track = u /\ SampleOrder(f)'
    BY DEF SamplesOrder
  <2>1. f \in Sampled(u) BY <1>2 DEF Sampled
  <2>2. f \in Frame /\ f.track = u /\ SampleOrder(f) BY <2>1, FramesTyped DEF OrderOK, SamplesOrder
  <2>3. Before(f, g) BY <1>1, <1>3, <2>2 DEF SampleOrder
  <2>4. \A i \in DOMAIN frameCache' : Before(f, frameCache'[i]) BY <1>3, <2>2 DEF SampleOrder
  <2>5. \A q \in Record : writer'[q] = "write" => Before(f, taken'[q]) BY <1>5, <2>2, <2>3 DEF SampleOrder
  <2> QED BY <2>2, <2>4, <2>5, ComingKept DEF SampleOrder, Before
<1>9. Ordered(samples)' BY <1>2 DEF OrderOK, Ordered
<1> QED BY <1>6, <1>7, <1>8, <1>9 DEF OrderOK

\* The writer enters the frame it has taken behind the other samples of its track.
LEMMA OrderWritten ==
  ASSUME Types, Types', WriterInv, OrderOK, [Mp4Next]_mp4Vars, NEW r \in Record, WriterWrite(r),
         WriteSampleData(taken[r]), taken[r].track \in DOMAIN samples
  PROVE  OrderOK'
<1>1. PICK g \in Frame : g = taken[r] BY FramesTyped
<1>2. PICK s \in Sample : s.frame = g /\ samples' = [samples EXCEPT ![g.track] = Append(@, s)]
  BY <1>1, SampleWritten
<1>3. Coming(g) /\ \A i \in DOMAIN frameCache : Before(g, frameCache[i])
  BY <1>1 DEF WriterWrite, OrderOK, TakenOrder
<1>4. /\ frameCache' = frameCache
      /\ \A q \in Record : writer'[q] # "write"
  <2>1. writer[r] = "write" /\ writer' \in {writer, [writer EXCEPT ![r] = "drain"]} /\ frameCache' = frameCache
    BY DEF WriterWrite, Written, WriterStep
  <2>2. \A q \in Record : q # r => writer[q] # "write"
    BY <2>1 DEF WriterInv, OneWriter
  <2>3. writer' = [writer EXCEPT ![r] = "drain"]
    <3>1. samples' # samples
      <4>1. samples[g.track] \in Seq(Sample) BY <1>1 DEF Types, FileTypes
      <4>2. samples'[g.track] = Append(samples[g.track], s) BY <1>1, <1>2
      <4>3. Len(samples'[g.track]) # Len(samples[g.track]) BY <4>1, <4>2, AppendedTo
      <4> QED BY <4>3
    <3> QED BY <3>1 DEF WriterWrite, Written, WriterStep, movie
  <2> QED BY <2>1, <2>2, <2>3 DEF Types, ThreadTypes
<1>5. CacheOrder'
  <2>1. ASSUME NEW f \in Frame, \E i \in DOMAIN frameCache' : f = frameCache'[i] PROVE Coming(f)'
    BY <1>4, <2>1, ComingKept DEF OrderOK, CacheOrder
  <2>2. \A i \in DOMAIN frameCache' : frameCache'[i] \in Frame BY <1>4, FramesTyped
  <2> QED BY <1>4, <2>1, <2>2 DEF OrderOK, CacheOrder, Before, Coming, NextNumber
<1>6. TakenOrder' BY <1>4 DEF TakenOrder
<1>7. DOMAIN samples' = DOMAIN samples /\ \A t \in DOMAIN samples : t # g.track => samples'[t] = samples[t]
  BY <1>2
<1>8. /\ DOMAIN samples[g.track] = 1 .. Len(samples[g.track]) /\ Len(samples[g.track]) \in Nat
      /\ DOMAIN samples'[g.track] = 1 .. Len(samples[g.track]) + 1
      /\ \A i \in DOMAIN samples[g.track] : samples'[g.track][i] = samples[g.track][i]
      /\ samples'[g.track][Len(samples[g.track]) + 1].frame = g
  <2>1. samples[g.track] \in Seq(Sample) BY <1>1 DEF Types, FileTypes
  <2>2. samples'[g.track] = Append(samples[g.track], s) BY <1>1, <1>2
  <2> QED BY <1>2, <2>1, <2>2, AppendedTo
<1>9. SamplesOrder'
  <2> SUFFICES ASSUME NEW u \in Track, NEW f \in Sampled(u)' PROVE f.track = u /\ SampleOrder(f)'
    BY DEF SamplesOrder
  <2>1. f \in Sampled(u) \/ (f = g /\ u = g.track) BY <1>1, <1>7, <1>8 DEF Sampled
  <2>2. /\ f \in Frame /\ f.track = u /\ Coming(f)
        /\ \A i \in DOMAIN frameCache : Before(f, frameCache[i])
    BY <1>3, <2>1, FramesTyped DEF OrderOK, SamplesOrder, SampleOrder
  <2> QED BY <1>4, <2>2, ComingKept DEF SampleOrder, Before
<1>10. Ordered(samples)'
  <2> SUFFICES ASSUME NEW t \in DOMAIN samples', NEW i \in DOMAIN samples'[t], NEW j \in DOMAIN samples'[t], i < j
               PROVE  samples'[t][i].frame.n < samples'[t][j].frame.n
    BY DEF Ordered
  <2>1. CASE t # g.track BY <1>7, <2>1 DEF OrderOK, Ordered
  <2>2. CASE t = g.track
    <3>1. i \in DOMAIN samples[t] /\ samples'[t][i] = samples[t][i] BY <1>8, <2>2
    <3>2. CASE j \in DOMAIN samples[t] BY <1>7, <1>8, <2>2, <3>1, <3>2 DEF OrderOK, Ordered
    <3>3. CASE j = Len(samples[t]) + 1
      <4>1. samples[t][i].frame \in Sampled(t) /\ t \in Track BY <1>7, <3>1, FramesTyped DEF Sampled
      <4>2. samples[t][i].frame.track = t /\ Before(samples[t][i].frame, g)
        BY <1>1, <4>1 DEF OrderOK, SamplesOrder, SampleOrder, WriterWrite
      <4> QED BY <1>8, <2>2, <3>1, <3>3, <4>2 DEF Before
    <3> QED BY <1>8, <2>2, <3>2, <3>3
  <2> QED BY <2>1, <2>2
<1> QED BY <1>5, <1>6, <1>9, <1>10 DEF OrderOK

\* The cache and what the writers have in hand, by what a step does to them.
LEMMA FramesStep ==
  ASSUME Types, [Mp4Next]_mp4Vars
  PROVE  \/ \E t \in Track : AddFrame(t)
         \/ \E r \in Record : WriterPoll(r)
         \/ /\ frameCache' = frameCache \/ (StopClear /\ frameCache' = <<>>)
            /\ \A r \in Record : writer'[r] = "write" => writer[r] = "write" /\ taken'[r] = taken[r]
<1> DEFINE Kept == \A r \in Record : writer'[r] = "write" => writer[r] = "write" /\ taken'[r] = taken[r]
<1>a. /\ writer \in [Record -> {"none", "new", "loop", "drain", "write", "wait", "done"}]
      /\ taken \in [Record -> Frame]
  BY DEF Types, ThreadTypes
<1>1. CASE StartRecord
  <2>1. writer' = writer \/ writer' = [writer EXCEPT ![recordings'] = "new"] BY <1>1 DEF StartRecord, WriterStep
  <2>2. Kept BY <1>a, <1>1, <2>1 DEF StartRecord
  <2> QED BY <1>1, <2>2 DEF StartRecord
<1>2. CASE StopClear BY <1>2 DEF StopClear, Cleared, wrtVars
<1>3. CASE Pause \/ Resume \/ ResumeAtKeyFrame \/ StopRecord \/ StopFlags \/ StopKeyFrame \/ StopJoin \/ StopFinish
  BY <1>3 DEF Pause, Resume, ResumeAtKeyFrame, StopRecord, StopFlags, StopKeyFrame, StopJoin,
     StopFinish, wrtVars
<1>4. CASE EncodeConfig \/ EncodeVideo \/ EncodeAudio \/ Recycle
  BY <1>4 DEF EncodeConfig, EncodeVideo, EncodeAudio, Recycle, wrtVars
<1>5. ASSUME NEW t \in Track, Encoder(t), ~AddFrame(t) PROVE UNCHANGED <<frameCache, writer, taken>>
  BY <1>5 DEF Encoder, ReadRecording, ReadPaused, ReadNeedKeyFrame, KeyFrameFound, wrtVars
<1>6. ASSUME NEW r \in Record, Writer(r), ~WriterPoll(r) PROVE frameCache' = frameCache /\ Kept
  <2>1. frameCache' = frameCache
    BY <1>6 DEF Writer, WriterBegin, WriterLoop, WriterWait, WriterWrite
  <2>2. CASE WriterWrite(r)
    <3>1. UNCHANGED <<writer, taken>> \/ Written(r) BY <2>2 DEF WriterWrite
    <3>2. CASE Written(r)
      <4>1. \A q \in Record : writer'[q] = "write" => q # r /\ writer[q] = "write"
        BY <1>a, <3>2 DEF Written, WriterStep
      <4>2. \A q \in Record : q # r => taken'[q] = taken[q] BY <1>a, <3>2 DEF Written
      <4> QED BY <2>1, <4>1, <4>2
    <3> QED BY <2>1, <3>1, <3>2
  <2>3. CASE ~WriterWrite(r)
    <3>1. taken' = taken /\ \E pc \in {"loop", "drain", "done"} : writer' = [writer EXCEPT ![r] = pc]
      BY <1>6, <2>3 DEF Writer, WriterBegin, WriterLoop, WriterWait, WriterStep
    <3>2. Kept BY <1>a, <3>1
    <3> QED BY <2>1, <3>2
  <2> QED BY <2>2, <2>3
<1>7. CASE UNCHANGED mp4Vars BY <1>7 DEF mp4Vars, wrtVars
<1> QED BY <1>1, <1>2, <1>3, <1>4, <1>5, <1>6, <1>7 DEF Mp4Next, UI, Stopping

LEMMA OrderNext ==
  ASSUME Mp4Assumption, Types, Types', WriterInv, TracksOK, EncoderOK, OrderOK, [Mp4Next]_mp4Vars
  PROVE  OrderOK'
<1>1. ASSUME NEW t \in Track, AddFrame(t) PROVE OrderOK' BY <1>1, OrderAdded
<1>2. ASSUME NEW r \in Record, WriterPoll(r) PROVE OrderOK' BY <1>2, OrderPolled
<1>3. ASSUME NEW r \in Record, WriterWrite(r), WriteSampleData(taken[r]), taken[r].track \in DOMAIN samples
      PROVE  OrderOK'
  BY <1>3, OrderWritten
<1>4. ASSUME \A t \in DOMAIN samples' : samples'[t] = <<>> \/ (t \in DOMAIN samples /\ samples'[t] = samples[t]),
             frameCache' \in {frameCache, <<>>},
             \A r \in Record : writer'[r] = "write" => writer[r] = "write" /\ taken'[r] = taken[r]
      PROVE  OrderOK'
  BY <1>4, OrderKept
<1>5. DOMAIN <<>> = {} OBVIOUS
<1>6. \/ \E r \in Record : WriterWrite(r) /\ WriteSampleData(taken[r]) /\ taken[r].track \in DOMAIN samples
      \/ \A t \in DOMAIN samples' : samples'[t] = <<>> \/ (t \in DOMAIN samples /\ samples'[t] = samples[t])
  BY <1>5, SamplesStep
<1> QED BY <1>1, <1>2, <1>3, <1>4, <1>6, FramesStep

\* The samples of the finished files, as of the one that is open, are in order.
LEMMA InOrderParts == InOrder <=> Ordered(samples) /\ \A i \in DOMAIN finished : Ordered(finished[i].samples)
BY DEF InOrder, Movies, Ordered

LEMMA InOrderNext ==
  ASSUME Mp4Assumption, Types, HistoryTypes, OrderOK, OrderOK', InOrder, [Mp4Next]_mp4Vars
  PROVE  InOrder'
<1>1. ASSUME NEW i \in DOMAIN finished' PROVE Ordered(finished'[i].samples)
  <2>1. CASE i \in DOMAIN finished /\ finished'[i] = finished[i] BY <2>1, InOrderParts
  <2>2. CASE finished'[i] = [rec |-> recordings, cells |-> cells', samples |-> samples]
    BY <2>2 DEF OrderOK
  <2> QED BY <2>1, <2>2, FinishedOne
<1>2. Ordered(samples)' BY DEF OrderOK
<1> QED BY <1>1, <1>2 DEF InOrder, Movies, Ordered

-----------------------------------------------------------------------------
(* The frames that a stop() leaves behind.                                  *)

\* The frames of a track that have passed the test of bRecording.
InHand(t)  == {taken[r] : r \in {q \in Record : writer[q] = "write" /\ taken[q].track = t}}
Cached(t)  == {frameCache[i] : i \in {j \in DOMAIN frameCache : frameCache[j].track = t}}
Pending(t) == IF enc[t].pc \in {"idle", "recording"} THEN {} ELSE {enc[t].frame}
Passed(t)  == Sampled(t) \cup InHand(t) \cup Cached(t) \cup Pending(t)

\* A frame passes it only while bRecording is set, and then it is of this recording.
LEMMA PassedStep ==
  ASSUME Mp4Assumption, Types, WriterInv, TracksOK, EncoderOK, [Mp4Next]_mp4Vars, NEW t \in Track
  PROVE  /\ \A f \in Pending(t)' : f \in Pending(t) \/ (bRecording /\ f.rec = recordings)
         /\ \A f \in Cached(t)'  : f \in Cached(t) \/ f \in Pending(t)
         /\ \A f \in InHand(t)'  : f \in InHand(t) \/ f \in Cached(t)
         /\ \A f \in Sampled(t)' : f \in Sampled(t) \/ f \in InHand(t)
<1>1. \A f \in Pending(t)' : f \in Pending(t) \/ (bRecording /\ f.rec = recordings)
  <2>1. CASE enc'[t] = enc[t] BY <2>1 DEF Pending
  <2>2. CASE EncMoves(t)
    <3>1. enc[t].frame \in Frame BY DEF Types, ThreadTypes
    <3>2. [enc[t].frame EXCEPT !.rec = recordings].rec = recordings BY <3>1 DEF Frame
    <3> QED BY <2>2, <3>2 DEF EncMoves, Pending
  <2> QED BY <2>1, <2>2, EncStep
<1> DEFINE Moved == /\ \A f \in Cached(t)' : f \in Cached(t) \/ f \in Pending(t)
                    /\ \A f \in InHand(t)' : f \in InHand(t) \/ f \in Cached(t)
<1>2. Moved
  <2>1. ASSUME NEW u \in Track, AddFrame(u) PROVE Moved
    <3>1. /\ enc[u].pc = "add" /\ frameCache' = Append(frameCache, enc[u].frame)
          /\ enc[u].frame.track = u /\ UNCHANGED <<writer, taken>>
      BY <2>1 DEF AddFrame, EncoderOK, wrtVars
    <3>2. \A i \in DOMAIN frameCache' :
            (i \in DOMAIN frameCache /\ frameCache'[i] = frameCache[i]) \/ frameCache'[i] = enc[u].frame
      <4>1. frameCache \in Seq(Frame) /\ enc[u].frame \in Frame BY DEF Types, ThreadTypes
      <4> QED BY <3>1, <4>1, AppendedOne
    <3> QED BY <3>1, <3>2 DEF Cached, InHand, Pending
  <2>2. ASSUME NEW r \in Record, WriterPoll(r) PROVE Moved
    <3>1. /\ frameCache \in Seq(Frame) /\ frameCache # <<>>
          /\ frameCache' = Tail(frameCache) /\ taken' = [taken EXCEPT ![r] = Head(frameCache)]
          /\ writer' = [writer EXCEPT ![r] = "write"]
      BY <2>2 DEF WriterPoll, WriterStep, Polled, Types, ThreadTypes
    <3>2. /\ \A i \in DOMAIN frameCache' : \E j \in DOMAIN frameCache : frameCache'[i] = frameCache[j]
          /\ \E j \in DOMAIN frameCache : Head(frameCache) = frameCache[j]
      <4>1. ASSUME NEW S, NEW q \in Seq(S), q # <<>>
            PROVE  /\ \A i \in DOMAIN Tail(q) : i + 1 \in DOMAIN q /\ Tail(q)[i] = q[i + 1]
                   /\ 1 \in DOMAIN q /\ Head(q) = q[1]
        BY <4>1
      <4>2. /\ \A i \in DOMAIN frameCache' : i + 1 \in DOMAIN frameCache /\ frameCache'[i] = frameCache[i + 1]
            /\ 1 \in DOMAIN frameCache /\ Head(frameCache) = frameCache[1]
        BY <3>1, <4>1
      <4> QED BY <4>2
    <3>3. \A q \in Record : writer'[q] = "write" =>
            taken'[q] = Head(frameCache) \/ (writer[q] = "write" /\ taken'[q] = taken[q])
      BY <3>1 DEF Types, ThreadTypes
    <3> QED BY <3>2, <3>3 DEF Cached, InHand
  <2>3. ASSUME frameCache' = frameCache \/ frameCache' = <<>>,
               \A r \in Record : writer'[r] = "write" => writer[r] = "write" /\ taken'[r] = taken[r]
        PROVE  Moved
    <3>1. \A i \in DOMAIN frameCache' : i \in DOMAIN frameCache /\ frameCache'[i] = frameCache[i] BY <2>3
    <3> QED BY <2>3, <3>1 DEF Cached, InHand
  <2> QED BY <2>1, <2>2, <2>3, FramesStep
<1>3. \A f \in Sampled(t)' : f \in Sampled(t) \/ f \in InHand(t)
  <2>1. CASE samples' = samples BY <2>1 DEF Sampled
  <2>2. CASE samples' = [u \in Tracks |-> <<>>] BY <2>2 DEF Sampled
  <2>3. CASE samples' = <<>> BY <2>3 DEF Sampled
  <2>4. ASSUME NEW r \in Record, WriterWrite(r), WriteSampleData(taken[r]), taken[r].track \in DOMAIN samples
        PROVE  \A f \in Sampled(t)' : f \in Sampled(t) \/ f \in InHand(t)
    <3>1. PICK g \in Frame : g = taken[r] BY FramesTyped
    <3>2. PICK s \in Sample : s.frame = g /\ samples' = [samples EXCEPT ![g.track] = Append(@, s)]
      BY <2>4, <3>1, SampleWritten
    <3>3. CASE t # g.track BY <3>2, <3>3 DEF Sampled
    <3>4. CASE t = g.track
      <4>1. samples[t] \in Seq(Sample) /\ t \in DOMAIN samples BY <2>4, <3>1, <3>4 DEF Types, FileTypes
      <4>2. samples'[t] = Append(samples[t], s) /\ t \in DOMAIN samples' BY <3>2, <3>4, <4>1
      <4>3. \A i \in DOMAIN samples'[t] :
              (i \in DOMAIN samples[t] /\ samples'[t][i] = samples[t][i]) \/ samples'[t][i] = s
        BY <4>1, <4>2, AppendedOne
      <4>4. g \in InHand(t) BY <2>4, <3>1, <3>4 DEF InHand, WriterWrite
      <4> QED BY <3>2, <4>1, <4>2, <4>3, <4>4 DEF Sampled
    <3> QED BY <3>3, <3>4
  <2> QED BY <2>1, <2>2, <2>3, <2>4, SamplesStep
<1> QED BY <1>1, <1>2, <1>3

AtMostOne(S) == \A f, g \in S : f = g

LEMMA AtMostOneCounts == ASSUME NEW S, AtMostOne(S) PROVE Cardinality(S) <= 1
<1>1. CASE S = {} BY <1>1, FS_EmptySet
<1>2. CASE S # {}
  <2>1. PICK x : S = {x} BY <1>2 DEF AtMostOne
  <2>2. Cardinality({x}) = 1 BY FS_Singleton
  <2> QED BY <2>1, <2>2
<1> QED BY <1>1, <1>2

\* resume() is called only with the button on "stop recording".
ButtonOK == ui = "resume" => button

\* stop() has cleared the cache, and no encoder thread passes the test of bRecording.
AfterClear == ~bRecording /\ (ui \in {"join", "finish"} \/ (ui = "idle" /\ ~button))

StaleOK ==
  /\ ButtonOK
  /\ \A t \in Track : AtMostOne({f \in Passed(t) : f.rec # recordings})
  /\ AfterClear => \A t \in Track : AtMostOne(Cached(t) \cup Pending(t))

LEMMA ButtonNext == ASSUME Types, ButtonOK, [Mp4Next]_mp4Vars PROVE ButtonOK'
<1> USE DEF ButtonOK
<1>1. CASE StartRecord BY <1>1 DEF StartRecord
<1>2. CASE Pause \/ Resume \/ ResumeAtKeyFrame BY <1>2 DEF Pause, Resume, ResumeAtKeyFrame
<1>3. CASE StopRecord \/ StopFlags \/ StopKeyFrame \/ StopClear \/ StopJoin \/ StopFinish
  BY <1>3 DEF StopRecord, StopFlags, StopKeyFrame, StopClear, StopJoin, StopFinish
<1>4. CASE EncodeConfig \/ EncodeVideo \/ EncodeAudio \/ Recycle
  BY <1>4 DEF EncodeConfig, EncodeVideo, EncodeAudio, Recycle, uiVars
<1>5. ASSUME NEW t \in Track, Encoder(t) PROVE ButtonOK'
  BY <1>5 DEF Encoder, ReadRecording, ReadPaused, ReadNeedKeyFrame, KeyFrameFound, AddFrame, uiVars
<1>6. ASSUME NEW r \in Record, Writer(r) PROVE ButtonOK'
  BY <1>6 DEF Writer, WriterBegin, WriterLoop, WriterPoll, WriterWait, WriterWrite, uiVars
<1>7. CASE UNCHANGED mp4Vars BY <1>7 DEF mp4Vars, uiVars
<1> QED BY <1>1, <1>2, <1>3, <1>4, <1>5, <1>6, <1>7 DEF Mp4Next, UI, Stopping

\* Only clearing the cache leads there, and while it lasts nothing is recorded.
LEMMA ClearStep ==
  ASSUME Types, WriterInv, ButtonOK, [Mp4Next]_mp4Vars, AfterClear'
  PROVE  AfterClear \/ (StopClear /\ frameCache' = <<>>)
<1> USE DEF AfterClear, flags
<1>1. CASE StartRecord BY <1>1 DEF StartRecord
<1>2. CASE Pause \/ Resume BY <1>2 DEF Pause, Resume
<1>3. CASE ResumeAtKeyFrame BY <1>3 DEF ResumeAtKeyFrame, ButtonOK
<1>4. CASE StopRecord BY <1>4 DEF StopRecord
<1>5. CASE StopFlags \/ StopKeyFrame BY <1>5 DEF StopFlags, StopKeyFrame
<1>6. CASE StopClear BY <1>6 DEF StopClear, Cleared
<1>7. CASE StopJoin \/ StopFinish BY <1>7 DEF StopJoin, StopFinish
<1>8. CASE EncodeConfig \/ EncodeVideo \/ EncodeAudio \/ Recycle
  <2>1. UNCHANGED <<bRecording, ui, button>>
    BY <1>8 DEF EncodeConfig, EncodeVideo, EncodeAudio, Recycle, uiVars
  <2> QED BY <2>1
<1>9. ASSUME NEW t \in Track, Encoder(t) PROVE AfterClear
  <2>1. UNCHANGED <<bRecording, ui, button>>
    BY <1>9 DEF Encoder, ReadRecording, ReadPaused, ReadNeedKeyFrame, KeyFrameFound, AddFrame,
       uiVars
  <2> QED BY <2>1
<1>10. ASSUME NEW r \in Record, Writer(r) PROVE AfterClear
  <2>1. UNCHANGED <<ui, button>> /\ (bRecording => bRecording')
    BY <1>10 DEF Writer, WriterBegin, WriterLoop, WriterPoll, WriterWait, WriterWrite, uiVars
  <2> QED BY <2>1
<1>11. CASE UNCHANGED mp4Vars BY <1>11 DEF mp4Vars, uiVars
<1> QED BY <1>1, <1>2, <1>3, <1>4, <1>5, <1>6, <1>7, <1>8, <1>9, <1>10, <1>11 DEF Mp4Next, UI,
           Stopping

\* The number of recordings changes only when record() finds the cache cleared and no writer.
LEMMA NewRecording ==
  ASSUME Types, WriterInv, RecordingOK, [Mp4Next]_mp4Vars, recordings' # recordings
  PROVE  StartRecord /\ formats # {} /\ recordings' = recordings + 1 /\ AfterClear /\ worker = 0
         /\ \A r \in Record : writer[r] # "write"
<1>1. StartRecord /\ formats # {}
  <2>1. CASE Pause \/ Resume \/ ResumeAtKeyFrame BY <2>1 DEF Pause, Resume, ResumeAtKeyFrame
  <2>2. CASE StopRecord \/ StopFlags \/ StopKeyFrame \/ StopClear \/ StopJoin \/ StopFinish
    BY <2>2 DEF StopRecord, StopFlags, StopKeyFrame, StopClear, StopJoin, StopFinish
  <2>3. CASE EncodeConfig \/ EncodeVideo \/ EncodeAudio \/ Recycle
    BY <2>3 DEF EncodeConfig, EncodeVideo, EncodeAudio, Recycle, uiVars
  <2>4. \A t \in Track : ~Encoder(t)
    BY DEF Encoder, ReadRecording, ReadPaused, ReadNeedKeyFrame, KeyFrameFound, AddFrame, uiVars
  <2>5. \A r \in Record : ~Writer(r)
    BY DEF Writer, WriterBegin, WriterLoop, WriterPoll, WriterWait, WriterWrite, uiVars
  <2>6. ~UNCHANGED mp4Vars BY DEF mp4Vars, uiVars
  <2>7. formats = {} => ~StartRecord BY DEF StartRecord
  <2> QED BY <2>1, <2>2, <2>3, <2>4, <2>5, <2>6, <2>7 DEF Mp4Next, UI, Stopping
<1>2. worker = 0 /\ ui = "idle" /\ ~button BY <1>1 DEF StartRecord, WriterInv, StopPc
<1>3. ~bRecording BY <1>2 DEF RecordingOK
<1>4. \A r \in Record : writer[r] # "write" BY <1>2 DEF WriterInv, OneWriter, Record
<1> QED BY <1>1, <1>2, <1>3, <1>4 DEF AfterClear, StartRecord

LEMMA StaleNext ==
  ASSUME Mp4Assumption, Types, WriterInv, TracksOK, RecordingOK, EncoderOK, StaleOK, [Mp4Next]_mp4Vars
  PROVE  StaleOK'
<1> USE DEF AtMostOne
<1>1. ASSUME AfterClear', NEW t \in Track PROVE AtMostOne(Cached(t)' \cup Pending(t)')
  <2>1. CASE frameCache' = <<>>
    <3>1. Cached(t)' = {} BY <2>1 DEF Cached
    <3> QED BY <3>1 DEF Pending
  <2>2. CASE AfterClear
    <3>1. \A f \in Cached(t)' \cup Pending(t)' : f \in Cached(t) \cup Pending(t)
      BY <2>2, PassedStep DEF AfterClear
    <3> QED BY <2>2, <3>1 DEF StaleOK
  <2> QED BY <1>1, <2>1, <2>2, ClearStep DEF StaleOK
<1>2. ASSUME NEW t \in Track PROVE AtMostOne({f \in Passed(t)' : f.rec # recordings'})
  <2>1. CASE recordings' = recordings
    <3>1. \A f \in Passed(t)' : f \in Passed(t) \/ f.rec = recordings BY PassedStep DEF Passed
    <3> QED BY <2>1, <3>1 DEF StaleOK
  <2>2. CASE recordings' # recordings
    <3>1. AfterClear /\ \A r \in Record : writer[r] # "write" BY <2>2, NewRecording
    <3>2. Sampled(t)' = {}
      <4>1. StartRecord /\ formats # {} BY <2>2, NewRecording
      <4>2. samples' = [u \in Tracks |-> <<>>]
        BY <4>1 DEF StartRecord, AddTracks, Tracks, TracksOK
      <4> QED BY <4>2 DEF Sampled
    <3>3. InHand(t)' = {}
      <4>1. /\ writer' = [writer EXCEPT ![recordings'] = "new"]
            /\ writer \in [Record -> {"none", "new", "loop", "drain", "write", "wait", "done"}]
        BY <2>2, NewRecording DEF StartRecord, WriterStep, Types, ThreadTypes
      <4>2. \A r \in Record : writer'[r] # "write" BY <3>1, <4>1
      <4> QED BY <4>2 DEF InHand
    <3>4. \A f \in Passed(t)' : f \in Cached(t) \cup Pending(t)
      BY <3>1, <3>2, <3>3, PassedStep DEF Passed, AfterClear
    <3> QED BY <3>1, <3>4 DEF StaleOK
  <2> QED BY <2>1, <2>2
<1>3. ButtonOK' BY ButtonNext DEF StaleOK
<1> QED BY <1>1, <1>2, <1>3 DEF StaleOK

\* A finished file has at most one such frame of each track.
LEMMA OneStaleNext ==
  ASSUME Mp4Assumption, Types, HistoryTypes, OrderOK, StaleOK, OneStaleFrame, [Mp4Next]_mp4Vars
  PROVE  OneStaleFrame'
<1> DEFINE Stale(m, t, rec) == {s \in Range(m[t]) : s.frame.rec # rec}
<1>1. ASSUME NEW t \in DOMAIN samples PROVE Cardinality(Stale(samples, t, recordings)) <= 1
  <2>1. t \in Track BY FramesTyped
  <2>2. ASSUME NEW s \in Stale(samples, t, recordings), NEW u \in Stale(samples, t, recordings) PROVE s = u
    <3>1. PICK i \in DOMAIN samples[t] : s = samples[t][i] BY DEF Range
    <3>2. PICK j \in DOMAIN samples[t] : u = samples[t][j] BY DEF Range
    <3>3. s.frame \in Sampled(t) /\ u.frame \in Sampled(t) BY <3>1, <3>2 DEF Sampled
    <3>4. s.frame = u.frame BY <2>1, <3>3 DEF StaleOK, AtMostOne, Passed
    <3>5. s.frame.n \in Nat BY <2>1, <3>3, FramesTyped
    <3>6. ~(i < j) /\ ~(j < i) BY <3>1, <3>2, <3>4, <3>5 DEF OrderOK, Ordered
    <3>7. i \in Nat /\ j \in Nat
      <4>1. samples[t] \in Seq(Sample) BY DEF Types, FileTypes
      <4> QED BY <4>1
    <3> QED BY <3>1, <3>2, <3>6, <3>7
  <2> QED BY <2>2, AtMostOneCounts DEF AtMostOne
<1>2. ASSUME NEW i \in DOMAIN finished', NEW t \in DOMAIN finished'[i].samples
      PROVE  Cardinality(Stale(finished'[i].samples, t, finished'[i].rec)) <= 1
  <2>1. CASE i \in DOMAIN finished /\ finished'[i] = finished[i] BY <2>1 DEF OneStaleFrame
  <2>2. CASE finished'[i] = [rec |-> recordings, cells |-> cells', samples |-> samples] BY <1>1, <1>2, <2>2
  <2> QED BY <2>1, <2>2, FinishedOne
<1> QED BY <1>2 DEF OneStaleFrame, Range

-----------------------------------------------------------------------------
(* The key frame in front of the first recording.                           *)

Adding   == IF enc["video"].pc = "add" THEN {enc["video"].frame} ELSE {}
Admitted == Sampled("video") \cup InHand("video") \cup Cached("video") \cup Adding

HasKey(S)     == \E g \in S : g.key
Earlier(f, S) == \E g \in S : g.key /\ g.n < f.n

BeforeClear == button \/ ui \in {"stop", "find", "clear"}

\* Before stop() clears the cache, every frame of the first recording that has passed the test of
\* needToFindKeyFrame is a key frame or behind one.  Clearing the cache may take the key frame away
\* from the one frame that an encoder still adds.
FirstKeyOK ==
  /\ recordings = 0 => needToFindKeyFrame /\ worker = 0 /\ Passed("video") = {}
  /\ recordings = 1 /\ "video" \in DOMAIN samples =>
       /\ BeforeClear => \A f \in Admitted : f.key \/ Earlier(f, Admitted)
       /\ BeforeClear /\ ~needToFindKeyFrame => HasKey(Admitted)
       /\ AfterClear => \A f \in Admitted : f.key \/ Earlier(f, Admitted) \/ AtMostOne(Passed("video"))

LEMMA VideoTrack == "video" \in Track /\ "audio" \in Track /\ \A t \in Track : t = "video" \/ t = "audio"
BY DEF Track

\* The numbers of the frames on their way.
LEMMA OrderFacts ==
  ASSUME Types, EncoderOK, OrderOK
  PROVE  /\ Passed("video") \subseteq Frame /\ Admitted \subseteq Passed("video")
         /\ \A f \in Sampled("video") \cup InHand("video") : \A g \in Cached("video") : f.n < g.n
         /\ \A f \in Sampled("video") \cup InHand("video") \cup Cached("video") : \A g \in Pending("video") : f.n < g.n
         /\ \A f \in Sampled("video"), g \in InHand("video") : f.n < g.n
<1> USE VideoTrack
<1>a. enc["video"].frame \in Frame BY DEF Types, ThreadTypes
<1>1. \A f \in Sampled("video") : f \in Frame /\ f.track = "video" /\ SampleOrder(f)
  BY FramesTyped DEF OrderOK, SamplesOrder
<1>2. \A f \in InHand("video") : /\ f \in Frame /\ f.track = "video" /\ Coming(f)
                                 /\ \A i \in DOMAIN frameCache : Before(f, frameCache[i])
  BY FramesTyped DEF OrderOK, TakenOrder, InHand
<1>3. \A f \in Cached("video") : f \in Frame /\ f.track = "video" /\ Coming(f)
  BY FramesTyped DEF OrderOK, CacheOrder, Cached
<1>4. \A g \in Pending("video") : g \in Frame /\ g.n = NextNumber("video")
  BY <1>a DEF Pending, EncoderOK, NextNumber
<1>5. Adding \subseteq Pending("video") BY DEF Adding, Pending
<1>6. Passed("video") \subseteq Frame /\ Admitted \subseteq Passed("video")
  BY <1>1, <1>2, <1>3, <1>4, <1>5 DEF Passed, Admitted
<1>7. \A f \in Sampled("video") \cup InHand("video") : \A g \in Cached("video") : f.n < g.n
  BY <1>1, <1>2 DEF SampleOrder, Before, Cached
<1>8. \A f \in Sampled("video") \cup InHand("video") \cup Cached("video") : \A g \in Pending("video") : f.n < g.n
  BY <1>1, <1>2, <1>3, <1>4 DEF SampleOrder, Coming
<1>9. \A f \in Sampled("video"), g \in InHand("video") : f.n < g.n
  BY <1>1 DEF SampleOrder, Before, InHand
<1> QED BY <1>6, <1>7, <1>8, <1>9

\* A video frame is admitted when it is a key frame, or when one has been found before.
LEMMA AdmittedStep ==
  ASSUME Mp4Assumption, Types, WriterInv, TracksOK, EncoderOK, [Mp4Next]_mp4Vars
  PROVE  \A f \in Admitted' : \/ f \in Admitted
                              \/ /\ f \in Pending("video") /\ Adding = {} /\ ~StopClear
                                 /\ f.key \/ ~needToFindKeyFrame
<1> USE VideoTrack
<1>1. \A f \in Adding' : \/ f \in Adding
                         \/ /\ f \in Pending("video") /\ Adding = {} /\ ~StopClear
                            /\ f.key \/ ~needToFindKeyFrame
  <2>1. CASE enc' = enc BY <2>1 DEF Adding
  <2>2. CASE Encoder("video")
    <3>1. enc \in [Track -> [pc : EncPc, frame : Frame]] BY DEF Types, ThreadTypes
    <3>2. ~StopClear BY <2>2 DEF Encoder, ReadRecording, ReadPaused, ReadNeedKeyFrame, KeyFrameFound, AddFrame, StopClear, uiVars
    <3>3. CASE ReadNeedKeyFrame("video")
      <4>1. enc["video"].pc = "find" /\ Step("video", Wanted("video")) BY <3>3 DEF ReadNeedKeyFrame
      <4>2. enc'["video"].pc = "add" => ~needToFindKeyFrame /\ enc'["video"].frame = enc["video"].frame
        BY <3>1, <4>1 DEF Step, Wanted, Idle
      <4> QED BY <3>2, <4>1, <4>2 DEF Adding, Pending
    <3>4. CASE KeyFrameFound("video")
      <4>1. enc["video"].pc = "found" /\ enc["video"].frame.key /\ enc'["video"].frame = enc["video"].frame
        BY <3>1, <3>4 DEF KeyFrameFound, Step, EncoderOK
      <4> QED BY <3>2, <4>1 DEF Adding, Pending
    <3>5. CASE ReadRecording("video") \/ ReadPaused("video") \/ AddFrame("video")
      <4>1. enc'["video"].pc # "add"
        BY <3>1, <3>5 DEF ReadRecording, ReadPaused, AddFrame, Step, Idle
      <4> QED BY <4>1 DEF Adding
    <3> QED BY <2>2, <3>3, <3>4, <3>5 DEF Encoder
  <2>3. CASE enc'["video"] = enc["video"] BY <2>3 DEF Adding
  <2>4. CASE EncodeVideo
    <3>1. enc'["video"].pc = "recording"
      BY <2>4 DEF EncodeVideo, Types, ThreadTypes
    <3> QED BY <3>1 DEF Adding
  <2>5. CASE UI \/ EncodeConfig \/ Recycle
    <3>1. enc' = enc
      BY <2>5 DEF UI, Stopping, StartRecord, Pause, Resume, ResumeAtKeyFrame, StopRecord,
         StopFlags, StopKeyFrame,
         StopClear, StopJoin, StopFinish, EncodeConfig, Recycle, encVars
    <3> QED BY <2>1, <3>1
  <2>6. CASE EncodeAudio \/ Encoder("audio")
    <3>1. enc'["video"] = enc["video"]
      BY <2>6 DEF EncodeAudio, Encoder, ReadRecording, ReadPaused, ReadNeedKeyFrame,
         KeyFrameFound, AddFrame, Step,
         Types, ThreadTypes
    <3> QED BY <2>3, <3>1
  <2>7. ASSUME NEW r \in Record, Writer(r) PROVE enc' = enc
    BY <2>7 DEF Writer, WriterBegin, WriterLoop, WriterPoll, WriterWait, WriterWrite, encVars
  <2>8. CASE UNCHANGED mp4Vars BY <2>1, <2>8 DEF mp4Vars, encVars
  <2> QED BY <2>1, <2>2, <2>4, <2>5, <2>6, <2>7, <2>8 DEF Mp4Next
<1>2. \A f \in Cached("video")' : f \in Cached("video") \/ f \in Adding
  <2>1. CASE UNCHANGED frameCache BY <2>1 DEF Cached
  <2>2. ASSUME NEW u \in Track, AddFrame(u) PROVE \A f \in Cached("video")' : f \in Cached("video") \/ f \in Adding
    <3>1. /\ enc[u].pc = "add" /\ frameCache' = Append(frameCache, enc[u].frame) /\ enc[u].frame.track = u
          /\ frameCache \in Seq(Frame) /\ enc[u].frame \in Frame
      BY <2>2 DEF AddFrame, EncoderOK, Types, ThreadTypes
    <3>2. \A i \in DOMAIN frameCache' :
            (i \in DOMAIN frameCache /\ frameCache'[i] = frameCache[i]) \/ frameCache'[i] = enc[u].frame
      BY <3>1, AppendedOne
    <3> QED BY <3>1, <3>2 DEF Cached, Adding
  <2>3. CASE ~\E u \in Track : AddFrame(u)
    <3>1. \A i \in DOMAIN frameCache' : \E j \in DOMAIN frameCache : frameCache'[i] = frameCache[j]
      <4>1. ASSUME NEW r \in Record, WriterPoll(r) PROVE <3>1
        <5>1. frameCache \in Seq(Frame) /\ frameCache # <<>> /\ frameCache' = Tail(frameCache)
          BY <4>1 DEF WriterPoll, Polled, Types, ThreadTypes
        <5>2. ASSUME NEW S, NEW q \in Seq(S), q # <<>>, NEW i \in DOMAIN Tail(q)
              PROVE  i + 1 \in DOMAIN q /\ Tail(q)[i] = q[i + 1]
          BY <5>2
        <5>3. \A i \in DOMAIN frameCache' : i + 1 \in DOMAIN frameCache /\ frameCache'[i] = frameCache[i + 1]
          BY <5>1, <5>2
        <5> QED BY <5>3
      <4>2. CASE frameCache' = frameCache \/ frameCache' = <<>> BY <4>2
      <4> QED BY <2>3, <4>1, <4>2, FramesStep
    <3> QED BY <3>1 DEF Cached
  <2> QED BY <2>2, <2>3
<1> QED BY <1>1, <1>2, PassedStep DEF Admitted

\* Nothing that is admitted is lost but what stop() clears, as long as the movie stays the same.
LEMMA AdmittedKept ==
  ASSUME Mp4Assumption, Types, WriterInv, TracksOK, RecordingOK, EncoderOK, [Mp4Next]_mp4Vars,
         "video" \in DOMAIN samples', recordings' = recordings
  PROVE  /\ "video" \in DOMAIN samples
         /\ Sampled("video") \subseteq Sampled("video")'
         /\ InHand("video") \subseteq (InHand("video")' \cup Sampled("video")')
         /\ StopClear \/ Cached("video") \subseteq (Cached("video")' \cup InHand("video")')
         /\ Adding \subseteq (Adding' \cup Cached("video")')
<1> USE VideoTrack
<1>a. /\ writer \in [Record -> {"none", "new", "loop", "drain", "write", "wait", "done"}]
      /\ taken \in [Record -> Frame] /\ frameCache \in Seq(Frame)
      /\ enc \in [Track -> [pc : EncPc, frame : Frame]]
  BY DEF Types, ThreadTypes
<1>b. ~(StartRecord /\ formats # {})
  <2>1. recordings \in Nat BY DEF WriterInv
  <2>2. StartRecord /\ formats # {} => recordings' = recordings + 1 BY DEF StartRecord
  <2> QED BY <2>1, <2>2
<1>c. DOMAIN <<>> = {} OBVIOUS
<1>1. "video" \in DOMAIN samples /\ Sampled("video") \subseteq Sampled("video")'
  <2>1. CASE samples' = samples BY <2>1 DEF Sampled
  <2>2. ASSUME NEW r \in Record, WriterWrite(r), WriteSampleData(taken[r]), taken[r].track \in DOMAIN samples
        PROVE  "video" \in DOMAIN samples /\ Sampled("video") \subseteq Sampled("video")'
    <3>1. PICK g \in Frame : g = taken[r] BY FramesTyped
    <3>2. PICK s \in Sample : s.frame = g /\ samples' = [samples EXCEPT ![g.track] = Append(@, s)]
      BY <2>2, <3>1, SampleWritten
    <3>3. "video" \in DOMAIN samples BY <3>2
    <3>4. CASE g.track # "video" BY <3>2, <3>3, <3>4 DEF Sampled
    <3>5. CASE g.track = "video"
      <4>1. samples["video"] \in Seq(Sample) BY <3>3 DEF Types, FileTypes
      <4>2. samples'["video"] = Append(samples["video"], s) BY <3>2, <3>3, <3>5
      <4>3. \A i \in DOMAIN samples["video"] : i \in DOMAIN samples'["video"] /\ samples'["video"][i] = samples["video"][i]
        BY <4>1, <4>2, AppendedTo
      <4> QED BY <3>3, <4>3 DEF Sampled
    <3> QED BY <3>3, <3>4, <3>5
  <2> QED BY <1>b, <1>c, <2>1, <2>2, SamplesStep
<1>2. ASSUME NEW r \in Record, writer[r] = "write"
      PROVE  \/ writer'[r] = "write" /\ taken'[r] = taken[r]
             \/ WriterWrite(r) /\ (taken[r].track \in DOMAIN samples => WriteSampleData(taken[r]))
  <2>1. CASE UI
    <3>1. UNCHANGED wrtVars
      BY <1>b, <2>1 DEF UI, Stopping, StartRecord, Pause, Resume, ResumeAtKeyFrame, StopRecord,
         StopFlags, StopKeyFrame,
         StopClear, StopJoin, StopFinish, wrtVars
    <3> QED BY <1>2, <3>1 DEF wrtVars
  <2>2. CASE EncodeConfig \/ EncodeVideo \/ EncodeAudio \/ Recycle
    BY <1>2, <2>2 DEF EncodeConfig, EncodeVideo, EncodeAudio, Recycle, wrtVars
  <2>3. ASSUME NEW t \in Track, Encoder(t) PROVE UNCHANGED <<writer, taken>>
    BY <2>3 DEF Encoder, ReadRecording, ReadPaused, ReadNeedKeyFrame, KeyFrameFound, AddFrame,
       wrtVars
  <2>4. ASSUME NEW q \in Record, q # r, Writer(q) PROVE writer'[r] = "write" /\ taken'[r] = taken[r]
    <3>1. \E pc \in {"loop", "drain", "write", "done"} : writer' = [writer EXCEPT ![q] = pc] \/ UNCHANGED writer
      BY <2>4 DEF Writer, WriterBegin, WriterLoop, WriterPoll, WriterWait, WriterWrite, Written,
         WriterStep
    <3>2. UNCHANGED taken \/ \E f \in {Head(frameCache), NoFrame} : taken' = [taken EXCEPT ![q] = f]
      BY <2>4 DEF Writer, WriterBegin, WriterLoop, WriterPoll, WriterWait, WriterWrite, Written
    <3> QED BY <1>a, <1>2, <2>4, <3>1, <3>2
  <2>5. CASE Writer(r)
    <3>1. WriterWrite(r) BY <1>2, <2>5 DEF Writer, WriterBegin, WriterLoop, WriterPoll, WriterWait
    <3> QED BY <1>2, <3>1 DEF WriterWrite
  <2>6. CASE UNCHANGED mp4Vars BY <1>2, <2>6 DEF mp4Vars, wrtVars
  <2> QED BY <1>2, <2>1, <2>2, <2>3, <2>4, <2>5, <2>6 DEF Mp4Next
<1>3. InHand("video") \subseteq (InHand("video")' \cup Sampled("video")')
  <2> SUFFICES ASSUME NEW r \in Record, writer[r] = "write", taken[r].track = "video"
               PROVE  taken[r] \in InHand("video")' \cup Sampled("video")'
    BY DEF InHand
  <2>1. CASE writer'[r] = "write" /\ taken'[r] = taken[r] BY <2>1 DEF InHand
  <2>2. CASE WriterWrite(r) /\ WriteSampleData(taken[r])
    <3>1. PICK g \in Frame : g = taken[r] /\ g.track = "video" BY FramesTyped
    <3>2. PICK s \in Sample : s.frame = g /\ samples' = [samples EXCEPT ![g.track] = Append(@, s)]
      <4>1. taken[r].track \in DOMAIN samples BY <1>1, <3>1
      <4> QED BY <2>2, <3>1, <4>1, SampleWritten
    <3>3. samples["video"] \in Seq(Sample) BY <1>1 DEF Types, FileTypes
    <3>4. samples'["video"] = Append(samples["video"], s) BY <1>1, <3>1, <3>2
    <3>5. \E i \in DOMAIN samples'["video"] : samples'["video"][i] = s
      <4>1. /\ Len(samples["video"]) + 1 \in DOMAIN Append(samples["video"], s)
            /\ Append(samples["video"], s)[Len(samples["video"]) + 1] = s
        BY <3>3, AppendedTo
      <4> QED BY <3>4, <4>1
    <3> QED BY <3>1, <3>2, <3>5 DEF Sampled
  <2> QED BY <1>1, <1>2, <2>1, <2>2
<1>4. StopClear \/ Cached("video") \subseteq (Cached("video")' \cup InHand("video")')
  <2>1. ASSUME NEW u \in Track, AddFrame(u) PROVE Cached("video") \subseteq Cached("video")'
    <3>1. frameCache' = Append(frameCache, enc[u].frame) /\ enc[u].frame \in Frame BY <1>a, <2>1 DEF AddFrame
    <3>2. \A i \in DOMAIN frameCache : i \in DOMAIN frameCache' /\ frameCache'[i] = frameCache[i]
      BY <1>a, <3>1, AppendedTo
    <3> QED BY <3>2 DEF Cached
  <2>2. ASSUME NEW r \in Record, WriterPoll(r)
        PROVE  Cached("video") \subseteq (Cached("video")' \cup InHand("video")')
    <3>1. /\ frameCache # <<>> /\ frameCache' = Tail(frameCache)
          /\ taken' = [taken EXCEPT ![r] = Head(frameCache)] /\ writer' = [writer EXCEPT ![r] = "write"]
      BY <2>2 DEF WriterPoll, WriterStep, Polled
    <3>2. ASSUME NEW S, NEW q \in Seq(S), q # <<>>, NEW i \in DOMAIN q
          PROVE  q[i] = Head(q) \/ (i - 1 \in DOMAIN Tail(q) /\ Tail(q)[i - 1] = q[i])
      BY <3>2
    <3>3. ASSUME NEW i \in DOMAIN frameCache, frameCache[i].track = "video"
          PROVE  frameCache[i] \in Cached("video")' \cup InHand("video")'
      <4>1. CASE frameCache[i] = Head(frameCache)
        <5>1. taken'[r] = frameCache[i] /\ writer'[r] = "write" BY <1>a, <3>1, <4>1
        <5> QED BY <3>3, <5>1 DEF InHand
      <4>2. CASE \E j \in DOMAIN frameCache' : frameCache'[j] = frameCache[i] BY <3>3, <4>2 DEF Cached
      <4> QED BY <1>a, <3>1, <3>2, <4>1, <4>2
    <3> QED BY <3>3 DEF Cached
  <2>3. CASE frameCache' = frameCache BY <2>3 DEF Cached
  <2> QED BY <2>1, <2>2, <2>3, FramesStep
<1>5. Adding \subseteq (Adding' \cup Cached("video")')
  <2>1. CASE enc'["video"] = enc["video"] BY <2>1 DEF Adding
  <2>2. CASE Encoder("video") /\ enc["video"].pc = "add"
    <3>1. AddFrame("video") BY <2>2 DEF Encoder, ReadRecording, ReadPaused, ReadNeedKeyFrame, KeyFrameFound
    <3>2. frameCache' = Append(frameCache, enc["video"].frame) /\ enc["video"].frame \in Frame
          /\ enc["video"].frame.track = "video"
      BY <1>a, <2>2, <3>1 DEF AddFrame, EncoderOK
    <3>3. \E i \in DOMAIN frameCache' : frameCache'[i] = enc["video"].frame
      <4>1. /\ Len(frameCache) + 1 \in DOMAIN Append(frameCache, enc["video"].frame)
            /\ Append(frameCache, enc["video"].frame)[Len(frameCache) + 1] = enc["video"].frame
        BY <1>a, <3>2, AppendedTo
      <4> QED BY <3>2, <4>1
    <3> QED BY <3>2, <3>3 DEF Adding, Cached
  <2>3. CASE enc["video"].pc # "add" BY <2>3 DEF Adding
  <2>4. CASE UI \/ EncodeConfig \/ Recycle
    <3>1. enc' = enc
      BY <2>4 DEF UI, Stopping, StartRecord, Pause, Resume, ResumeAtKeyFrame, StopRecord,
         StopFlags, StopKeyFrame,
         StopClear, StopJoin, StopFinish, EncodeConfig, Recycle, encVars
    <3> QED BY <2>1, <3>1
  <2>5. CASE EncodeVideo BY <2>3, <2>5 DEF EncodeVideo
  <2>6. CASE EncodeAudio \/ Encoder("audio")
    <3>1. enc'["video"] = enc["video"]
      BY <1>a, <2>6 DEF EncodeAudio, Encoder, ReadRecording, ReadPaused, ReadNeedKeyFrame,
         KeyFrameFound, AddFrame, Step
    <3> QED BY <2>1, <3>1
  <2>7. ASSUME NEW r \in Record, Writer(r) PROVE enc' = enc
    BY <2>7 DEF Writer, WriterBegin, WriterLoop, WriterPoll, WriterWait, WriterWrite, encVars
  <2>8. CASE UNCHANGED mp4Vars BY <2>1, <2>8 DEF mp4Vars, encVars
  <2> QED BY <2>1, <2>2, <2>3, <2>4, <2>5, <2>6, <2>7, <2>8 DEF Mp4Next
<1> QED BY <1>1, <1>3, <1>4, <1>5

\* Only the video encoder clears needToFindKeyFrame, with a key frame that it adds then.
LEMMA KeyFlagStep ==
  ASSUME Types, EncoderOK, [Mp4Next]_mp4Vars, needToFindKeyFrame, ~needToFindKeyFrame'
  PROVE  HasKey(Pending("video")) /\ HasKey(Adding')
<1> USE VideoTrack
<1>1. KeyFrameFound("video")
  <2>1. ~UI
    BY DEF UI, Stopping, StartRecord, Pause, Resume, ResumeAtKeyFrame, StopRecord, StopFlags,
       StopKeyFrame,
       StopClear, StopJoin, StopFinish, flags
  <2>2. ~(EncodeConfig \/ EncodeVideo \/ EncodeAudio \/ Recycle)
    BY DEF EncodeConfig, EncodeVideo, EncodeAudio, Recycle, flags
  <2>3. ASSUME NEW t \in Track, Encoder(t) PROVE t = "video" /\ KeyFrameFound(t)
    <3>1. KeyFrameFound(t) BY <2>3 DEF Encoder, ReadRecording, ReadPaused, ReadNeedKeyFrame, AddFrame, flags
    <3> QED BY <3>1 DEF KeyFrameFound, EncoderOK
  <2>4. \A r \in Record : ~Writer(r)
    BY DEF Writer, WriterBegin, WriterLoop, WriterPoll, WriterWait, WriterWrite, flags
  <2>5. ~UNCHANGED mp4Vars BY DEF mp4Vars, flags
  <2> QED BY <2>1, <2>2, <2>3, <2>4, <2>5 DEF Mp4Next
<1>2. enc["video"].pc = "found" /\ enc["video"].frame.key BY <1>1 DEF KeyFrameFound, EncoderOK
<1>3. enc'["video"].pc = "add" /\ enc'["video"].frame = enc["video"].frame
  BY <1>1 DEF KeyFrameFound, Step, Types, ThreadTypes
<1> QED BY <1>2, <1>3 DEF HasKey, Pending, Adding

\* The cache is cleared once, and only a new recording follows.
LEMMA BeforeClearStep ==
  ASSUME Types, WriterInv, TracksOK, [Mp4Next]_mp4Vars, BeforeClear', recordings' = recordings,
         DOMAIN samples # {}
  PROVE  BeforeClear /\ ~StopClear
<1> USE DEF BeforeClear
<1>1. ~StartRecord
  <2>1. recordings \in Nat BY DEF WriterInv
  <2>2. StartRecord /\ formats # {} => recordings' = recordings + 1 BY DEF StartRecord
  <2>3. formats # {} BY DEF TracksOK, Tracks
  <2> QED BY <2>1, <2>2, <2>3
<1>2. ~StopClear BY DEF StopClear, WriterInv, StopPc
<1>3. CASE Pause \/ Resume \/ ResumeAtKeyFrame BY <1>3 DEF Pause, Resume, ResumeAtKeyFrame, StopClear
<1>4. CASE StopRecord \/ StopFlags \/ StopKeyFrame \/ StopJoin \/ StopFinish
  BY <1>2, <1>4 DEF StopRecord, StopFlags, StopKeyFrame, StopJoin, StopFinish
<1>5. CASE EncodeConfig \/ EncodeVideo \/ EncodeAudio \/ Recycle
  BY <1>2, <1>5 DEF EncodeConfig, EncodeVideo, EncodeAudio, Recycle, uiVars
<1>6. ASSUME NEW t \in Track, Encoder(t) PROVE BeforeClear
  BY <1>6 DEF Encoder, ReadRecording, ReadPaused, ReadNeedKeyFrame, KeyFrameFound, AddFrame, uiVars
<1>7. ASSUME NEW r \in Record, Writer(r) PROVE BeforeClear
  BY <1>7 DEF Writer, WriterBegin, WriterLoop, WriterPoll, WriterWait, WriterWrite, uiVars
<1>8. CASE UNCHANGED mp4Vars BY <1>2, <1>8 DEF mp4Vars, uiVars
<1> QED BY <1>1, <1>2, <1>3, <1>4, <1>5, <1>6, <1>7, <1>8 DEF Mp4Next, UI, Stopping

\* Until the first record() nothing passes the tests.
LEMMA FirstKeyBegins ==
  ASSUME Mp4Assumption, Types, WriterInv, TracksOK, RecordingOK, EncoderOK, FirstKeyOK, [Mp4Next]_mp4Vars,
         recordings = 0
  PROVE  /\ needToFindKeyFrame' /\ Passed("video")' = {} /\ Admitted' = {}
         /\ recordings' = 0 => worker' = 0
<1> USE VideoTrack
<1>1. needToFindKeyFrame /\ Passed("video") = {} /\ worker = 0 BY DEF FirstKeyOK
<1>2. ~bRecording BY <1>1 DEF RecordingOK
<1>3. Passed("video")' = {}
  <2>1. \A f \in Passed("video")' : f \in Passed("video") BY <1>2, PassedStep DEF Passed
  <2> QED BY <1>1, <2>1
<1>4. needToFindKeyFrame'
  <2>1. ~HasKey(Pending("video")) BY <1>1 DEF HasKey, Passed
  <2>2. needToFindKeyFrame' \in BOOLEAN
    <3>1. FlagTypes' BY FlagsKeepType DEF Types
    <3> QED BY <3>1 DEF FlagTypes
  <2> QED BY <1>1, <2>1, <2>2, KeyFlagStep
<1>5. Admitted' = {}
  <2>1. Adding' \subseteq Pending("video")' BY DEF Adding, Pending
  <2> QED BY <1>3, <2>1 DEF Admitted, Passed
<1>6. recordings' = 0 => worker' = 0
  <2>1. worker' = worker \/ worker' = 0 \/ worker' = recordings'
    <3>1. CASE UI
      BY <3>1 DEF UI, Stopping, StartRecord, Pause, Resume, ResumeAtKeyFrame, StopRecord,
         StopFlags, StopKeyFrame,
         StopClear, StopJoin, StopFinish
    <3>2. CASE EncodeConfig \/ EncodeVideo \/ EncodeAudio \/ Recycle
      BY <3>2 DEF EncodeConfig, EncodeVideo, EncodeAudio, Recycle, uiVars
    <3>3. ASSUME NEW t \in Track, Encoder(t) PROVE worker' = worker
      BY <3>3 DEF Encoder, ReadRecording, ReadPaused, ReadNeedKeyFrame, KeyFrameFound, AddFrame,
         uiVars
    <3>4. ASSUME NEW r \in Record, Writer(r) PROVE worker' = worker
      BY <3>4 DEF Writer, WriterBegin, WriterLoop, WriterPoll, WriterWait, WriterWrite, uiVars
    <3>5. CASE UNCHANGED mp4Vars BY <3>5 DEF mp4Vars, uiVars
    <3> QED BY <3>1, <3>2, <3>3, <3>4, <3>5 DEF Mp4Next
  <2> QED BY <1>1, <2>1
<1> QED BY <1>3, <1>4, <1>5, <1>6

LEMMA PendingOne == AtMostOne(Pending("video"))
BY DEF AtMostOne, Pending

\* While the button reads "stop recording", and until stop() clears the cache.
LEMMA FirstKeyRecorded ==
  ASSUME Mp4Assumption, Types, WriterInv, TracksOK, RecordingOK, EncoderOK, OrderOK, FirstKeyOK, [Mp4Next]_mp4Vars,
         recordings = 1, recordings' = 1, "video" \in DOMAIN samples', BeforeClear'
  PROVE  /\ \A f \in Admitted' : f.key \/ Earlier(f, Admitted')
         /\ ~needToFindKeyFrame' => HasKey(Admitted')
<1>1. "video" \in DOMAIN samples BY AdmittedKept
<1>2. BeforeClear /\ ~StopClear
  <2>1. DOMAIN <<>> = {} OBVIOUS
  <2> QED BY <1>1, <2>1, BeforeClearStep
<1>3. Admitted \subseteq Admitted' BY <1>2, AdmittedKept DEF Admitted
<1>4. /\ \A f \in Admitted : f.key \/ Earlier(f, Admitted)
      /\ ~needToFindKeyFrame => HasKey(Admitted)
  BY <1>1, <1>2 DEF FirstKeyOK
<1>5. ASSUME NEW f \in Admitted' PROVE f.key \/ Earlier(f, Admitted')
  <2>1. CASE f \in Admitted BY <1>3, <1>4, <2>1 DEF Earlier
  <2>2. CASE f \in Pending("video") /\ Adding = {} /\ ~needToFindKeyFrame
    <3>1. PICK g \in Admitted : g.key BY <1>4, <2>2 DEF HasKey
    <3>2. g.n < f.n BY <2>2, <3>1, OrderFacts DEF Admitted
    <3> QED BY <1>3, <3>1, <3>2 DEF Earlier
  <2> QED BY <1>5, <2>1, <2>2, AdmittedStep
<1>6. ASSUME ~needToFindKeyFrame' PROVE HasKey(Admitted')
  <2>1. CASE ~needToFindKeyFrame BY <1>3, <1>4, <2>1 DEF HasKey
  <2>2. CASE needToFindKeyFrame BY <1>6, <2>2, KeyFlagStep DEF HasKey, Admitted
  <2> QED BY <2>1, <2>2
<1> QED BY <1>5, <1>6

\* Once the cache is cleared: a frame without a key frame before it is the only one of its track.
LEMMA FirstKeyCleared ==
  ASSUME Mp4Assumption, Types, WriterInv, TracksOK, RecordingOK, EncoderOK, OrderOK, StaleOK, FirstKeyOK,
         [Mp4Next]_mp4Vars, recordings = 1, recordings' = 1, "video" \in DOMAIN samples', AfterClear'
  PROVE  \A f \in Admitted' : f.key \/ Earlier(f, Admitted') \/ AtMostOne(Passed("video")')
<1> USE VideoTrack
<1>a. Passed("video") \subseteq Frame /\ Admitted \subseteq Passed("video") /\ \A f \in Frame : f.n \in Nat
  BY OrderFacts, FramesTyped
<1>1. "video" \in DOMAIN samples BY AdmittedKept
<1>2. CASE AfterClear
  <2>1. ~StopClear /\ ~bRecording BY <1>2 DEF AfterClear, StopClear
  <2>2. Admitted \subseteq Admitted' BY <2>1, AdmittedKept DEF Admitted
  <2>3. Passed("video")' \subseteq Passed("video") BY <2>1, PassedStep DEF Passed
  <2>4. \A f \in Admitted : f.key \/ Earlier(f, Admitted) \/ AtMostOne(Passed("video"))
    BY <1>1, <1>2 DEF FirstKeyOK
  <2>5. AtMostOne(Passed("video")) => AtMostOne(Passed("video")') BY <2>3 DEF AtMostOne
  <2> SUFFICES ASSUME NEW f \in Admitted' PROVE f.key \/ Earlier(f, Admitted') \/ AtMostOne(Passed("video")')
    OBVIOUS
  <2>6. CASE f \in Admitted BY <2>2, <2>4, <2>5, <2>6 DEF Earlier
  <2>7. CASE f \in Pending("video") /\ Adding = {}
    <3>1. CASE Admitted = {}
      <4>1. Passed("video") = Pending("video") BY <3>1 DEF Admitted, Passed
      <4> QED BY <2>5, <4>1, PendingOne
    <3>2. ASSUME NEW g \in Admitted PROVE Earlier(f, Admitted') \/ AtMostOne(Passed("video")')
      <4>1. g.n < f.n BY <2>7, <3>2, OrderFacts DEF Admitted
      <4>2. CASE Earlier(g, Admitted)
        <5>1. PICK h \in Admitted : h.key /\ h.n < g.n BY <4>2 DEF Earlier
        <5>2. f \in Frame /\ g \in Frame /\ h \in Frame BY <1>a, <2>7 DEF Passed
        <5>3. h.n < f.n BY <1>a, <4>1, <5>1, <5>2
        <5> QED BY <2>2, <5>1, <5>3 DEF Earlier
      <4> QED BY <2>2, <2>4, <2>5, <4>1, <4>2 DEF Earlier
    <3> QED BY <3>1, <3>2
  <2> QED BY <2>6, <2>7, AdmittedStep
<1>3. CASE StopClear /\ frameCache' = <<>>
  <2>1. BeforeClear /\ UNCHANGED <<enc, samples, writer, taken>>
    BY <1>3 DEF BeforeClear, StopClear, encVars, wrtVars, movie
  <2>2. \A f \in Admitted : f.key \/ Earlier(f, Admitted) BY <1>1, <2>1 DEF FirstKeyOK
  <2>3. Cached("video")' = {}
    <3>1. DOMAIN <<>> = {} OBVIOUS
    <3> QED BY <1>3, <3>1 DEF Cached
  <2>4. /\ Sampled("video")' = Sampled("video") /\ InHand("video")' = InHand("video")
        /\ Pending("video")' = Pending("video") /\ Adding' = Adding
    BY <2>1 DEF Sampled, InHand, Pending, Adding
  <2>5. /\ Admitted' = Sampled("video") \cup InHand("video") \cup Adding
        /\ Passed("video")' = Sampled("video") \cup InHand("video") \cup Pending("video")
    BY <2>3, <2>4 DEF Admitted, Passed
  <2>6. Adding \subseteq Pending("video") BY DEF Adding, Pending
  <2>7. ASSUME NEW h \in Sampled("video") \cup InHand("video"), ~h.key
        PROVE  \E k \in Sampled("video") \cup InHand("video") : k.key /\ k.n < h.n
    <3>1. PICK k \in Admitted : k.key /\ k.n < h.n BY <2>2, <2>7 DEF Earlier, Admitted
    <3>2. h \in Frame /\ k \in Frame BY <1>a, <2>7 DEF Admitted
    <3>3. ~(h.n < k.n) BY <1>a, <3>1, <3>2
    <3>4. k \notin Cached("video") /\ k \notin Adding BY <2>6, <2>7, <3>3, OrderFacts
    <3> QED BY <3>1, <3>4 DEF Admitted
  <2> SUFFICES ASSUME NEW f \in Admitted' PROVE f.key \/ Earlier(f, Admitted') \/ AtMostOne(Passed("video")')
    OBVIOUS
  <2>8. CASE f \in Sampled("video") \cup InHand("video") BY <2>5, <2>7, <2>8 DEF Earlier
  <2>9. CASE f \in Adding
    <3>1. ASSUME NEW h \in Sampled("video") \cup InHand("video") PROVE Earlier(f, Admitted')
      <4>1. h.n < f.n BY <2>6, <2>9, <3>1, OrderFacts
      <4>2. CASE h.key BY <2>5, <4>1, <4>2 DEF Earlier
      <4>3. CASE ~h.key
        <5>1. PICK k \in Sampled("video") \cup InHand("video") : k.key /\ k.n < h.n BY <2>7, <4>3
        <5>2. f \in Frame /\ h \in Frame /\ k \in Frame BY <1>a, <2>6, <2>9 DEF Passed
        <5>3. k.n < f.n BY <1>a, <4>1, <5>1, <5>2
        <5> QED BY <2>5, <5>1, <5>3 DEF Earlier
      <4> QED BY <4>2, <4>3
    <3>2. CASE Sampled("video") \cup InHand("video") = {}
      <4>1. Passed("video")' = Pending("video") BY <2>5, <3>2
      <4> QED BY <4>1, PendingOne
    <3> QED BY <3>1, <3>2
  <2> QED BY <2>5, <2>8, <2>9
<1> QED BY <1>2, <1>3, ClearStep DEF StaleOK

LEMMA FirstKeyNext ==
  ASSUME Mp4Assumption, Types, WriterInv, TracksOK, RecordingOK, EncoderOK, OrderOK, StaleOK, FirstKeyOK,
         [Mp4Next]_mp4Vars
  PROVE  FirstKeyOK'
<1>1. recordings \in Nat /\ (recordings' = recordings \/ recordings' = recordings + 1)
  BY NewRecording DEF WriterInv
<1>2. CASE recordings = 0 BY <1>2, FirstKeyBegins DEF FirstKeyOK, HasKey
<1>3. CASE recordings = 1 /\ recordings' = 1
  BY <1>3, FirstKeyRecorded, FirstKeyCleared DEF FirstKeyOK, Earlier, HasKey, AtMostOne
<1>4. CASE recordings' \notin {0, 1} BY <1>4 DEF FirstKeyOK
<1> QED BY <1>1, <1>2, <1>3, <1>4

\* The first sample of the file is the one with the least number.
LEMMA StartsKeyNext ==
  ASSUME Mp4Assumption, Types, HistoryTypes, WriterInv, TracksOK, RecordingOK, EncoderOK, OrderOK, FirstKeyOK,
         StartsWithKeyFrame, [Mp4Next]_mp4Vars
  PROVE  StartsWithKeyFrame'
<1> USE VideoTrack
<1>1. ASSUME StopFinish, recordings = 1, "video" \in DOMAIN samples, Len(samples["video"]) > 1
      PROVE  samples["video"][1].frame.key
  <2>1. worker = 0 /\ ui = "finish" BY <1>1 DEF StopFinish, WriterInv, StopPc
  <2>2. AfterClear BY <2>1 DEF AfterClear, RecordingOK
  <2>3. samples["video"] \in Seq(Sample) BY <1>1 DEF Types, FileTypes
  <2>4. 1 \in DOMAIN samples["video"] /\ 2 \in DOMAIN samples["video"] /\ DOMAIN samples["video"] \subseteq Nat \ {0}
    BY <1>1, <2>3
  <2>5. PICK f \in Frame : f = samples["video"][1].frame /\ f \in Sampled("video")
    BY <1>1, <2>4, FramesTyped DEF Sampled
  <2>6. PICK h \in Frame : h = samples["video"][2].frame /\ h \in Sampled("video")
    BY <1>1, <2>4, FramesTyped DEF Sampled
  <2>7. f.n < h.n BY <1>1, <2>4, <2>5, <2>6 DEF OrderOK, Ordered
  <2>8. \A x \in Frame : x.n \in Nat BY FramesTyped
  <2>9. ~AtMostOne(Passed("video")) BY <2>5, <2>6, <2>7, <2>8 DEF AtMostOne, Passed
  <2>10. ASSUME NEW g \in Admitted PROVE ~(g.n < f.n)
    <3>1. g \in Frame BY OrderFacts
    <3>2. CASE g \in Sampled("video")
      <4>1. PICK j \in DOMAIN samples["video"] : g = samples["video"][j].frame BY <3>2 DEF Sampled
      <4>2. CASE j = 1 BY <2>5, <2>8, <3>1, <4>1, <4>2
      <4>3. CASE j # 1
        <5>1. 1 < j BY <2>4, <4>3
        <5>2. f.n < g.n BY <1>1, <2>4, <2>5, <4>1, <5>1 DEF OrderOK, Ordered
        <5> QED BY <2>8, <3>1, <5>2
      <4> QED BY <4>2, <4>3
    <3>3. CASE g \in InHand("video") \cup Cached("video") \cup Pending("video")
      <4>1. f.n < g.n BY <2>5, <3>3, OrderFacts
      <4> QED BY <2>8, <3>1, <4>1
    <3> QED BY <3>2, <3>3, OrderFacts DEF Passed
  <2>11. f.key \/ Earlier(f, Admitted) BY <1>1, <2>2, <2>5, <2>9 DEF FirstKeyOK, Admitted
  <2> QED BY <2>5, <2>10, <2>11 DEF Earlier
<1>2. ASSUME NEW i \in DOMAIN finished', finished'[i].rec = 1, "video" \in DOMAIN finished'[i].samples,
             Len(finished'[i].samples["video"]) > 1
      PROVE  finished'[i].samples["video"][1].frame.key
  <2>1. CASE i \in DOMAIN finished /\ finished'[i] = finished[i] BY <1>2, <2>1 DEF StartsWithKeyFrame
  <2>2. CASE StopFinish /\ finished'[i] = [rec |-> recordings, cells |-> cells', samples |-> samples]
    BY <1>1, <1>2, <2>2
  <2> QED BY <2>1, <2>2, FinishedOne
<1> QED BY <1>2 DEF StartsWithKeyFrame

-----------------------------------------------------------------------------
(* The layout of the file.                                                  *)

\* What a write puts at a place inside the file or at its end.
LEMMA PutAtInside ==
  ASSUME NEW file \in Seq(Cell), NEW at \in Nat, NEW cell \in Cell, at <= Len(file)
  PROVE  /\ PutAt(file, at, cell) \in Seq(Cell)
         /\ at = Len(file) => Len(PutAt(file, at, cell)) = Len(file) + 1
         /\ at # Len(file) => Len(PutAt(file, at, cell)) = Len(file)
         /\ \A i \in 1 .. Len(file) : i # at + 1 => PutAt(file, at, cell)[i] = file[i]
         /\ PutAt(file, at, cell)[at + 1] = cell
<1>1. PutAt(file, at, cell) \in Seq(Cell) BY CellTypes, PutAtType
<1> DEFINE n == IF at = Len(file) THEN Len(file) + 1 ELSE Len(file)
           p == PutAt(file, at, cell)
<1>2. Max({Len(file), at + 1}) = n
  <2>1. n \in Nat /\ n \in {Len(file), at + 1} /\ \A y \in {Len(file), at + 1} : n >= y OBVIOUS
  <2>2. \A x \in {Len(file), at + 1} : (\A y \in {Len(file), at + 1} : x >= y) => x = n OBVIOUS
  <2>3. {Len(file), at + 1} \subseteq Nat OBVIOUS
  <2> HIDE DEF n
  <2> QED BY <2>1, <2>2, <2>3 DEF Max
<1>3. p = [i \in 1 .. n |-> IF i = at + 1 THEN cell ELSE IF i <= Len(file) THEN file[i] ELSE Box("hole")]
  BY <1>2 DEF PutAt
<1>4. n \in Nat /\ DOMAIN p = 1 .. n /\ \A i \in 1 .. n : p[i] = IF i = at + 1 THEN cell ELSE file[i]
  <2>1. \A i \in 1 .. n : i = at + 1 \/ i <= Len(file) OBVIOUS
  <2>2. n \in Nat OBVIOUS
  <2> HIDE DEF n, p
  <2> QED BY <1>3, <2>1, <2>2
<1>5. Len(p) = n
  <2> HIDE DEF n
  <2>1. DOMAIN p = 1 .. Len(p) /\ Len(p) \in Nat BY <1>1
  <2> HIDE DEF p
  <2>2. 1 .. Len(p) = 1 .. n /\ n \in Nat BY <1>4, <2>1
  <2>3. ASSUME NEW m \in Nat, NEW k \in Nat, 1 .. m = 1 .. k PROVE m = k
    <3>1. m < k => k \in 1 .. k /\ k \notin 1 .. m OBVIOUS
    <3>2. k < m => m \in 1 .. m /\ m \notin 1 .. k OBVIOUS
    <3> QED BY <2>3, <3>1, <3>2
  <2> QED BY <2>1, <2>2, <2>3
<1> HIDE DEF n, p
<1>6. at = Len(file) => Len(p) = Len(file) + 1 BY <1>5 DEF n
<1>7. at # Len(file) => Len(p) = Len(file) BY <1>5 DEF n
<1>8. \A i \in 1 .. Len(file) : i # at + 1 => p[i] = file[i]
  <2>1. \A i \in 1 .. Len(file) : i \in 1 .. n BY DEF n
  <2> QED BY <1>4, <2>1
<1>9. p[at + 1] = cell
  <2>1. at + 1 \in 1 .. n BY DEF n
  <2> QED BY <1>4, <2>1
<1> QED BY <1>1, <1>6, <1>7, <1>8, <1>9 DEF p

\* The samples of a movie, as one set.
Used(m) == UNION {{m[t][i] : i \in DOMAIN m[t]} : t \in DOMAIN m}

\* The file with these samples, before finishMovie(): the type box, the mdat box and every sample's
\* bytes where its offset says.
Began(file, S) ==
  /\ Len(file) = Cardinality(S) + 2 /\ file[1] = Box("ftyp") /\ file[2] = Box("mdat")
  /\ \A s \in S : s.offset + 1 <= Len(file) /\ file[s.offset + 1] = s.frame

\* From record() until finishMovie() returns.
MovieOpen == worker # 0 \/ ui = "finish"

\* Between two recordings recFileSize is zero and there are no samples; during one, recFileSize is
\* the length of the file.
AtRest == recFileSize = 0 /\ samples = <<>>

Filled ==
  /\ isOpen /\ recFileSize = Len(cells) /\ mdat \in {"first", "begun"}
  /\ mdat = "first" => cells = <<Box("ftyp")>> /\ Used(samples) = {}
  /\ mdat = "begun" => /\ mdatOffset = 1 /\ IsFiniteSet(Used(samples)) /\ Used(samples) # {}
                       /\ Began(cells, Used(samples))

FileOK == ~failed => (MovieOpen => Filled) /\ (~MovieOpen => AtRest)

\* stop() joins a writer that is there.
JoinOK == ui = "join" => worker # 0

LEMMA JoinNext == ASSUME Types, JoinOK, [Mp4Next]_mp4Vars PROVE JoinOK'
<1> USE DEF JoinOK
<1>1. CASE StartRecord BY <1>1 DEF StartRecord
<1>2. CASE Pause \/ Resume \/ ResumeAtKeyFrame BY <1>2 DEF Pause, Resume, ResumeAtKeyFrame
<1>3. CASE StopRecord \/ StopFlags \/ StopKeyFrame \/ StopClear \/ StopJoin \/ StopFinish
  BY <1>3 DEF StopRecord, StopFlags, StopKeyFrame, StopClear, StopJoin, StopFinish
<1>4. CASE EncodeConfig \/ EncodeVideo \/ EncodeAudio \/ Recycle
  BY <1>4 DEF EncodeConfig, EncodeVideo, EncodeAudio, Recycle, uiVars
<1>5. ASSUME NEW t \in Track, Encoder(t) PROVE JoinOK'
  BY <1>5 DEF Encoder, ReadRecording, ReadPaused, ReadNeedKeyFrame, KeyFrameFound, AddFrame, uiVars
<1>6. ASSUME NEW r \in Record, Writer(r) PROVE JoinOK'
  BY <1>6 DEF Writer, WriterBegin, WriterLoop, WriterPoll, WriterWait, WriterWrite, uiVars
<1>7. CASE UNCHANGED mp4Vars BY <1>7 DEF mp4Vars, uiVars
<1> QED BY <1>1, <1>2, <1>3, <1>4, <1>5, <1>6, <1>7 DEF Mp4Next, UI, Stopping

\* What a step does to the file, and when.
LEMMA MovieStep ==
  ASSUME Types, WriterInv, JoinOK, [Mp4Next]_mp4Vars
  PROVE  \/ UNCHANGED movie /\ MovieOpen' = MovieOpen
         \/ StartRecord /\ CreateMovie /\ AddTracks /\ ~MovieOpen /\ MovieOpen' /\ UNCHANGED finished
         \/ StopFinish /\ FinishMovie /\ MovieOpen /\ ~MovieOpen' /\ mdat # "null"
         \/ \E r \in Record : /\ WriterWrite(r) /\ WriteSampleData(taken[r]) /\ taken[r].track \in DOMAIN samples
                              /\ MovieOpen /\ MovieOpen' /\ mdat # "null"
<1> USE DEF MovieOpen
<1>1. CASE StartRecord
  <2>1. worker = 0 /\ ui = "idle" BY <1>1 DEF StartRecord, WriterInv, StopPc
  <2>2. CASE formats = {} BY <1>1, <2>2 DEF StartRecord
  <2>3. CASE formats # {}
    <3>1. worker' = recordings + 1 /\ recordings \in Nat BY <1>1, <2>3 DEF StartRecord, WriterInv
    <3>2. CreateMovie /\ AddTracks /\ UNCHANGED finished BY <1>1, <2>3 DEF StartRecord
    <3> QED BY <1>1, <2>1, <3>1, <3>2
  <2> QED BY <2>2, <2>3
<1>2. CASE StopFinish
  <2>1. worker = 0 /\ ui = "finish" /\ worker' = worker BY <1>2 DEF StopFinish, WriterInv, StopPc
  <2>2. \/ mdat = "null" /\ UNCHANGED <<ui, movie>>
        \/ mdat # "null" /\ FinishMovie /\ ui' = "idle"
    BY <1>2 DEF StopFinish
  <2> QED BY <1>2, <2>1, <2>2
<1>3. CASE StopJoin BY <1>3 DEF StopJoin, JoinOK
<1>4. CASE Pause \/ Resume \/ ResumeAtKeyFrame BY <1>4 DEF Pause, Resume, ResumeAtKeyFrame
<1>5. CASE StopRecord \/ StopFlags \/ StopKeyFrame BY <1>5 DEF StopRecord, StopFlags, StopKeyFrame
<1>6. CASE StopClear BY <1>6 DEF StopClear
<1>7. CASE EncodeConfig \/ EncodeVideo \/ EncodeAudio \/ Recycle
  <2>1. UNCHANGED <<movie, uiVars>> BY <1>7 DEF EncodeConfig, EncodeVideo, EncodeAudio, Recycle
  <2> QED BY <2>1 DEF uiVars
<1>8. ASSUME NEW t \in Track, Encoder(t) PROVE UNCHANGED movie /\ MovieOpen' = MovieOpen
  <2>1. UNCHANGED <<movie, uiVars>>
    BY <1>8 DEF Encoder, ReadRecording, ReadPaused, ReadNeedKeyFrame, KeyFrameFound, AddFrame
  <2> QED BY <2>1 DEF uiVars
<1>9. ASSUME NEW r \in Record, Writer(r)
      PROVE  \/ UNCHANGED movie /\ MovieOpen' = MovieOpen
             \/ /\ WriterWrite(r) /\ WriteSampleData(taken[r]) /\ taken[r].track \in DOMAIN samples
                /\ MovieOpen /\ MovieOpen' /\ mdat # "null"
  <2>1. UNCHANGED uiVars BY <1>9 DEF Writer, WriterBegin, WriterLoop, WriterPoll, WriterWait, WriterWrite
  <2>2. worker # 0
    BY <1>9 DEF Writer, WriterBegin, WriterLoop, WriterPoll, WriterWait, WriterWrite, WriterInv,
       OneWriter, Record
  <2>3. \/ UNCHANGED movie
        \/ /\ WriterWrite(r) /\ WriteSampleData(taken[r]) /\ taken[r].track \in DOMAIN samples
           /\ mdat # "null"
    BY <1>9 DEF Writer, WriterBegin, WriterLoop, WriterPoll, WriterWait, WriterWrite
  <2> QED BY <2>1, <2>2, <2>3 DEF uiVars
<1>10. CASE UNCHANGED mp4Vars BY <1>10 DEF mp4Vars, uiVars
<1> QED BY <1>1, <1>2, <1>3, <1>4, <1>5, <1>6, <1>7, <1>8, <1>9, <1>10 DEF Mp4Next, UI, Stopping

\* A failure stays.
LEMMA FailedStays == ASSUME Types, WriterInv, JoinOK, [Mp4Next]_mp4Vars, failed PROVE failed'
<1>1. CreateMovie => failed' BY DEF CreateMovie
<1>2. FinishMovie => failed' BY DEF FinishMovie
<1>3. ASSUME NEW r \in Record, WriteSampleData(taken[r]) PROVE failed' BY <1>3 DEF WriteSampleData
<1>4. UNCHANGED movie => failed' BY DEF movie
<1> QED BY <1>1, <1>2, <1>3, <1>4, MovieStep

\* record() finds recFileSize at zero, and the file it creates starts with the type box.
LEMMA FileCreated ==
  ASSUME Types, AtRest, CreateMovie, AddTracks, ~failed' PROVE Filled'
<1>1. /\ cells' = <<Box("ftyp")>> /\ isOpen' = TRUE /\ mdat' = "first" /\ recFileSize' = recFileSize + 1
  BY DEF CreateMovie
<1>2. recFileSize' = 1 BY <1>1 DEF AtRest
<1>3. Len(<<Box("ftyp")>>) = 1 OBVIOUS
<1>4. Used(samples)' = {}
  <2>1. \A t \in DOMAIN samples' : samples'[t] = <<>> /\ DOMAIN <<>> = {} BY DEF AddTracks, AtRest
  <2> QED BY <2>1 DEF Used
<1> QED BY <1>1, <1>2, <1>3, <1>4 DEF Filled

\* A sample more makes its movie's set greater by that sample.
LEMMA UsedGrows ==
  ASSUME Types, NEW t \in DOMAIN samples, NEW s \in Sample, samples' = [samples EXCEPT ![t] = Append(@, s)]
  PROVE  Used(samples)' = Used(samples) \cup {s}
<1>1. samples[t] \in Seq(Sample) BY DEF Types, FileTypes
<1>2. DOMAIN samples' = DOMAIN samples /\ samples'[t] = Append(samples[t], s)
      /\ \A u \in DOMAIN samples : u # t => samples'[u] = samples[u]
  OBVIOUS
<1>3. /\ DOMAIN samples[t] = 1 .. Len(samples[t]) /\ Len(samples[t]) \in Nat
      /\ DOMAIN samples'[t] = 1 .. Len(samples[t]) + 1
      /\ \A i \in 1 .. Len(samples[t]) : samples'[t][i] = samples[t][i]
      /\ samples'[t][Len(samples[t]) + 1] = s
  BY <1>1, <1>2, AppendedTo
<1> DEFINE Set(u) == {samples[u][i] : i \in DOMAIN samples[u]}
           New(u) == {samples'[u][i] : i \in DOMAIN samples'[u]}
<1>4. New(t) = Set(t) \cup {s}
  <2>1. \A i \in DOMAIN samples'[t] : i \in DOMAIN samples[t] \/ i = Len(samples[t]) + 1 BY <1>3
  <2>2. \A x \in New(t) : x \in Set(t) \cup {s} BY <1>3, <2>1
  <2>3. \A i \in DOMAIN samples[t] : i \in DOMAIN samples'[t] /\ samples'[t][i] = samples[t][i] BY <1>3
  <2>4. \A x \in Set(t) : x \in New(t) BY <2>3
  <2>5. s \in New(t)
    <3>1. Len(samples[t]) + 1 \in DOMAIN samples'[t] BY <1>3
    <3> QED BY <1>3, <3>1
  <2> QED BY <2>2, <2>4, <2>5
<1>5. \A u \in DOMAIN samples : u # t => New(u) = Set(u) BY <1>2
<1>6. Used(samples) = UNION {Set(u) : u \in DOMAIN samples} BY DEF Used
<1>7. Used(samples)' = UNION {New(u) : u \in DOMAIN samples'} BY DEF Used
<1> HIDE DEF Set, New
<1>8. ASSUME NEW x, x \in Used(samples)' PROVE x \in Used(samples) \cup {s}
  <2>1. PICK u \in DOMAIN samples : x \in New(u) BY <1>2, <1>7, <1>8
  <2> QED BY <1>4, <1>5, <1>6, <2>1
<1>9. ASSUME NEW x, x \in Used(samples) PROVE x \in Used(samples)'
  <2>1. PICK u \in DOMAIN samples : x \in Set(u) BY <1>6, <1>9
  <2>2. x \in New(u) BY <1>4, <1>5, <2>1
  <2> QED BY <1>2, <1>7, <2>2
<1>10. s \in Used(samples)' BY <1>2, <1>4, <1>7
<1> QED BY <1>8, <1>9, <1>10

\* Every write that succeeds leaves recFileSize at the length of the file, and the sample's bytes
\* where its offset says.
LEMMA SampleFilled ==
  ASSUME Types, Filled, NEW f \in Frame, f.track \in DOMAIN samples, WriteSampleData(f), ~failed'
  PROVE  Filled'
<1>a. cells \in Seq(Cell) /\ recFileSize = Len(cells) /\ Len(cells) \in Nat /\ f \in Cell /\ Box("mdat") \in Cell
  BY CellTypes DEF Filled, Types, FileTypes
<1> DEFINE begun == IF mdat = "first" THEN Append(cells, Box("mdat")) ELSE cells
           at    == IF mdat = "first" THEN recFileSize + 1 ELSE recFileSize
<1>1. /\ mdat' = "begun" /\ isOpen' = isOpen
      /\ mdatOffset' = IF mdat = "first" THEN recFileSize ELSE mdatOffset
      /\ cells' = Append(begun, f)
      /\ recFileSize' = at + 1
  BY DEF WriteSampleData
<1>2. PICK s \in Sample : s.frame = f /\ s.offset = at /\ samples' = [samples EXCEPT ![f.track] = Append(@, s)]
  BY SampleWritten
<1>3. Used(samples)' = Used(samples) \cup {s} BY <1>2, UsedGrows
<1>4. begun \in Seq(Cell) /\ Len(begun) = at /\ at \in Nat
  <2>1. CASE mdat = "first" BY <1>a, <2>1, AppendedTo
  <2>2. CASE mdat # "first" BY <1>a, <2>2
  <2> QED BY <2>1, <2>2
<1>5. /\ Len(begun) >= 2 /\ begun[1] = Box("ftyp") /\ begun[2] = Box("mdat") /\ mdatOffset' = 1
      /\ IsFiniteSet(Used(samples)) /\ Len(begun) = Cardinality(Used(samples)) + 2
      /\ \A u \in Used(samples) : u.offset + 1 <= Len(begun) /\ begun[u.offset + 1] = u.frame
  <2>1. CASE mdat = "first"
    <3>1. cells = <<Box("ftyp")>> /\ Used(samples) = {} BY <2>1 DEF Filled
    <3>2. Len(cells) = 1 /\ cells[1] = Box("ftyp") BY <3>1
    <3>3. begun = Append(cells, Box("mdat")) BY <2>1
    <3>4. Len(begun) = 2 /\ begun[1] = Box("ftyp") /\ begun[2] = Box("mdat")
      <4> HIDE DEF begun
      <4>1. 1 \in 1 .. Len(cells) BY <3>2
      <4>2. Len(begun) = Len(cells) + 1 /\ begun[1] = cells[1] /\ begun[Len(cells) + 1] = Box("mdat")
        BY <1>a, <3>3, <4>1, AppendedTo
      <4> QED BY <3>2, <4>2
    <3>5. mdatOffset' = 1 BY <1>1, <1>a, <2>1, <3>2
    <3>6. IsFiniteSet({}) /\ Cardinality({}) = 0 BY FS_EmptySet
    <3> HIDE DEF begun
    <3> QED BY <3>1, <3>4, <3>5, <3>6
  <2>2. CASE mdat = "begun"
    <3>1. mdatOffset' = 1 BY <1>1, <2>2 DEF Filled
    <3>2. IsFiniteSet(Used(samples)) /\ Used(samples) # {} /\ Began(cells, Used(samples)) BY <2>2 DEF Filled
    <3>3. begun = cells BY <2>2
    <3>4. Cardinality(Used(samples)) \in Nat BY <3>2, FS_CardinalityType
    <3> HIDE DEF begun
    <3>5. Len(begun) = Cardinality(Used(samples)) + 2 BY <3>2, <3>3 DEF Began
    <3> QED BY <3>1, <3>2, <3>3, <3>4, <3>5 DEF Began
  <2> QED BY <2>1, <2>2 DEF Filled
<1> HIDE DEF begun, at
<1>6. s \notin Used(samples)
  <2>1. s.offset = Len(begun) /\ Len(begun) \in Nat BY <1>2, <1>4
  <2>2. ~(s.offset + 1 <= Len(begun)) BY <2>1
  <2> QED BY <1>5, <2>2
<1>7. /\ IsFiniteSet(Used(samples)') /\ Cardinality(Used(samples)') = Cardinality(Used(samples)) + 1
  BY <1>3, <1>5, <1>6, FS_AddElement
<1>8. /\ Len(cells') = Len(begun) + 1 /\ \A i \in 1 .. Len(begun) : cells'[i] = begun[i]
      /\ cells'[Len(begun) + 1] = f
  BY <1>1, <1>4, <1>a, AppendedTo
<1>9. Cardinality(Used(samples)) \in Nat BY <1>5, FS_CardinalityType
<1>10. \A u \in Used(samples) : u.offset \in Nat
  <2>1. ASSUME NEW t \in DOMAIN samples, NEW i \in DOMAIN samples[t] PROVE samples[t][i].offset \in Nat
    <3>1. samples[t] \in Seq(Sample) BY DEF Types, FileTypes
    <3>2. samples[t][i] \in Sample BY <3>1
    <3> QED BY <3>2 DEF Sample
  <2> QED BY <2>1 DEF Used
<1>11. Began(cells, Used(samples))'
  <2>1. Len(cells') = Cardinality(Used(samples)') + 2 BY <1>5, <1>7, <1>8, <1>9
  <2>2. cells'[1] = Box("ftyp") /\ cells'[2] = Box("mdat")
    <3>1. 1 \in 1 .. Len(begun) /\ 2 \in 1 .. Len(begun) BY <1>4, <1>5
    <3> QED BY <1>5, <1>8, <3>1
  <2>3. ASSUME NEW u \in Used(samples) PROVE u.offset + 1 <= Len(cells') /\ cells'[u.offset + 1] = u.frame
    <3>1. u.offset + 1 \in 1 .. Len(begun) BY <1>4, <1>5, <1>10
    <3> QED BY <1>4, <1>5, <1>8, <3>1
  <2>4. s.offset + 1 <= Len(cells') /\ cells'[s.offset + 1] = s.frame BY <1>2, <1>4, <1>8
  <2> QED BY <1>3, <2>1, <2>2, <2>3, <2>4 DEF Began
<1>12. recFileSize' = Len(cells') BY <1>1, <1>4, <1>8
<1>13. Used(samples)' # {} BY <1>3
<1> QED BY <1>1, <1>5, <1>7, <1>11, <1>12, <1>13 DEF Filled

\* finishMovie() leaves nothing of the movie behind.
LEMMA FileFinished ==
  ASSUME FinishMovie, ~failed' PROVE AtRest'
BY DEF FinishMovie, AtRest, NextFileSize

LEMMA FileNext == ASSUME Types, WriterInv, JoinOK, FileOK, [Mp4Next]_mp4Vars PROVE FileOK'
<1> SUFFICES ASSUME ~failed' PROVE (MovieOpen' => Filled') /\ (~MovieOpen' => AtRest')
  BY DEF FileOK
<1>1. ~failed BY FailedStays
<1>2. CASE UNCHANGED movie /\ MovieOpen' = MovieOpen
  <2>1. AtRest => AtRest' BY <1>2 DEF movie, AtRest
  <2>2. Filled => Filled'
    <3>1. UNCHANGED <<isOpen, recFileSize, cells, mdat, mdatOffset, samples>> BY <1>2 DEF movie
    <3>2. Used(samples)' = Used(samples) BY <3>1 DEF Used
    <3>3. Began(cells, Used(samples))' = Began(cells, Used(samples)) BY <3>1, <3>2 DEF Began
    <3> QED BY <3>1, <3>2, <3>3 DEF Filled
  <2> QED BY <1>1, <1>2, <2>1, <2>2 DEF FileOK
<1>3. CASE CreateMovie /\ AddTracks /\ ~MovieOpen /\ MovieOpen' BY <1>1, <1>3, FileCreated DEF FileOK
<1>4. CASE FinishMovie /\ MovieOpen /\ ~MovieOpen' BY <1>4, FileFinished
<1>5. ASSUME NEW r \in Record, WriteSampleData(taken[r]), taken[r].track \in DOMAIN samples, MovieOpen, MovieOpen'
      PROVE  Filled'
  <2>1. taken[r] \in Frame BY FramesTyped
  <2> QED BY <1>1, <1>5, <2>1, SampleFilled DEF FileOK
<1> QED BY <1>2, <1>3, <1>4, <1>5, MovieStep

\* The movie box goes behind the last sample, and the mdat header over the one that is there.
LEMMA MovieEnded ==
  ASSUME Types, Filled, FinishMovie, ~failed', Used(samples) # {}
  PROVE  /\ Len(cells') = Len(cells) + 1 /\ cells'[Len(cells) + 1] = Box("moov")
         /\ \A i \in 1 .. Len(cells) : cells'[i] = cells[i]
<1>1. cells \in Seq(Cell) /\ Len(cells) \in Nat BY DEF Types, FileTypes
<1>a. Box("mdat") \in Cell /\ Box("moov") \in Cell /\ Box("hole") \in Cell BY CellTypes
<1>2. mdatOffset = 1 /\ Began(cells, Used(samples)) /\ IsFiniteSet(Used(samples))
  <2>1. mdat = "begun" BY DEF Filled
  <2> QED BY <2>1 DEF Filled
<1>3. Len(cells) >= 2 /\ cells[2] = Box("mdat")
  <2>1. Cardinality(Used(samples)) \in Nat BY <1>2, FS_CardinalityType
  <2> QED BY <1>2, <2>1 DEF Began
<1>4. PICK begun \in Seq(Cell) :
        /\ begun = PutAt(cells, mdatOffset, Box("mdat"))
        /\ cells' = PutAt(begun, Len(cells), Box("moov"))
        /\ Len(begun) = Len(cells) /\ \A i \in 1 .. Len(cells) : begun[i] = cells[i]
  <2> DEFINE begun == PutAt(cells, mdatOffset, Box("mdat"))
  <2>1. cells' = PutAt(begun, Len(cells), Box("moov")) BY DEF FinishMovie
  <2>2. mdatOffset \in Nat /\ mdatOffset <= Len(cells) /\ mdatOffset # Len(cells) BY <1>1, <1>2, <1>3
  <2>3. /\ begun \in Seq(Cell) /\ Len(begun) = Len(cells)
        /\ \A i \in 1 .. Len(cells) : i # mdatOffset + 1 => begun[i] = cells[i]
        /\ begun[mdatOffset + 1] = Box("mdat")
    BY <1>1, <1>a, <2>2, PutAtInside
  <2> HIDE DEF begun
  <2>4. \A i \in 1 .. Len(cells) : begun[i] = cells[i] BY <1>2, <1>3, <2>3
  <2> QED BY <2>1, <2>3, <2>4 DEF begun
<1>5. Len(cells) \in Nat /\ Len(cells) <= Len(begun) /\ Len(cells) = Len(begun) BY <1>1, <1>4
<1>6. /\ Len(cells') = Len(begun) + 1 /\ cells'[Len(cells) + 1] = Box("moov")
      /\ \A i \in 1 .. Len(begun) : i # Len(cells) + 1 => cells'[i] = begun[i]
  BY <1>a, <1>4, <1>5, PutAtInside
<1>7. Len(cells') = Len(cells) + 1 BY <1>5, <1>6
<1>8. \A i \in 1 .. Len(cells) : i \in 1 .. Len(begun) /\ i # Len(cells) + 1 BY <1>5
<1> QED BY <1>4, <1>6, <1>7, <1>8

LEMMA ReadableNext ==
  ASSUME Mp4Assumption, Types, HistoryTypes, WriterInv, JoinOK, FileOK, FilesReadable, [Mp4Next]_mp4Vars
  PROVE  FilesReadable'
<1> DEFINE used(e) == UNION {Range(e.samples[t]) : t \in DOMAIN e.samples}
           Good(e) == /\ e.cells[1] = Box("ftyp") /\ e.cells[2] = Box("mdat") /\ Last(e.cells) = Box("moov")
                      /\ Len(e.cells) = Cardinality(used(e)) + 3
                      /\ \A s \in used(e) : e.cells[s.offset + 1] = s.frame
           file == [rec |-> recordings, cells |-> cells', samples |-> samples]
<1>1. ASSUME StopFinish, finished' # finished, ~failed', used(file) # {} PROVE Good(file)
  <2>1. FinishMovie /\ MovieOpen
    <3>1. finished' # finished => ~UNCHANGED movie BY DEF movie
    <3>2. ui = "finish" /\ (UNCHANGED movie \/ FinishMovie) BY <1>1 DEF StopFinish
    <3> QED BY <1>1, <3>1, <3>2 DEF MovieOpen
  <2>2. ~failed BY <1>1, FailedStays
  <2>3. Filled BY <2>1, <2>2 DEF FileOK
  <2>4. used(file) = Used(samples)
    <3>1. file.samples = samples OBVIOUS
    <3> HIDE DEF file
    <3> QED BY <3>1 DEF Used, Range
  <2>5. IsFiniteSet(Used(samples)) /\ Began(cells, Used(samples)) BY <1>1, <2>3, <2>4 DEF Filled
  <2>6. /\ Len(cells') = Len(cells) + 1 /\ cells'[Len(cells) + 1] = Box("moov")
        /\ \A i \in 1 .. Len(cells) : cells'[i] = cells[i]
    BY <1>1, <2>1, <2>3, <2>4, MovieEnded
  <2>7. Cardinality(Used(samples)) \in Nat /\ Len(cells) = Cardinality(Used(samples)) + 2
    BY <2>5, FS_CardinalityType DEF Began
  <2>8. cells'[1] = Box("ftyp") /\ cells'[2] = Box("mdat")
    <3>1. 1 \in 1 .. Len(cells) /\ 2 \in 1 .. Len(cells) BY <2>7
    <3> QED BY <2>5, <2>6, <3>1 DEF Began
  <2>9. Last(cells') = Box("moov") BY <2>6 DEF Last
  <2>10. Len(cells') = Cardinality(Used(samples)) + 3 BY <2>6, <2>7
  <2>11. ASSUME NEW s \in Used(samples) PROVE cells'[s.offset + 1] = s.frame
    <3>1. s.offset \in Nat
      <4>1. PICK t \in DOMAIN samples : \E i \in DOMAIN samples[t] : s = samples[t][i] BY <2>11 DEF Used
      <4>2. samples[t] \in Seq(Sample) BY DEF Types, FileTypes
      <4>3. s \in Sample BY <4>1, <4>2
      <4> QED BY <4>3 DEF Sample
    <3>2. s.offset + 1 \in 1 .. Len(cells) BY <2>5, <2>7, <3>1 DEF Began
    <3> QED BY <2>5, <2>6, <3>2 DEF Began
  <2>12. file.cells = cells' OBVIOUS
  <2> HIDE DEF file, used
  <2> QED BY <2>4, <2>8, <2>9, <2>10, <2>11, <2>12
<1>2. ASSUME NEW i \in DOMAIN finished', ~failed', used(finished'[i]) # {} PROVE Good(finished'[i])
  <2>1. CASE i \in DOMAIN finished /\ finished'[i] = finished[i]
    <3>1. ~failed BY <1>2, FailedStays
    <3>2. \A j \in DOMAIN finished : used(finished[j]) # {} => Good(finished[j]) BY <3>1 DEF FilesReadable
    <3> HIDE DEF used, Good
    <3> QED BY <1>2, <2>1, <3>2
  <2>2. CASE StopFinish /\ finished' # finished /\ finished'[i] = file
    <3> HIDE DEF used, Good, file
    <3> QED BY <1>1, <1>2, <2>2
  <2> QED BY <2>1, <2>2, FinishedOne
<1> QED BY <1>2 DEF FilesReadable, Range

\* The mdat field is null only until the first file has been opened.
NullOK == mdat = "null" => finished = <<>>

LEMMA NullNext ==
  ASSUME Mp4Assumption, Types, HistoryTypes, WriterInv, JoinOK, NullOK, [Mp4Next]_mp4Vars PROVE NullOK'
<1> USE DEF NullOK
<1>1. CASE UNCHANGED movie BY <1>1 DEF movie
<1>2. CASE CreateMovie /\ UNCHANGED finished BY <1>2 DEF CreateMovie
<1>3. CASE FinishMovie /\ mdat # "null" BY <1>3 DEF FinishMovie, MdatKept
<1>4. ASSUME NEW r \in Record, WriteSampleData(taken[r]) PROVE NullOK' BY <1>4 DEF WriteSampleData
<1> QED BY <1>1, <1>2, <1>3, <1>4, MovieStep

LEMMA CrashNext ==
  ASSUME Mp4Assumption, Types, Types', WriterInv, JoinOK, FileOK, NullOK, CrashesBeforeFirstFile, [Mp4Next]_mp4Vars
  PROVE  CrashesBeforeFirstFile'
<1> USE DEF CrashesBeforeFirstFile
<1>1. CASE UNCHANGED mp4Vars BY <1>1 DEF mp4Vars, movie
<1>2. CASE Mp4Next /\ ~crashed'
  BY <1>2
<1>3. CASE Mp4Next /\ crashed'
  <2>1. ~crashed BY <1>3 DEF Mp4Next
  <2>2. /\ StopFinish \/ \E r \in Record : WriterWrite(r)
        /\ UNCHANGED movie /\ mdat = "null"
    <3>1. UI => StopFinish /\ UNCHANGED movie /\ mdat = "null"
      BY <1>3, <2>1 DEF UI, Stopping, StartRecord, Pause, Resume, ResumeAtKeyFrame, StopRecord,
         StopFlags, StopKeyFrame,
         StopClear, StopJoin, StopFinish
    <3>2. ~(EncodeConfig \/ EncodeVideo \/ EncodeAudio \/ Recycle)
      BY <1>3, <2>1 DEF EncodeConfig, EncodeVideo, EncodeAudio, Recycle
    <3>3. \A t \in Track : ~Encoder(t)
      BY <1>3, <2>1 DEF Encoder, ReadRecording, ReadPaused, ReadNeedKeyFrame, KeyFrameFound,
         AddFrame
    <3>4. ASSUME NEW r \in Record, Writer(r) PROVE WriterWrite(r) /\ UNCHANGED movie /\ mdat = "null"
      BY <1>3, <2>1, <3>4 DEF Writer, WriterBegin, WriterLoop, WriterPoll, WriterWait, WriterWrite
    <3> QED BY <1>3, <3>1, <3>2, <3>3, <3>4 DEF Mp4Next
  <2>3. MovieOpen
    <3>1. CASE StopFinish BY <3>1 DEF StopFinish, MovieOpen
    <3>2. ASSUME NEW r \in Record, WriterWrite(r) PROVE MovieOpen
      BY <3>2 DEF WriterWrite, WriterInv, OneWriter, Record, MovieOpen
    <3> QED BY <2>2, <3>1, <3>2
  <2>4. failed BY <2>2, <2>3 DEF FileOK, Filled
  <2> QED BY <2>2, <2>4 DEF movie, NullOK
<1> QED BY <1>1, <1>2, <1>3

-----------------------------------------------------------------------------
(* The inductive invariant and the theorems.                                *)

Mp4Inv ==
  /\ Types /\ HistoryTypes
  /\ WriterInv /\ ButtonOK /\ JoinOK /\ RecordingOK /\ TracksOK /\ EncoderOK
  /\ OrderOK /\ InOrder
  /\ StaleOK /\ OneStaleFrame
  /\ FirstKeyOK /\ StartsWithKeyFrame
  /\ FileOK /\ FilesReadable
  /\ NullOK /\ CrashesBeforeFirstFile

LEMMA Mp4InvInit == ASSUME Mp4Assumption, Mp4Init PROVE Mp4Inv
<1> USE VideoTrack
<1>1. Types BY TypesInit
<1>2. DOMAIN samples = {} /\ DOMAIN finished = {} /\ DOMAIN frameCache = {}
      /\ samples = <<>> /\ finished = <<>> /\ frameCache = <<>> /\ cells = <<>>
  BY DEF Mp4Init
<1>3. \A r \in Record : writer[r] = "none" BY DEF Mp4Init
<1>4. \A t \in Track : enc[t] = Idle /\ Idle.pc = "idle" BY DEF Mp4Init, Idle
<1>5. HistoryTypes BY <1>2, EmptyMovie DEF HistoryTypes
<1>6. ButtonOK /\ JoinOK /\ RecordingOK /\ TracksOK BY <1>2 DEF Mp4Init, ButtonOK, JoinOK, RecordingOK, TracksOK
<1>7. EncoderOK BY <1>4 DEF EncoderOK
<1>8. \A t \in Track : Sampled(t) = {} /\ InHand(t) = {} /\ Cached(t) = {} /\ Pending(t) = {}
  BY <1>2, <1>3, <1>4 DEF Sampled, InHand, Cached, Pending
<1>9. OrderOK BY <1>2, <1>3, <1>8 DEF OrderOK, CacheOrder, TakenOrder, SamplesOrder, Ordered
<1>10. InOrder BY <1>2, <1>9, InOrderParts DEF OrderOK
<1>11. \A t \in Track : Passed(t) = {} BY <1>8 DEF Passed
<1>12. StaleOK BY <1>6, <1>8, <1>11 DEF StaleOK, AtMostOne
<1>13. FirstKeyOK BY <1>11 DEF Mp4Init, FirstKeyOK
<1>14. OneStaleFrame /\ StartsWithKeyFrame /\ FilesReadable
  BY <1>2 DEF OneStaleFrame, StartsWithKeyFrame, FilesReadable
<1>15. FileOK BY DEF Mp4Init, FileOK, MovieOpen, AtRest
<1>16. NullOK /\ CrashesBeforeFirstFile BY DEF Mp4Init, NullOK, CrashesBeforeFirstFile
<1> QED
  BY <1>1, <1>5, <1>6, <1>7, <1>9, <1>10, <1>12, <1>13, <1>14, <1>15, <1>16, WriterInvInit DEF
     Mp4Inv

LEMMA Mp4InvNext == ASSUME Mp4Assumption, Mp4Inv, [Mp4Next]_mp4Vars PROVE Mp4Inv'
<1> USE DEF Mp4Inv
<1>1. Types' BY TypesNext
<1>2. HistoryTypes' BY <1>1, HistoryNext
<1>3. WriterInv' BY WriterInvNext
<1>4. ButtonOK' /\ JoinOK' BY ButtonNext, JoinNext
<1>5. RecordingOK' BY RecordingNext
<1>6. TracksOK' BY TracksNext
<1>7. EncoderOK' BY EncoderNext
<1>8. OrderOK' BY <1>1, OrderNext
<1>9. InOrder' BY <1>8, InOrderNext
<1>10. StaleOK' BY StaleNext
<1>11. OneStaleFrame' BY OneStaleNext
<1>12. FirstKeyOK' BY FirstKeyNext
<1>13. StartsWithKeyFrame' BY StartsKeyNext
<1>14. FileOK' BY FileNext
<1>15. FilesReadable' BY ReadableNext
<1>16. NullOK' BY NullNext
<1>17. CrashesBeforeFirstFile' BY <1>1, CrashNext
<1> QED
  BY <1>1, <1>2, <1>3, <1>4, <1>5, <1>6, <1>7, <1>8, <1>9, <1>10, <1>11, <1>12, <1>13, <1>14,
     <1>15, <1>16, <1>17

LEMMA Mp4InvHolds == ASSUME Mp4Assumption PROVE Mp4Spec => []Mp4Inv
<1>1. Mp4Init => Mp4Inv BY Mp4InvInit
<1>2. Mp4Inv /\ [Mp4Next]_mp4Vars => Mp4Inv' BY Mp4InvNext
<1> QED BY <1>1, <1>2, PTL DEF Mp4Spec

(* Every variable keeps its type, whatever the bounds and whether or not   *)
(* the storage fails: the queue, the tables of samples and the files hold  *)
(* frames and boxes, and recFileSize and the offsets are never negative.   *)
THEOREM Mp4Types == ASSUME Mp4Assumption PROVE Mp4Spec => []Mp4TypeOK
<1>1. Mp4Inv => Mp4TypeOK BY TypesSuffice DEF Mp4Inv
<1> QED BY <1>1, Mp4InvHolds, PTL

(* The samples of every track, in the file being written as in those that  *)
(* are finished, have the order in which the encoder emitted them, none    *)
(* twice: from frameCache.add() (331, 338) through the writer's poll       *)
(* (137-142) to its write, no race of record(), stop() and the encoder     *)
(* threads changes the order.                                              *)
THEOREM InOrderHolds == ASSUME Mp4Assumption PROVE Mp4Spec => []InOrder
<1>1. Mp4Inv => InOrder BY DEF Mp4Inv
<1> QED BY <1>1, Mp4InvHolds, PTL

(* Of the frames that were emitted during an earlier recording, a finished *)
(* file has at most one of each track: the one whose encoder thread was    *)
(* past the test of bRecording (327) when stop() cleared frameCache (188). *)
THEOREM OneStaleFrameHolds == ASSUME Mp4Assumption PROVE Mp4Spec => []OneStaleFrame
<1>1. Mp4Inv => OneStaleFrame BY DEF Mp4Inv
<1> QED BY <1>1, Mp4InvHolds, PTL

(* The video track of the first file starts with a key frame as soon as it *)
(* has two samples, however the UI thread sets needToFindKeyFrame in the   *)
(* middle of writeFrameByte() (320-343).                                   *)
THEOREM StartsWithKeyFrameHolds == ASSUME Mp4Assumption PROVE Mp4Spec => []StartsWithKeyFrame
<1>1. Mp4Inv => StartsWithKeyFrame BY DEF Mp4Inv
<1> QED BY <1>1, Mp4InvHolds, PTL

(* Until an IOException is reported, every finished file is the type box,  *)
(* the mdat box, its samples and the movie box, and every offset is the    *)
(* place of its sample's bytes: recFileSize, which only finishMovie() sets *)
(* to zero (864), is the length of the file from createMovie() on.         *)
THEOREM FilesReadableHolds == ASSUME Mp4Assumption PROVE Mp4Spec => []FilesReadable
<1>1. Mp4Inv => FilesReadable BY DEF Mp4Inv
<1> QED BY <1>1, Mp4InvHolds, PTL

(* The null mdat field is dereferenced only after createMovie() has        *)
(* reported a failure, and never once a file has been finished.            *)
THEOREM CrashesBeforeFirstFileHolds == ASSUME Mp4Assumption PROVE Mp4Spec => []CrashesBeforeFirstFile
<1>1. Mp4Inv => CrashesBeforeFirstFile BY DEF Mp4Inv
<1> QED BY <1>1, Mp4InvHolds, PTL
=============================================================================
