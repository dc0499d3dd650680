--------------------------- MODULE Mp4SampleTable ---------------------------
(***************************************************************************)
(* One track of SrsMp4Muxer: addSample() while the writer records, and the *)
(* sample tables that finishMovie() derives from it (stts, stss, stsc,     *)
(* stsz, stco).  The file is its length; what the other track, or a sample *)
(* that addSample() refuses, puts between two samples is a gap.            *)
(*                                                                         *)
(* A player knows the tables only.  The Read operators look samples up in  *)
(* them the way ISO/IEC 14496-12 defines the tables, and the properties    *)
(* compare the outcome with what was recorded.                             *)
(***************************************************************************)
EXTENDS Integers, SequencesExt

CONSTANTS
  TimeScale,        \* ticks of the track per Second
  Second,           \* microseconds per second
  DefaultDuration,  \* the duration of the last sample, 3015 (video) or 1024 (audio)
  MaxSize,          \* bound: bytes of a sample, or of a gap
  MaxTime,          \* bound: presentation times
  MaxWrites         \* bound: samples and gaps written

ASSUME SampleTableAssumption ==
  /\ {TimeScale, Second, DefaultDuration, MaxSize} \subseteq Nat \ {0}
  /\ {MaxTime, MaxWrites} \subseteq Nat

VARIABLES
  isAudio,
  samples, syncSamples, sampleDurations, duration, lastPresentationTimeUs, first,
  recFileSize,
  written,  \* history: every sample addSample() took, with its time and its sync flag
  writes

track     == <<isAudio, samples, syncSamples, sampleDurations, duration,
               lastPresentationTimeUs, first>>
tableVars == <<track, recFileSize, written, writes>>

Sample == [offset : Nat, size : Nat]
Shot   == [offset : Nat, time : 0..MaxTime, sync : BOOLEAN]

TableTypeOK ==
  /\ isAudio \in BOOLEAN
  /\ samples \in Seq(Sample)
  /\ syncSamples \in Seq(Nat)
  /\ sampleDurations \in Seq(Nat)
  /\ duration \in Nat
  /\ lastPresentationTimeUs \in 0..MaxTime
  /\ first \in BOOLEAN
  /\ recFileSize \in Nat
  /\ written \in Seq(Shot)
  /\ writes \in 0..MaxWrites

TableInit ==
  /\ isAudio \in BOOLEAN
  /\ samples = <<>> /\ syncSamples = <<>>
  /\ sampleDurations = <<DefaultDuration>> /\ duration = DefaultDuration
  /\ lastPresentationTimeUs = 0 /\ first = TRUE
  /\ recFileSize = 1
  /\ written = <<>> /\ writes = 0

TicksTruncated(us) == (us * TimeScale) \div Second  \* mutant: no rounding
Ticks(us) == (us * TimeScale + Second \div 2) \div Second

\* add(size() - 1, delta): the default duration stays that of the last sample.
BeforeLast(durations, d) == InsertAt(durations, Len(durations), d)

\* The number of the sample just added, counted from one.
SyncFromZero == Len(samples)  \* mutant
SyncNumber == Len(samples) + 1

Refused(delta) == delta < 0

AddSample(size, time, sync) ==
  LET delta == time - lastPresentationTimeUs
  IN  IF Refused(delta)
      THEN UNCHANGED <<track, written>>
      ELSE /\ samples' = Append(samples, [offset |-> recFileSize, size |-> size])
           /\ syncSamples' = IF ~isAudio /\ sync THEN Append(syncSamples, SyncNumber)
                                                 ELSE syncSamples
           /\ lastPresentationTimeUs' = time
           /\ sampleDurations' = IF first THEN sampleDurations
                                 ELSE BeforeLast(sampleDurations, Ticks(delta))
           /\ duration' = duration + (IF first THEN 0 ELSE Ticks(delta))
           /\ first' = FALSE
           /\ written' = Append(written, [offset |-> recFileSize, time |-> time, sync |-> sync])
           /\ UNCHANGED isAudio

WriteSample ==
  \E size \in 1..MaxSize, time \in 0..MaxTime, sync \in BOOLEAN :
    /\ writes < MaxWrites
    /\ AddSample(size, time, sync)
    /\ recFileSize' = recFileSize + size
    /\ writes' = writes + 1

WriteOther ==
  \E size \in 1..MaxSize :
    /\ writes < MaxWrites
    /\ recFileSize' = recFileSize + size
    /\ writes' = writes + 1
    /\ UNCHANGED <<track, written>>

TableNext == WriteSample \/ WriteOther

TableSpec == TableInit /\ [][TableNext]_tableVars

----------------------------------------------------------------------------
(* The tables.  A chunk is a run of samples without a gap.                 *)

Count  == Len(samples)
End(a) == samples[a].offset + samples[a].size

Opens(a)  == a = 1 \/ End(a - 1) # samples[a].offset
Closes(a) == a = Count \/ End(a) # samples[a + 1].offset

Stsz == [a \in 1..Count |-> samples[a].size]
Stss == syncSamples

\* One round of the loop of createStco(): the place of a sample that does not follow the one before.
StcoStep(offsets, a) == IF Opens(a) THEN Append(offsets, samples[a].offset) ELSE offsets

StcoAfter[a \in 0..Count] == IF a = 0 THEN <<>> ELSE StcoStep(StcoAfter[a - 1], a)

Stco == StcoAfter[Count]

\* Mutant: the count runs on into the next chunk.
CountRunsOn(acc, a) ==
  LET n == acc.count + 1
  IN  IF ~Closes(a) \/ acc.previous = n THEN [acc EXCEPT !.count = n]
      ELSE [entries  |-> Append(acc.entries, [firstChunk |-> acc.chunk, perChunk |-> n]),
            chunk    |-> acc.chunk + 1,
            count    |-> 0,
            previous |-> n]

\* One round of the loop of createStsc(); an entry only where the number changes.
StscStep(acc, a) ==
  LET n == acc.count + 1
  IN  IF ~Closes(a) THEN [acc EXCEPT !.count = n]
      ELSE [entries  |-> IF acc.previous = n THEN acc.entries
                         ELSE Append(acc.entries, [firstChunk |-> acc.chunk, perChunk |-> n]),
            chunk    |-> acc.chunk + 1,
            count    |-> 0,
            previous |-> n]

StscAfter[a \in 0..Count] ==
  IF a = 0 THEN [entries |-> <<>>, chunk |-> 1, count |-> 0, previous |-> -1]
  ELSE StscStep(StscAfter[a - 1], a)

Stsc == StscAfter[Count].entries

SttsStep(entries, d) ==
  IF entries # <<>> /\ Last(entries).delta = d
  THEN [entries EXCEPT ![Len(entries)].count = @ + 1]
  ELSE Append(entries, [count |-> 1, delta |-> d])

SttsAfter[i \in 0..Len(sampleDurations)] ==
  IF i = 0 THEN <<>> ELSE SttsStep(SttsAfter[i - 1], sampleDurations[i])

Stts == SttsAfter[Len(sampleDurations)]

----------------------------------------------------------------------------
(* What a player reads.                                                    *)

\* Sums(q)[n] is the sum of the first n elements of q.
Sums(q) == LET sum[n \in 0..Len(q)] == IF n = 0 THEN 0 ELSE sum[n - 1] + q[n]
           IN  sum

Total(q) == Sums(q)[Len(q)]

\* An entry of stsc holds for the chunks up to the next entry's first one.
InEntry(entries, e, c) ==
  /\ entries[e].firstChunk <= c
  /\ e = Len(entries) \/ c < entries[e + 1].firstChunk

PerChunk(entries, c) == entries[CHOOSE e \in DOMAIN entries : InEntry(entries, e, c)].perChunk

\* UpToChunk(entries, m)[c] is the number of samples in the first c of m chunks.
UpToChunk(entries, m) == Sums([c \in 1..m |-> PerChunk(entries, c)])

\* The place of sample a: its chunk's, plus the samples of the chunk before it.
OffsetIn(entries, offsets, sizes, a) ==
  LET upTo == UpToChunk(entries, Len(offsets))
      c == CHOOSE c \in 1..Len(offsets) : upTo[c - 1] < a /\ a <= upTo[c]
  IN  offsets[c] + Sums(sizes)[a - 1] - Sums(sizes)[upTo[c - 1]]

ReadCount     == UpToChunk(Stsc, Len(Stco))[Len(Stco)]
ReadOffset(a) == OffsetIn(Stsc, Stco, Stsz, a)

\* An entry of stts holds for as many samples as it counts.
Counted(entries) == Sums([e \in DOMAIN entries |-> entries[e].count])

DurationIn(entries, a) ==
  LET upTo == Counted(entries)
  IN  entries[CHOOSE e \in DOMAIN entries : upTo[e - 1] < a /\ a <= upTo[e]].delta

Durations(entries) == [a \in 1..Counted(entries)[Len(entries)] |-> DurationIn(entries, a)]

ReadDurations == Durations(Stts)
ReadTime(a)   == Sums(ReadDurations)[a - 1]
ReadSync(a)   == Stss = <<>> \/ a \in Range(Stss)

----------------------------------------------------------------------------
(* The chunk tables, built by two loops that each decide for themselves    *)
(* where a chunk ends (createStsc 1016-1054, createStco 1062-1083), lead   *)
(* a player to the bytes of every sample, and to no further sample.        *)
OffsetsRead ==
  /\ Len(Stsz) = Len(written)
  /\ ReadCount = Len(written)
  /\ \A a \in 1..Len(written) : ReadOffset(a) = written[a].offset

(* Durations are rounded one by one (addSample 589-594), so a player's     *)
(* time of a sample may drift from the recorded one, but by no more than   *)
(* half a tick per sample; and every sample has a duration.                *)
TimesKeepPace ==
  written # <<>> =>
    /\ Len(ReadDurations) = Len(written)
    /\ Total(ReadDurations) = duration
    /\ \A a \in 1..Len(written) :
         LET exact == (written[a].time - written[1].time) * TimeScale
             drift == ReadTime(a) * Second - exact
         IN  -(a - 1) * Second <= 2 * drift /\ 2 * drift <= (a - 1) * Second

(* A player takes exactly the samples that the codec flagged as key        *)
(* frames, although addSample() may have refused some in between           *)
(* (addSample 585-587, createStss 1007-1014).  A track without the table   *)
(* has key frames only, which is right for audio and wrong for a picture   *)
(* track in which nothing was flagged; that case is left out.              *)
SyncSamplesRead ==
  \A a \in 1..Len(written) :
    IF isAudio THEN ReadSync(a)
    ELSE (\E b \in 1..Len(written) : written[b].sync) => (ReadSync(a) <=> written[a].sync)

=============================================================================
