------------------------ MODULE Mp4SampleTable_proofs ------------------------
(***************************************************************************)
(* Theorems about Mp4SampleTable for every time scale and every number of  *)
(* samples and gaps: type correctness, and that a player of the tables     *)
(* finds the bytes, the time and the key frames that were recorded.        *)
(*                                                                         *)
(* The tables are what loops leave.  A loop is reasoned about by UpTo,     *)
(* induction over the set of the rounds after which a fact holds; Rounds   *)
(* says that the recursive functions which stand for the loops exist.      *)
(***************************************************************************)
EXTENDS Mp4SampleTable, SequenceTheorems, WellFoundedInduction, TLAPS

\* A track keeps one entry of `samples' for every sample it took.
TablesAligned ==
  /\ Len(samples) = Len(written)
  /\ \A a \in 1 .. Len(written) : samples[a].offset = written[a].offset

\* stss has the numbers of the flagged pictures; audio tracks have no such table.
SyncOK ==
  IF isAudio THEN syncSamples = << >>
  ELSE \A k \in Nat : k \in Range(syncSamples) <=> k \in 1 .. Len(written) /\ written[k].sync

\* Every sample has bytes of its own, and they are in the file.
SamplesPlaced ==
  \A a \in 1 .. Len(samples) :
    /\ End(a) <= recFileSize
    /\ \A b \in 1 .. Len(samples) : a < b => End(a) <= samples[b].offset

\* One duration per sample; an empty track has the default of the sample to come.
DurationsOK ==
  /\ first <=> written = << >>
  /\ Len(sampleDurations) = IF written = << >> THEN 1 ELSE Len(written)

\* Samples are in the order of their times, the last of which addSample() remembers.
TimesInOrder ==
  /\ written # << >> => lastPresentationTimeUs = written[Len(written)].time
  /\ \A a, b \in 1 .. Len(written) : a <= b => written[a].time <= written[b].time

\* Twice the ticks by which the durations before sample a are off, per Second.
Drift(a) == 2 * (Sums(sampleDurations)[a - 1] * Second
                 - (written[a].time - written[1].time) * TimeScale)

\* Each difference of two times is rounded on its own; the sum of the durations up to a sample is
\* off by half a tick per difference at most.
DurationsKeepPace ==
  /\ Total(sampleDurations) = duration
  /\ \A a \in 1 .. Len(written) :
       -((a - 1) * Second) <= Drift(a) /\ Drift(a) <= (a - 1) * Second

TableInv ==
  TableTypeOK /\ TablesAligned /\ SyncOK /\ SamplesPlaced /\ DurationsOK /\ TimesInOrder
    /\ DurationsKeepPace

\* The constants, one by one.
LEMMA Constants ==
  /\ TimeScale \in Nat \ {0} /\ Second \in Nat \ {0} /\ DefaultDuration \in Nat \ {0}
  /\ MaxSize \in Nat \ {0} /\ MaxTime \in Nat /\ MaxWrites \in Nat
  BY SampleTableAssumption

\* An element of a sequence.
LEMMA Element == ASSUME NEW S, NEW q \in Seq(S), NEW i \in 1 .. Len(q) PROVE q[i] \in S
  OBVIOUS

\* What is appended is the last element, and the others stay where they were.
LEMMA AppendLast ==
  ASSUME NEW S, NEW q \in Seq(S), NEW e \in S
  PROVE  /\ Append(q, e) \in Seq(S) /\ Append(q, e) # << >>
         /\ Len(Append(q, e)) = Len(q) + 1 /\ Len(q) \in Nat
         /\ Append(q, e)[Len(q) + 1] = e
         /\ \A i \in 1 .. Len(q) : Append(q, e)[i] = q[i]
  OBVIOUS

\* A non-empty set of natural numbers has a least element.
LEMMA LeastElement ==
  ASSUME NEW T, T \subseteq Nat, T # {}
  PROVE  \E x \in T : \A y \in T : x <= y
<1>1. PICK x \in T : \A y \in T : <<y, x>> \notin OpToRel(<, Nat)
  BY NatLessThanWellFounded, WFMin, Zenon
<1>2. \A y \in T : ~ (y < x)
  BY <1>1, Zenon DEF OpToRel
<1> QED
  BY <1>2

\* Induction up to a bound, for a set in place of a predicate.
LEMMA UpTo ==
  ASSUME NEW m \in Nat, NEW T, 0 \in T, \A n \in 1 .. m : n - 1 \in T => n \in T
  PROVE  0 .. m \subseteq T
<1> DEFINE rest == (0 .. m) \ T
<1> SUFFICES ASSUME rest # {} PROVE FALSE
  OBVIOUS
<1>1. PICK x \in rest : \A y \in rest : x <= y
  <2>1. rest \subseteq Nat
    OBVIOUS
  <2> HIDE DEF rest
  <2> QED
    BY <2>1, LeastElement
<1>2. x # 0 /\ x \in 1 .. m
  BY <1>1
<1>3. x - 1 \in 0 .. m /\ ~(x <= x - 1)
  BY <1>2
<1>4. x - 1 \in T
  BY <1>1, <1>3
<1> QED
  BY <1>1, <1>2, <1>3, <1>4

\* What a loop of m rounds may leave after each of them; step[<<n, x>>] is what round n makes of x.
Runs(m, X, base, step) ==
  {f \in [0 .. m -> X] : f[0] = base /\ \A n \in 1 .. m : f[n] = step[<<n, f[n - 1]>>]}

\* A loop can be run to its end.
LEMMA Rounds ==
  ASSUME NEW m \in Nat, NEW X, NEW base \in X, NEW step \in [(1 .. m) \X X -> X]
  PROVE  Runs(m, X, base, step) # {}
<1> DEFINE Run(k) == \E f \in [0 .. k -> X] :
                       f[0] = base /\ \A n \in 1 .. k : f[n] = step[<<n, f[n - 1]>>]
           T == {k \in 0 .. m : Run(k)}
<1>1. Run(0)
  <2> DEFINE g == [n \in 0 .. 0 |-> base]
  <2>1. g \in [0 .. 0 -> X] /\ g[0] = base /\ \A n \in 1 .. 0 : g[n] = step[<<n, g[n - 1]>>]
    OBVIOUS
  <2> QED
    BY <2>1
<1>2. ASSUME NEW k \in 1 .. m, Run(k - 1) PROVE Run(k)
  <2>1. PICK f \in [0 .. k - 1 -> X] :
          f[0] = base /\ \A n \in 1 .. k - 1 : f[n] = step[<<n, f[n - 1]>>]
    BY <1>2
  <2> DEFINE g == [n \in 0 .. k |-> IF n = k THEN step[<<k, f[k - 1]>>] ELSE f[n]]
  <2>2. k - 1 \in 0 .. k - 1
    OBVIOUS
  <2>3. g \in [0 .. k -> X]
    BY <2>1, <2>2
  <2>4. g[0] = base
    BY <2>1, <2>2
  <2>5. ASSUME NEW n \in 1 .. k
        PROVE  g[n] = step[<<n, g[n - 1]>>]
    <3>1. CASE n = k
      <4>1. k - 1 \in 0 .. k /\ k - 1 # k
        OBVIOUS
      <4>2. g[k - 1] = f[k - 1] /\ g[k] = step[<<k, f[k - 1]>>]
        BY <4>1
      <4> QED
        BY <3>1, <4>2
    <3>2. CASE n # k
      <4>1. n \in 1 .. k - 1 /\ g[n] = f[n] /\ g[n - 1] = f[n - 1]
        BY <3>2
      <4> QED
        BY <2>1, <4>1
    <3> QED
      BY <3>1, <3>2
  <2> HIDE DEF g
  <2> QED
    BY <2>3, <2>4, <2>5
<1> HIDE DEF Run
<1>3. 0 \in T /\ \A n \in 1 .. m : n - 1 \in T => n \in T
  BY <1>1, <1>2
<1> HIDE DEF T
<1>4. 0 .. m \subseteq T
  BY <1>3, UpTo
<1>5. Run(m)
  BY <1>4 DEF T
<1> QED
  BY <1>5 DEF Run, Runs

\* The sums of a sequence of natural numbers, one after the other.
LEMMA SumsStep ==
  ASSUME NEW q \in Seq(Nat)
  PROVE  /\ Sums(q) \in [0 .. Len(q) -> Nat]
         /\ Sums(q)[0] = 0
         /\ \A n \in 1 .. Len(q) : Sums(q)[n] = Sums(q)[n - 1] + q[n]
<1> DEFINE m == Len(q)
           step == [nx \in (1 .. m) \X Nat |-> nx[2] + q[nx[1]]]
           P(g) == g = [n \in 0 .. m |-> IF n = 0 THEN 0 ELSE g[n - 1] + q[n]]
           s == Sums(q)
<1>1. m \in Nat /\ \A n \in 1 .. m : q[n] \in Nat
  OBVIOUS
<1> HIDE DEF m
<1>2. step \in [(1 .. m) \X Nat -> Nat] /\ \A n \in 1 .. m, x \in Nat : step[<<n, x>>] = x + q[n]
  BY <1>1
<1> HIDE DEF step
<1>3. Runs(m, Nat, 0, step) # {}
  BY <1>1, <1>2, 0 \in Nat, Rounds, Zenon
<1>4. PICK f \in [0 .. m -> Nat] : f[0] = 0 /\ \A n \in 1 .. m : f[n] = step[<<n, f[n - 1]>>]
  BY <1>3 DEF Runs
<1>5. \A n \in 1 .. m : n - 1 \in 0 .. m /\ f[n] = f[n - 1] + q[n]
  <2>1. \A n \in 1 .. m : n - 1 \in 0 .. m /\ f[n - 1] \in Nat
    BY <1>1, <1>4
  <2> QED
    BY <1>2, <1>4, <2>1
<1>6. P(f)
  BY <1>4, <1>5
<1>7. P(s)
  <2> HIDE DEF P
  <2>1. P(CHOOSE g : P(g))
    BY <1>6, Zenon
  <2> QED
    BY <2>1, Zenon DEF Sums, P, m
<1> HIDE DEF s
<1>8. s = [n \in 0 .. m |-> s[n]] /\ s[0] = 0 /\ \A n \in 1 .. m : s[n] = s[n - 1] + q[n]
  <2> DEFINE body == [n \in 0 .. m |-> IF n = 0 THEN 0 ELSE s[n - 1] + q[n]]
  <2>1. body = [n \in 0 .. m |-> body[n]] /\ body[0] = 0
        /\ \A n \in 1 .. m : body[n] = s[n - 1] + q[n]
    BY <1>1
  <2>2. s = body
    BY <1>7
  <2> HIDE DEF body
  <2> QED
    BY <2>1, <2>2
<1>9. 0 .. m \subseteq {n \in 0 .. m : s[n] \in Nat}
  <2> DEFINE T == {n \in 0 .. m : s[n] \in Nat}
  <2>1. 0 \in T
    BY <1>1, <1>8
  <2>2. ASSUME NEW n \in 1 .. m, n - 1 \in T PROVE n \in T
    <3>1. s[n] = s[n - 1] + q[n] /\ s[n - 1] \in Nat /\ q[n] \in Nat
      BY <1>1, <1>8, <2>2
    <3> QED
      BY <3>1
  <2> HIDE DEF T
  <2>3. 0 .. m \subseteq T
    BY <1>1, <2>1, <2>2, UpTo
  <2> QED
    BY <2>3 DEF T
<1>10. s \in [0 .. m -> Nat]
  BY <1>8, <1>9
<1> QED
  BY <1>8, <1>10 DEF s, m

\* The sums depend on what is summed so far only.
LEMMA SumsAgree ==
  ASSUME NEW q \in Seq(Nat), NEW r \in Seq(Nat), NEW m \in Nat, m <= Len(q), m <= Len(r),
         \A n \in 1 .. m : q[n] = r[n]
  PROVE  \A n \in 0 .. m : Sums(q)[n] = Sums(r)[n]
<1> DEFINE T == {n \in 0 .. m : Sums(q)[n] = Sums(r)[n]}
<1>1. 0 \in T
  BY SumsStep
<1>2. ASSUME NEW n \in 1 .. m, n - 1 \in T PROVE n \in T
  <2>1. n \in 1 .. Len(q) /\ n \in 1 .. Len(r)
    OBVIOUS
  <2>2. Sums(q)[n] = Sums(q)[n - 1] + q[n] /\ Sums(r)[n] = Sums(r)[n - 1] + r[n]
    BY <2>1, SumsStep
  <2> QED
    BY <1>2, <2>2
<1> HIDE DEF T
<1>3. 0 .. m \subseteq T
  BY <1>1, <1>2, UpTo
<1> QED
  BY <1>3 DEF T

\* What is counted up to the sum of a sequence falls to one of its elements.
LEMMA Falls ==
  ASSUME NEW q \in Seq(Nat), NEW a \in 1 .. Sums(q)[Len(q)]
  PROVE  \E c \in 1 .. Len(q) : Sums(q)[c - 1] < a /\ a <= Sums(q)[c]
<1> DEFINE s == Sums(q)
           T == {c \in 1 .. Len(q) : a <= s[c]}
<1>1. Len(q) \in Nat /\ s \in [0 .. Len(q) -> Nat] /\ s[0] = 0 /\ a \in 1 .. s[Len(q)]
  BY SumsStep
<1> HIDE DEF s
<1>2. Len(q) \in T
  <2>1. Len(q) # 0 /\ a <= s[Len(q)]
    BY <1>1
  <2> QED
    BY <1>1, <2>1
<1>3. PICK c \in T : \A d \in T : c <= d
  <2>1. T \subseteq Nat /\ T # {}
    BY <1>2
  <2> HIDE DEF T
  <2> QED
    BY <2>1, LeastElement
<1>4. s[c - 1] < a
  <2>1. CASE c = 1
    BY <1>1, <2>1
  <2>2. CASE c # 1
    <3>1. c - 1 \in 1 .. Len(q) /\ c - 1 \notin T
      BY <1>1, <1>3, <2>2
    <3> QED
      BY <1>1, <3>1
  <2> QED
    BY <2>1, <2>2
<1> QED
  BY <1>3, <1>4 DEF s

\* The sums of natural numbers do not decrease.
LEMMA Grows ==
  ASSUME NEW q \in Seq(Nat), NEW c \in 0 .. Len(q)
  PROVE  Sums(q)[c] <= Sums(q)[Len(q)]
<1> DEFINE s == Sums(q)
           m == Len(q) - c
           T == {i \in 0 .. m : s[c] <= s[c + i]}
<1>1. Len(q) \in Nat /\ c \in Nat /\ m \in Nat /\ c + m = Len(q)
  OBVIOUS
<1>2. /\ s \in [0 .. Len(q) -> Nat]
      /\ \A n \in 1 .. Len(q) : s[n] = s[n - 1] + q[n] /\ q[n] \in Nat
  BY SumsStep
<1> HIDE DEF s, m
<1>3. 0 \in T
  <2>1. c + 0 = c /\ s[c] \in Nat
    BY <1>1, <1>2
  <2> QED
    BY <1>1, <2>1
<1>4. ASSUME NEW i \in 1 .. m, i - 1 \in T PROVE i \in T
  <2>1. c + i \in 1 .. Len(q) /\ c + i - 1 = c + (i - 1) /\ c + (i - 1) \in 0 .. Len(q)
    BY <1>1
  <2>2. PICK j : j = c + i
    OBVIOUS
  <2>3. s[j] = s[j - 1] + q[j] /\ q[j] \in Nat /\ s[j - 1] \in Nat /\ s[c] \in Nat
    <3>1. j \in 1 .. Len(q) /\ j - 1 \in 0 .. Len(q) /\ j \in 0 .. Len(q)
      BY <1>1, <2>1, <2>2
    <3> QED
      BY <1>2, <3>1
  <2>4. s[c] <= s[j - 1]
    BY <1>4, <2>1, <2>2
  <2> QED
    BY <1>1, <2>2, <2>3, <2>4
<1> HIDE DEF T
<1>5. m \in T
  <2>1. 0 .. m \subseteq T
    BY <1>1, <1>3, <1>4, UpTo
  <2> QED
    BY <1>1, <2>1
<1> QED
  BY <1>1, <1>5 DEF T, s

\* The samples of a track, and their offsets and times, one by one.
LEMMA SampleTypes ==
  ASSUME TableTypeOK
  PROVE  /\ \A a \in 1 .. Len(samples) : /\ samples[a].offset \in Nat /\ samples[a].size \in Nat
                                        /\ End(a) = samples[a].offset + samples[a].size
         /\ \A a \in 1 .. Len(written) : written[a].time \in 0 .. MaxTime
<1>1. \A a \in 1 .. Len(samples) : samples[a] \in Sample
  BY Element DEF TableTypeOK
<1>2. \A a \in 1 .. Len(written) : written[a] \in Shot
  BY Element DEF TableTypeOK
<1> QED
  BY <1>1, <1>2 DEF Sample, Shot, End

\* Nothing was added yet.
LEMMA TableInvInit == TableInit => TableInv
<1> SUFFICES ASSUME TableInit PROVE TableInv
  OBVIOUS
<1> USE Constants DEF TableInit
<1>1. TableTypeOK
  <2>1. <<DefaultDuration>> \in Seq(Nat)
    OBVIOUS
  <2> QED
    BY <2>1 DEF TableTypeOK
<1>2. SyncOK
  BY DEF SyncOK, Range
<1>3. TablesAligned /\ SamplesPlaced /\ DurationsOK /\ TimesInOrder
  BY DEF TablesAligned, SamplesPlaced, DurationsOK, TimesInOrder
<1>4. DurationsKeepPace
  <2> DEFINE q == <<DefaultDuration>>
  <2>1. q \in Seq(Nat) /\ Len(q) = 1 /\ 1 \in 1 .. 1 /\ 1 - 1 = 0 /\ q[1] = DefaultDuration
    OBVIOUS
  <2> HIDE DEF q
  <2>2. Sums(q)[1] = DefaultDuration
    BY <2>1, SumsStep
  <2> QED
    BY <2>1, <2>2 DEF DurationsKeepPace, Total, q
<1> QED
  BY <1>1, <1>2, <1>3, <1>4 DEF TableInv

\* A duration goes before the last one, which stays the last.
LEMMA InsertedBeforeLast ==
  ASSUME NEW q \in Seq(Nat), NEW d \in Nat, Len(q) > 0
  PROVE  /\ BeforeLast(q, d) \in Seq(Nat)
         /\ Len(BeforeLast(q, d)) = Len(q) + 1
         /\ BeforeLast(q, d)[Len(q)] = d
         /\ BeforeLast(q, d)[Len(q) + 1] = q[Len(q)]
         /\ \A i \in 1 .. Len(q) - 1 : BeforeLast(q, d)[i] = q[i]
<1> DEFINE n == Len(q)
           before == SubSeq(q, 1, n - 1)
           after == SubSeq(q, n, n)
<1>0. n \in Nat \ {0} /\ \A i \in 1 .. n : q[i] \in Nat
  OBVIOUS
<1> HIDE DEF n
<1>1. before \in Seq(Nat) /\ Len(before) = n - 1
  <2>1. \A i \in 1 .. n - 1 : q[i] \in Nat
    BY <1>0
  <2>2. before \in Seq(Nat) /\ Len(before) = IF 1 <= n - 1 THEN n - 1 - 1 + 1 ELSE 0
    BY <1>0, <2>1, SubSeqProperties
  <2> HIDE DEF before
  <2> QED
    BY <1>0, <2>2
<1>7. \A i \in 1 .. n - 1 : before[i] = q[i]
  BY <1>0, SubSeqProperties
<1>2. after \in Seq(Nat) /\ Len(after) = 1 /\ after[1] = q[n]
  BY <1>0, SubSeqProperties
<1>3. <<d>> \in Seq(Nat) /\ Len(<<d>>) = 1
  OBVIOUS
<1>4. BeforeLast(q, d) = (before \o <<d>>) \o after
  BY DEF BeforeLast, InsertAt, n
<1> HIDE DEF before, after
<1> DEFINE front == before \o <<d>>
<1>5. front \in Seq(Nat) /\ Len(front) = n
  BY <1>0, <1>1, <1>3, ConcatProperties
<1>8. front[n] = d /\ \A i \in 1 .. n - 1 : front[i] = q[i]
  <2>1. Len(before) + Len(<<d>>) = n /\ n - Len(before) = 1 /\ <<d>>[1] = d
    BY <1>0, <1>1, <1>3
  <2>2. \A i \in 1 .. n : front[i] = IF i <= n - 1 THEN before[i] ELSE <<d>>[i - Len(before)]
    BY <1>1, <1>3, <2>1, ConcatProperties
  <2>3. n \in 1 .. n /\ ~(n <= n - 1) /\ \A i \in 1 .. n - 1 : i \in 1 .. n /\ i <= n - 1
    BY <1>0
  <2> HIDE DEF front
  <2> QED
    BY <1>7, <2>1, <2>2, <2>3
<1> HIDE DEF front
<1>6. /\ front \o after \in Seq(Nat) /\ Len(front \o after) = n + 1
      /\ (front \o after)[n + 1] = after[1]
      /\ \A i \in 1 .. n : (front \o after)[i] = front[i]
  <2>1. /\ front \o after \in Seq(Nat) /\ Len(front \o after) = Len(front) + Len(after)
        /\ \A i \in 1 .. Len(front) + Len(after) :
             (front \o after)[i] = IF i <= Len(front) THEN front[i] ELSE after[i - Len(front)]
    BY <1>2, <1>5, ConcatProperties
  <2>2. n + 1 \in 1 .. Len(front) + Len(after) /\ ~(n + 1 <= n) /\ n + 1 - n = 1
    BY <1>0, <1>2, <1>5
  <2>3. (front \o after)[n + 1] = after[n + 1 - n]
    BY <1>5, <2>1, <2>2
  <2>4. \A i \in 1 .. n : i \in 1 .. Len(front) + Len(after) /\ i <= Len(front)
    BY <1>0, <1>2, <1>5
  <2>5. \A i \in 1 .. n : (front \o after)[i] = front[i]
    BY <2>1, <2>4
  <2> QED
    BY <1>2, <1>5, <2>1, <2>2, <2>3, <2>5
<1>9. \A i \in 1 .. n - 1 : i \in 1 .. n
  BY <1>0
<1>10. n \in 1 .. n
  BY <1>0
<1> QED
  BY <1>2, <1>4, <1>6, <1>8, <1>9, <1>10 DEF n, front

\* And adds to the sum of the durations that come after it.
LEMMA SumsInserted ==
  ASSUME NEW q \in Seq(Nat), NEW d \in Nat, Len(q) > 0
  PROVE  /\ \A i \in 0 .. Len(q) - 1 : Sums(BeforeLast(q, d))[i] = Sums(q)[i]
         /\ Sums(BeforeLast(q, d))[Len(q)] = Sums(q)[Len(q) - 1] + d
         /\ Total(BeforeLast(q, d)) = Total(q) + d
<1>1. PICK n, r : n = Len(q) /\ r = BeforeLast(q, d)
  OBVIOUS
<1>2. /\ n \in Nat \ {0} /\ r \in Seq(Nat) /\ Len(r) = n + 1
      /\ r[n] = d /\ r[n + 1] = q[n] /\ q[n] \in Nat
      /\ \A i \in 1 .. n - 1 : r[i] = q[i]
  <2>1. n \in Nat \ {0} /\ q[n] \in Nat
    BY <1>1
  <2>2. /\ BeforeLast(q, d) \in Seq(Nat) /\ Len(BeforeLast(q, d)) = Len(q) + 1
        /\ BeforeLast(q, d)[Len(q)] = d
        /\ BeforeLast(q, d)[Len(q) + 1] = q[Len(q)]
        /\ \A i \in 1 .. Len(q) - 1 : BeforeLast(q, d)[i] = q[i]
    BY InsertedBeforeLast
  <2> QED
    BY <1>1, <2>1, <2>2, Zenon
<1>3. n - 1 \in Nat /\ n - 1 <= Len(q) /\ n - 1 <= Len(r)
  BY <1>1, <1>2
<1>4. \A i \in 0 .. n - 1 : Sums(r)[i] = Sums(q)[i]
  BY <1>2, <1>3, SumsAgree
<1>5. PICK x : x = Sums(q)[n - 1] /\ x \in Nat /\ Sums(r)[n - 1] = x
  <2>1. n - 1 \in 0 .. n - 1 /\ n - 1 \in 0 .. Len(q)
    BY <1>1, <1>2
  <2>2. Sums(q)[n - 1] \in Nat
    BY <2>1, SumsStep
  <2> QED
    BY <1>4, <2>1, <2>2
<1>6. Sums(r)[n] = x + d
  <2>1. n \in 1 .. Len(r)
    BY <1>2
  <2>2. Sums(r)[n] = Sums(r)[n - 1] + r[n]
    BY <1>2, <2>1, SumsStep
  <2> QED
    BY <1>2, <1>5, <2>2
<1>7. Sums(r)[n + 1] = x + d + q[n]
  <2>1. PICK j : j = n + 1
    OBVIOUS
  <2>2. r \in Seq(Nat) /\ j \in 1 .. Len(r) /\ j - 1 = n
    BY <1>2, <2>1
  <2>3. Sums(r)[j] = Sums(r)[j - 1] + r[j]
    BY <2>2, SumsStep
  <2> QED
    BY <1>2, <1>6, <2>1, <2>2, <2>3
<1>8. Sums(q)[n] = x + q[n]
  <2>1. n \in 1 .. Len(q)
    BY <1>1, <1>2
  <2>2. Sums(q)[n] = Sums(q)[n - 1] + q[n]
    BY <2>1, SumsStep
  <2> QED
    BY <1>5, <2>2
<1>9. Total(r) = Total(q) + d
  <2>1. Total(r) = x + d + q[n] /\ Total(q) = x + q[n]
    BY <1>1, <1>2, <1>7, <1>8 DEF Total
  <2> QED
    BY <1>2, <1>5, <2>1
<1> QED
  BY <1>1, <1>4, <1>5, <1>6, <1>9

\* Rounding to the nearest is off by half a unit at most.
LEMMA Rounded ==
  ASSUME NEW x \in Nat, NEW s \in Nat \ {0}
  PROVE  LET q == (x + s \div 2) \div s
         IN  q \in Nat /\ -s <= 2 * (q * s - x) /\ 2 * (q * s - x) <= s
<1> DEFINE h == s \div 2
           q == (x + h) \div s
<1>1. h \in Nat /\ 2 * h <= s /\ s <= 2 * h + 1
  OBVIOUS
<1> HIDE DEF h
<1>2. q \in Nat /\ s * q <= x + h /\ x + h < s * q + s
  BY <1>1
<1> HIDE DEF q
<1>3. q * s \in Int /\ q * s = s * q
  BY <1>2
<1> QED
  BY <1>1, <1>2, <1>3 DEF q, h

\* A difference in ticks is off by half a tick at most.
LEMMA TicksRounded ==
  ASSUME NEW us \in Nat
  PROVE  /\ Ticks(us) \in Nat
         /\ -Second <= 2 * (Ticks(us) * Second - us * TimeScale)
         /\ 2 * (Ticks(us) * Second - us * TimeScale) <= Second
<1>1. us * TimeScale \in Nat /\ Second \in Nat \ {0}
  BY Constants
<1> QED
  BY <1>1, Rounded DEF Ticks

\* addSample() takes a sample that is not older than the one before.
Taken(size, time, sync) ==
  /\ size \in 1 .. MaxSize /\ time \in 0 .. MaxTime /\ sync \in BOOLEAN
  /\ AddSample(size, time, sync)
  /\ ~Refused(time - lastPresentationTimeUs)
  /\ recFileSize' = recFileSize + size
  /\ writes < MaxWrites /\ writes' = writes + 1

\* A gap, be it a refused sample or one of the other track.
Gap ==
  /\ UNCHANGED <<track, written>>
  /\ writes < MaxWrites /\ writes' = writes + 1
  /\ \E size \in 1 .. MaxSize : recFileSize' = recFileSize + size

\* A step takes a sample or leaves a gap.
LEMMA TakenOrGap ==
  ASSUME TableNext
  PROVE  Gap \/ \E size \in 1 .. MaxSize, time \in 0 .. MaxTime, sync \in BOOLEAN :
                  Taken(size, time, sync)
  BY DEF TableNext, WriteSample, WriteOther, AddSample, Gap, Taken

\* A gap changes the size of the file only.
LEMMA GapStep == ASSUME TableInv, Gap PROVE TableInv'
<1> USE Constants DEF Gap, track, TableInv
<1>1. recFileSize \in Nat /\ recFileSize' \in Nat /\ recFileSize <= recFileSize'
  BY DEF TableTypeOK
<1>2. TableTypeOK'
  BY <1>1 DEF TableTypeOK
<1>3. TablesAligned' /\ SyncOK' /\ DurationsOK' /\ TimesInOrder' /\ DurationsKeepPace'
  BY DEF TablesAligned, SyncOK, DurationsOK, TimesInOrder, DurationsKeepPace, Drift
<1>4. SamplesPlaced'
  <2>1. \A a \in 1 .. Len(samples) : End(a) \in Int /\ (End(a))' = End(a)
    BY SampleTypes DEF End
  <2> QED
    BY <1>1, <2>1 DEF SamplesPlaced
<1> QED
  BY <1>2, <1>3, <1>4

\* What addSample() appends to the tables of the track.
Appended(size, time, sync) ==
  /\ samples' \in Seq(Sample) /\ written' \in Seq(Shot)
  /\ Len(samples) \in Nat /\ Len(written) = Len(samples)
  /\ Len(samples') = Len(samples) + 1 /\ Len(written') = Len(written) + 1
  /\ written' # << >>
  /\ samples'[Len(samples) + 1].offset = recFileSize /\ samples'[Len(samples) + 1].size = size
  /\ written'[Len(written) + 1].offset = recFileSize /\ written'[Len(written) + 1].time = time
  /\ written'[Len(written) + 1].sync = sync
  /\ \A a \in 1 .. Len(samples) : samples'[a] = samples[a]
  /\ \A a \in 1 .. Len(written) : written'[a] = written[a]

LEMMA TakenTables ==
  ASSUME TableTypeOK, TablesAligned, NEW size, NEW time, NEW sync, Taken(size, time, sync)
  PROVE  Appended(size, time, sync)
<1> USE Constants DEF TableTypeOK
<1> DEFINE sample == [offset |-> recFileSize, size |-> size]
           shot == [offset |-> recFileSize, time |-> time, sync |-> sync]
<1>1. sample \in Sample
  BY DEF Taken, Sample
<1>2. shot \in Shot
  BY DEF Taken, Shot
<1>3. samples' = Append(samples, sample) /\ written' = Append(written, shot)
  BY DEF Taken, AddSample
<1> HIDE DEF sample, shot
<1>4. /\ samples' \in Seq(Sample) /\ Len(samples') = Len(samples) + 1 /\ Len(samples) \in Nat
      /\ samples'[Len(samples) + 1] = sample
      /\ \A a \in 1 .. Len(samples) : samples'[a] = samples[a]
  BY <1>1, <1>3, AppendLast
<1>5. /\ written' \in Seq(Shot) /\ Len(written') = Len(written) + 1 /\ written' # << >>
      /\ written'[Len(written) + 1] = shot
      /\ \A a \in 1 .. Len(written) : written'[a] = written[a]
  <2>1. written \in Seq(Shot) /\ written' = Append(written, shot) /\ shot \in Shot
    BY <1>2, <1>3
  <2>2. /\ Append(written, shot) \in Seq(Shot) /\ Append(written, shot) # << >>
        /\ Len(Append(written, shot)) = Len(written) + 1
        /\ Append(written, shot)[Len(written) + 1] = shot
    BY <2>1, AppendLast
  <2>3. \A a \in 1 .. Len(written) : Append(written, shot)[a] = written[a]
    BY <2>1, AppendLast
  <2> QED
    BY <2>1, <2>2, <2>3
<1> QED
  BY <1>4, <1>5 DEF Appended, TablesAligned, sample, shot

\* The types are kept: the times do not decrease, so a difference in ticks is a natural number.
LEMMA TakenTypes ==
  ASSUME TableInv, NEW size, NEW time, NEW sync, Taken(size, time, sync)
  PROVE  TableTypeOK' /\ DurationsOK' /\ TablesAligned'
<1> USE Constants DEF TableInv
<1>0. Appended(size, time, sync)
  BY TakenTables
<1> DEFINE delta == time - lastPresentationTimeUs
<1>1. delta \in Nat
  BY DEF Taken, Refused, TableTypeOK
<1>2. Ticks(delta) \in Nat
  BY <1>1, TicksRounded
<1>3. /\ samples' \in Seq(Sample) /\ written' \in Seq(Shot)
      /\ Len(written') = Len(written) + 1 /\ Len(written) \in Nat /\ written' # << >>
  BY <1>0 DEF Appended
<1>4. /\ sampleDurations' \in Seq(Nat)
      /\ Len(sampleDurations') = Len(written')
  <2>1. CASE first
    <3>1. sampleDurations' = sampleDurations
      BY <2>1 DEF Taken, AddSample
    <3>2. Len(sampleDurations) = 1 /\ Len(written) = 0
      BY <2>1 DEF DurationsOK
    <3>3. Len(written') = 1
      BY <1>3, <3>2
    <3> QED
      BY <3>1, <3>2, <3>3 DEF DurationsOK, TableTypeOK
  <2>2. CASE ~first
    <3>1. sampleDurations' = BeforeLast(sampleDurations, Ticks(delta))
      BY <2>2 DEF Taken, AddSample
    <3>2. Len(sampleDurations) = Len(written) /\ Len(sampleDurations) > 0
      BY <2>2 DEF DurationsOK, TableTypeOK
    <3> QED
      BY <1>2, <1>3, <3>1, <3>2, InsertedBeforeLast DEF DurationsOK, TableTypeOK
  <2> QED
    BY <2>1, <2>2 DEF TableTypeOK
<1>5. syncSamples' \in Seq(Nat)
  <2>1. syncSamples' = Append(syncSamples, Len(samples) + 1) \/ syncSamples' = syncSamples
    BY DEF Taken, AddSample, SyncNumber
  <2>2. Len(samples) + 1 \in Nat /\ syncSamples \in Seq(Nat)
    BY DEF TableTypeOK
  <2> QED
    BY <2>1, <2>2, AppendLast
<1>6. duration' \in Nat /\ recFileSize' \in Nat /\ writes' \in 0 .. MaxWrites
  <2>1. duration' = duration + (IF first THEN 0 ELSE Ticks(delta)) /\ duration \in Nat
    BY DEF Taken, AddSample, TableTypeOK
  <2>2. recFileSize' = recFileSize + size /\ recFileSize \in Nat /\ size \in Nat
    BY DEF Taken, TableTypeOK
  <2>3. writes' = writes + 1 /\ writes \in 0 .. MaxWrites /\ writes < MaxWrites
    BY DEF Taken, TableTypeOK
  <2> QED
    BY <1>2, <2>1, <2>2, <2>3
<1>7. isAudio' \in BOOLEAN /\ first' = FALSE /\ lastPresentationTimeUs' \in 0 .. MaxTime
  BY DEF Taken, AddSample, TableTypeOK
<1>8. TableTypeOK'
  BY <1>3, <1>4, <1>5, <1>6, <1>7 DEF TableTypeOK
<1>9. DurationsOK'
  BY <1>3, <1>4, <1>7 DEF DurationsOK
<1>10. TablesAligned'
  <2>1. \A a \in 1 .. Len(written) : samples[a].offset = written[a].offset
    BY DEF TablesAligned
  <2>2. \A a \in 1 .. Len(written') : a \in 1 .. Len(written) \/ a = Len(written) + 1
    BY <1>3
  <2>3. \A a \in 1 .. Len(written') : samples'[a].offset = written'[a].offset
    BY <1>0, <2>1, <2>2 DEF Appended
  <2> QED
    BY <1>0, <2>3 DEF Appended, TablesAligned
<1> QED
  BY <1>8, <1>9, <1>10

\* The number of a flagged picture is that of the sample just added.
LEMMA TakenSync ==
  ASSUME TableInv, NEW size, NEW time, NEW sync, Taken(size, time, sync)
  PROVE  SyncOK'
<1> USE DEF TableInv
<1>0. Appended(size, time, sync)
  BY TakenTables
<1> DEFINE n == Len(written)
<1>1. /\ n \in Nat /\ Len(written') = n + 1 /\ Len(samples) = n
      /\ written'[n + 1].sync = sync
      /\ \A k \in 1 .. n : written'[k] = written[k]
  BY <1>0 DEF Appended
<1>2. isAudio' = isAudio /\ isAudio \in BOOLEAN /\ sync \in BOOLEAN
  BY DEF Taken, AddSample, TableTypeOK
<1>3. CASE isAudio
  <2>1. syncSamples' = << >>
    BY <1>3 DEF Taken, AddSample, SyncOK
  <2> QED
    BY <1>2, <1>3, <2>1 DEF SyncOK
<1>4. CASE ~isAudio
  <2>1. Range(syncSamples') = IF sync THEN Range(syncSamples) \cup {n + 1} ELSE Range(syncSamples)
    <3>1. CASE sync
      <4>1. syncSamples' = Append(syncSamples, n + 1) /\ n + 1 \in Nat
        BY <1>1, <1>4, <3>1 DEF Taken, AddSample, SyncNumber
      <4>2. /\ Len(syncSamples') = Len(syncSamples) + 1 /\ Len(syncSamples) \in Nat
            /\ syncSamples'[Len(syncSamples) + 1] = n + 1
            /\ \A i \in 1 .. Len(syncSamples) : syncSamples'[i] = syncSamples[i]
            /\ syncSamples' \in Seq(Nat)
        BY <4>1, AppendLast DEF TableTypeOK
      <4>3. DOMAIN syncSamples' = 1 .. Len(syncSamples) + 1
            /\ DOMAIN syncSamples = 1 .. Len(syncSamples)
        BY <4>2 DEF TableTypeOK
      <4>4. Range(syncSamples') \subseteq Range(syncSamples) \cup {n + 1}
        BY <4>2, <4>3 DEF Range
      <4>5. Range(syncSamples) \cup {n + 1} \subseteq Range(syncSamples')
        BY <4>2, <4>3 DEF Range
      <4> QED
        BY <3>1, <4>4, <4>5
    <3>2. CASE ~sync
      BY <1>2, <1>4, <3>2 DEF Taken, AddSample
    <3> QED
      BY <3>1, <3>2
  <2>2. \A k \in Nat : k \in Range(syncSamples) <=> k \in 1 .. n /\ written[k].sync
    BY <1>4 DEF SyncOK
  <2>3. ASSUME NEW k \in Nat
        PROVE  k \in Range(syncSamples') <=> k \in 1 .. Len(written') /\ written'[k].sync
    <3>1. CASE k = n + 1
      <4>1. k \in 1 .. n + 1 /\ k \notin 1 .. n
        BY <1>1, <3>1
      <4>2. k \notin Range(syncSamples)
        BY <2>2, <4>1
      <4> QED
        BY <1>1, <1>2, <2>1, <3>1, <4>1, <4>2
    <3>2. CASE k # n + 1
      <4>1. k \in 1 .. n + 1 <=> k \in 1 .. n
        BY <1>1, <3>2
      <4>2. k \in Range(syncSamples') <=> k \in Range(syncSamples)
        BY <2>1, <3>2
      <4> QED
        BY <1>1, <2>2, <4>1, <4>2
    <3> QED
      BY <3>1, <3>2
  <2> QED
    BY <1>2, <1>4, <2>3 DEF SyncOK
<1> QED
  BY <1>3, <1>4

\* The bytes of a sample lie after those of all others, at the end of the file.
LEMMA TakenPlaced ==
  ASSUME TableInv, NEW size, NEW time, NEW sync, Taken(size, time, sync)
  PROVE  SamplesPlaced'
<1> USE Constants DEF TableInv
<1>0. Appended(size, time, sync)
  BY TakenTables
<1> DEFINE n == Len(samples)
<1>1. /\ n \in Nat /\ Len(samples') = n + 1 /\ samples' \in Seq(Sample)
      /\ samples'[n + 1].offset = recFileSize /\ samples'[n + 1].size = size
      /\ \A a \in 1 .. n : samples'[a] = samples[a]
  BY <1>0 DEF Appended
<1>2. size \in Nat \ {0} /\ recFileSize \in Nat /\ recFileSize' = recFileSize + size
  BY DEF Taken, TableTypeOK
<1>3. \A a \in 1 .. n : samples[a].offset \in Nat /\ samples[a].size \in Nat
  BY SampleTypes
<1>4. \A a \in 1 .. n : (End(a))' = End(a) /\ End(a) \in Nat /\ End(a) <= recFileSize
  BY <1>1, <1>3 DEF End, SamplesPlaced
<1>5. samples'[n + 1].offset + samples'[n + 1].size = recFileSize'
  BY <1>1, <1>2
<1>6. ASSUME NEW a \in 1 .. n + 1
      PROVE  /\ (End(a))' <= recFileSize'
             /\ \A b \in 1 .. n + 1 : a < b => (End(a))' <= samples'[b].offset
  <2>1. CASE a = n + 1
    <3>1. (End(a))' = recFileSize'
      BY <1>5, <2>1 DEF End
    <3>2. recFileSize' \in Nat
      BY <1>2
    <3>3. \A b \in 1 .. n + 1 : ~(a < b)
      BY <1>1, <2>1
    <3> QED
      BY <3>1, <3>2, <3>3
  <2>2. CASE a \in 1 .. n
    <3>1. (End(a))' = End(a) /\ End(a) \in Nat /\ End(a) <= recFileSize
      BY <1>4, <2>2
    <3>2. \A b \in 1 .. n : a < b => End(a) <= samples'[b].offset
      BY <1>1, <2>2 DEF SamplesPlaced
    <3>3. End(a) <= samples'[n + 1].offset
      BY <1>1, <3>1
    <3> QED
      BY <1>1, <1>2, <3>1, <3>2, <3>3
  <2> QED
    BY <1>1, <2>1, <2>2
<1> QED
  BY <1>1, <1>6 DEF SamplesPlaced

\* One more difference adds its own rounding to the drift.
LEMMA DriftGrows ==
  ASSUME NEW s \in Nat, NEW m \in Nat, NEW n \in Nat, NEW d \in Int, NEW t \in Nat,
         NEW f \in Int, NEW l \in Int, NEW now \in Int,
         -s <= 2 * (t * s - (now - l) * m), 2 * (t * s - (now - l) * m) <= s,
         -((n - 1) * s) <= 2 * (d * s - (l - f) * m), 2 * (d * s - (l - f) * m) <= (n - 1) * s
  PROVE  /\ -(n * s) <= 2 * ((d + t) * s - (now - f) * m)
         /\ 2 * ((d + t) * s - (now - f) * m) <= n * s
<1>1. (d + t) * s = d * s + t * s /\ (n - 1) * s = n * s - s
  OBVIOUS
<1>2. (now - f) * m = (now - l) * m + (l - f) * m
  OBVIOUS
<1>3. {t * s, d * s, n * s, (now - l) * m, (l - f) * m} \subseteq Int
  OBVIOUS
<1> QED
  BY <1>1, <1>2, <1>3

\* The last sample is the latest, and the duration grows by the difference in ticks.
LEMMA TakenTimes ==
  ASSUME TableInv, NEW size, NEW time, NEW sync, Taken(size, time, sync)
  PROVE  TimesInOrder'
<1> USE Constants DEF TableInv
<1>0. Appended(size, time, sync)
  BY TakenTables
<1> DEFINE n == Len(written)
           delta == time - lastPresentationTimeUs
<1>1. /\ n \in Nat /\ Len(written') = n + 1 /\ written' # << >>
      /\ written'[n + 1].time = time
      /\ \A a \in 1 .. n : written'[a] = written[a]
  BY <1>0 DEF Appended
<1>2. \A a \in 1 .. n : written[a].time \in 0 .. MaxTime
  BY SampleTypes
<1>3. delta \in Nat /\ time \in 0 .. MaxTime /\ lastPresentationTimeUs \in 0 .. MaxTime
  BY DEF Taken, Refused, TableTypeOK
<1>4. lastPresentationTimeUs' = time
  BY DEF Taken, AddSample
<1>5. \A a \in 1 .. n : written[a].time <= time
  <2>1. ASSUME NEW a \in 1 .. n PROVE written[a].time <= time
    <3>1. n \in 1 .. n /\ a <= n /\ written # << >>
      BY <1>1, <2>1 DEF TableTypeOK
    <3>2. written[a].time <= written[n].time /\ lastPresentationTimeUs = written[n].time
      BY <3>1 DEF TimesInOrder
    <3> QED
      BY <1>2, <1>3, <3>1, <3>2
  <2> QED
    BY <2>1
<1>6. TimesInOrder'
  <2>1. ASSUME NEW a \in 1 .. n + 1, NEW b \in 1 .. n + 1, a <= b
        PROVE  written'[a].time <= written'[b].time
    <3>1. CASE b = n + 1 /\ a = n + 1
      BY <1>1, <1>3, <3>1
    <3>2. CASE b = n + 1 /\ a \in 1 .. n
      BY <1>1, <1>5, <3>2
    <3>3. CASE b \in 1 .. n /\ a \in 1 .. n
      BY <1>1, <2>1, <3>3 DEF TimesInOrder
    <3> QED
      BY <1>1, <2>1, <3>1, <3>2, <3>3
  <2> QED
    BY <1>1, <1>4, <2>1 DEF TimesInOrder
<1> QED
  BY <1>6

\* What is off up to the new sample is what was off up to the last one, and one more difference.
LEMMA TakenPace ==
  ASSUME TableInv, NEW size, NEW time, NEW sync, Taken(size, time, sync)
  PROVE  DurationsKeepPace'
<1> USE Constants DEF TableInv
<1>1. PICK n, q, r, delta :
        n = Len(written) /\ q = sampleDurations /\ r = sampleDurations'
        /\ delta = time - lastPresentationTimeUs
  OBVIOUS
<1>2. /\ n \in Nat /\ Len(written') = n + 1
      /\ written'[n + 1].time = time
      /\ \A a \in 1 .. n : written'[a] = written[a]
  BY <1>1, TakenTables DEF Appended
<1>3. /\ \A a \in 1 .. n : written[a].time \in Nat
      /\ delta \in Nat /\ time \in Nat /\ q \in Seq(Nat) /\ duration \in Nat
  BY <1>1, SampleTypes DEF Taken, Refused, TableTypeOK
<1>4. /\ r = IF first THEN q ELSE BeforeLast(q, Ticks(delta))
      /\ duration' = duration + (IF first THEN 0 ELSE Ticks(delta))
  BY <1>1 DEF Taken, AddSample
<1>5. /\ Total(q) = duration
      /\ \A a \in 1 .. n : -((a - 1) * Second) <= Drift(a) /\ Drift(a) <= (a - 1) * Second
  BY <1>1 DEF DurationsKeepPace
<1> DEFINE new(a) == 2 * (Sums(r)[a - 1] * Second
                          - (written'[a].time - written'[1].time) * TimeScale)
<1> SUFFICES /\ Total(r) = duration'
             /\ \A a \in 1 .. n + 1 : -((a - 1) * Second) <= new(a) /\ new(a) <= (a - 1) * Second
  BY <1>1, <1>2 DEF DurationsKeepPace, Drift
<1>6. CASE first
  <2>1. n = 0 /\ Len(q) = 1 /\ r = q /\ duration' = duration
    BY <1>1, <1>3, <1>4, <1>6 DEF DurationsOK, TableTypeOK
  <2>2. written'[1].time = time /\ Sums(r)[0] = 0 /\ 0 + 1 = 1 /\ 1 - 1 = 0
    BY <1>2, <1>3, <2>1, SumsStep
  <2>3. new(1) = 0
    BY <1>3, <2>2
  <2> HIDE DEF new
  <2> QED
    BY <1>5, <2>1, <2>2, <2>3
<1>7. CASE ~first
  <2>1. n \in Nat \ {0} /\ 1 \in 1 .. n /\ n \in 1 .. n /\ Len(q) = n /\ Len(q) > 0
    BY <1>1, <1>2, <1>7 DEF DurationsOK, TableTypeOK
  <2>2. PICK t : t = Ticks(delta) /\ t \in Nat
               /\ -Second <= 2 * (t * Second - delta * TimeScale)
               /\ 2 * (t * Second - delta * TimeScale) <= Second
    BY <1>3, TicksRounded
  <2>3. r = BeforeLast(q, t) /\ duration' = duration + t
    BY <1>4, <1>7, <2>2
  <2>4. /\ \A i \in 0 .. n - 1 : Sums(r)[i] = Sums(q)[i]
        /\ Sums(r)[n] = Sums(q)[n - 1] + t
        /\ Total(r) = Total(q) + t
    BY <1>3, <2>1, <2>2, <2>3, SumsInserted
  <2>5. ASSUME NEW a \in 1 .. n PROVE new(a) = Drift(a)
    <3>1. a - 1 \in 0 .. n - 1
      BY <2>1
    <3> QED
      BY <1>1, <1>2, <2>1, <2>4, <3>1 DEF Drift
  <2>6. -(n * Second) <= new(n + 1) /\ new(n + 1) <= n * Second
    <3>1. PICK d, l, f : d = Sums(q)[n - 1] /\ l = written[n].time /\ f = written[1].time
      OBVIOUS
    <3>2. d \in Int
      <4>1. n - 1 \in 0 .. Len(q)
        BY <2>1
      <4> QED
        BY <1>3, <3>1, <4>1, SumsStep
    <3>3. l \in Int /\ f \in Int /\ time \in Int /\ Second \in Nat /\ TimeScale \in Nat
      BY <1>3, <2>1, <3>1
    <3>4. delta = time - l
      BY <1>1, <2>1, <3>1 DEF TimesInOrder, TableTypeOK
    <3>5. Drift(n) = 2 * (d * Second - (l - f) * TimeScale)
      BY <1>1, <3>1 DEF Drift
    <3>6. -((n - 1) * Second) <= Drift(n) /\ Drift(n) <= (n - 1) * Second
      BY <1>5, <2>1
    <3>7. /\ -(n * Second) <= 2 * ((d + t) * Second - (time - f) * TimeScale)
          /\ 2 * ((d + t) * Second - (time - f) * TimeScale) <= n * Second
      <4>1. /\ -Second <= 2 * (t * Second - (time - l) * TimeScale)
            /\ 2 * (t * Second - (time - l) * TimeScale) <= Second
        BY <2>2, <3>4
      <4>2. /\ -((n - 1) * Second) <= 2 * (d * Second - (l - f) * TimeScale)
            /\ 2 * (d * Second - (l - f) * TimeScale) <= (n - 1) * Second
        BY <3>5, <3>6
      <4> QED
        BY <1>2, <2>2, <3>2, <3>3, <4>1, <4>2, DriftGrows
    <3>8. new(n + 1) = 2 * ((d + t) * Second - (time - f) * TimeScale)
      <4>1. n + 1 - 1 = n /\ written'[1].time = f /\ Sums(r)[n] = d + t
        BY <1>2, <2>1, <2>4, <3>1
      <4> QED
        BY <1>2, <4>1
    <3> QED
      BY <3>7, <3>8
  <2> HIDE DEF new
  <2>7. \A a \in 1 .. n + 1 : -((a - 1) * Second) <= new(a) /\ new(a) <= (a - 1) * Second
    <3> SUFFICES ASSUME NEW a \in 1 .. n + 1
                 PROVE  -((a - 1) * Second) <= new(a) /\ new(a) <= (a - 1) * Second
      OBVIOUS
    <3>1. CASE a = n + 1
      <4>1. a - 1 = n
        BY <2>1, <3>1
      <4> QED
        BY <2>6, <3>1, <4>1
    <3>2. CASE a \in 1 .. n
      BY <1>5, <2>5, <3>2
    <3> QED
      BY <2>1, <3>1, <3>2
  <2>8. Total(r) = duration'
    BY <1>5, <2>3, <2>4
  <2> QED
    BY <2>7, <2>8
<1> QED
  BY <1>6, <1>7 DEF TableTypeOK

\* The invariant holds of every reachable state.
LEMMA TableInductive == TableSpec => []TableInv
<1>1. TableInv /\ [TableNext]_tableVars => TableInv'
  <2> SUFFICES ASSUME TableInv, [TableNext]_tableVars PROVE TableInv'
    OBVIOUS
  <2>1. CASE Gap
    BY <2>1, GapStep
  <2>2. ASSUME NEW size, NEW time, NEW sync, Taken(size, time, sync) PROVE TableInv'
    BY <2>2, TakenTypes, TakenSync, TakenPlaced, TakenTimes, TakenPace DEF TableInv
  <2>3. CASE UNCHANGED tableVars
    BY <2>3 DEF tableVars, track, TableInv, TableTypeOK, TablesAligned, SyncOK, SamplesPlaced, End,
         DurationsOK, TimesInOrder, DurationsKeepPace, Drift
  <2> QED
    BY <2>1, <2>2, <2>3, TakenOrGap
<1> QED
  BY <1>1, TableInvInit, PTL DEF TableSpec

\* Entries of stts.
SttsEntry == [count : Nat, delta : Nat]

\* A round counts one more sample in the last entry of its duration, or begins another entry.
LEMMA SttsRound ==
  ASSUME NEW entries \in Seq(SttsEntry), NEW d \in Nat
  PROVE  LET n == Len(entries)
             next == SttsStep(entries, d)
         IN  /\ next \in Seq(SttsEntry) /\ n \in Nat
             /\ \A e \in 1 .. n : /\ next[e].delta = entries[e].delta
                                  /\ e # n => next[e].count = entries[e].count
             /\ \/ /\ n # 0 /\ Len(next) = n /\ entries[n].delta = d
                   /\ next[n].count = entries[n].count + 1
                \/ /\ Len(next) = n + 1 /\ next[n + 1].count = 1 /\ next[n + 1].delta = d
                   /\ \A e \in 1 .. n : next[e].count = entries[e].count
<1> DEFINE n == Len(entries)
           next == SttsStep(entries, d)
<1>1. n \in Nat /\ \A e \in 1 .. n : entries[e] \in SttsEntry
  BY Element
<1>2. CASE entries # << >> /\ entries[n].delta = d
  <2>1. n \in 1 .. n /\ Last(entries) = entries[n]
    BY <1>1, <1>2 DEF Last
  <2>2. next = [entries EXCEPT ![n].count = @ + 1]
    BY <1>2, <2>1 DEF SttsStep
  <2>3. [entries[n] EXCEPT !.count = @ + 1] \in SttsEntry
    BY <1>1, <2>1 DEF SttsEntry
  <2>4. next = [entries EXCEPT ![n] = [entries[n] EXCEPT !.count = @ + 1]]
    BY <2>2
  <2>5. next \in Seq(SttsEntry) /\ Len(next) = n
    BY <2>1, <2>3, <2>4, ExceptSeq
  <2>6. /\ next[n] = [entries[n] EXCEPT !.count = @ + 1]
        /\ \A e \in 1 .. n : e # n => next[e] = entries[e]
    BY <2>1, <2>4
  <2>7. next[n].count = entries[n].count + 1 /\ next[n].delta = entries[n].delta
    BY <1>1, <2>1, <2>6 DEF SttsEntry
  <2>8. \A e \in 1 .. n : next[e].delta = entries[e].delta
    BY <2>6, <2>7
  <2> HIDE DEF next
  <2> QED
    BY <1>1, <1>2, <2>1, <2>5, <2>6, <2>7, <2>8 DEF next
<1>3. CASE ~(entries # << >> /\ entries[n].delta = d)
  <2> DEFINE entry == [count |-> 1, delta |-> d]
  <2>1. entry \in SttsEntry
    BY DEF SttsEntry
  <2>2. next = Append(entries, entry)
    BY <1>3 DEF SttsStep, Last
  <2>3. entry.count = 1 /\ entry.delta = d
    OBVIOUS
  <2> HIDE DEF entry
  <2> QED
    BY <1>1, <2>1, <2>2, <2>3, AppendLast
<1> QED
  BY <1>2, <1>3

\* The rounds of createStts().
LEMMA SttsRounds ==
  ASSUME TableTypeOK
  PROVE  /\ SttsAfter[0] = << >>
         /\ \A n \in 0 .. Len(sampleDurations) : SttsAfter[n] \in Seq(SttsEntry)
         /\ \A n \in 1 .. Len(sampleDurations) :
              SttsAfter[n] = SttsStep(SttsAfter[n - 1], sampleDurations[n])
<1> DEFINE m == Len(sampleDurations)
           X == Seq(SttsEntry)
           step == [nx \in (1 .. m) \X X |-> SttsStep(nx[2], sampleDurations[nx[1]])]
           P(g) == g = [n \in 0 .. m |->
                          IF n = 0 THEN << >> ELSE SttsStep(g[n - 1], sampleDurations[n])]
           s == SttsAfter
<1>1. m \in Nat /\ \A n \in 1 .. m : sampleDurations[n] \in Nat
  BY Element DEF TableTypeOK
<1>2. << >> \in X /\ \A n \in 1 .. m, x \in X : SttsStep(x, sampleDurations[n]) \in X
  BY <1>1, SttsRound
<1> HIDE DEF m, X
<1>3. /\ step \in [(1 .. m) \X X -> X]
      /\ \A n \in 1 .. m, x \in X : step[<<n, x>>] = SttsStep(x, sampleDurations[n])
  BY <1>2
<1> HIDE DEF step
<1>4. Runs(m, X, << >>, step) # {}
  BY <1>1, <1>2, <1>3, Rounds, Zenon
<1>5. PICK f \in [0 .. m -> X] : f[0] = << >> /\ \A n \in 1 .. m : f[n] = step[<<n, f[n - 1]>>]
  BY <1>4 DEF Runs
<1>6. P(f)
  <2>1. \A n \in 1 .. m : n - 1 \in 0 .. m /\ f[n - 1] \in X
    BY <1>1, <1>5
  <2>2. \A n \in 1 .. m : f[n] = SttsStep(f[n - 1], sampleDurations[n])
    BY <1>3, <1>5, <2>1
  <2> QED
    BY <1>5, <2>2
<1>7. P(s)
  <2> HIDE DEF P
  <2>1. P(CHOOSE g : P(g))
    BY <1>6, Zenon
  <2> QED
    BY <2>1, Zenon DEF SttsAfter, P, m
<1> HIDE DEF s
<1>8. s[0] = << >> /\ \A n \in 1 .. m : s[n] = SttsStep(s[n - 1], sampleDurations[n])
  <2> DEFINE body == [n \in 0 .. m |->
                        IF n = 0 THEN << >> ELSE SttsStep(s[n - 1], sampleDurations[n])]
  <2>1. body[0] = << >> /\ \A n \in 1 .. m : body[n] = SttsStep(s[n - 1], sampleDurations[n])
    BY <1>1
  <2>2. s = body
    BY <1>7
  <2> HIDE DEF body
  <2> QED
    BY <2>1, <2>2
<1>9. \A n \in 0 .. m : s[n] \in X
  <2> DEFINE T == {n \in 0 .. m : s[n] \in X}
  <2>1. 0 \in T
    BY <1>1, <1>2, <1>8
  <2>2. ASSUME NEW n \in 1 .. m, n - 1 \in T PROVE n \in T
    BY <1>2, <1>8, <2>2
  <2> HIDE DEF T
  <2>3. 0 .. m \subseteq T
    BY <1>1, <2>1, <2>2, UpTo
  <2> QED
    BY <2>3 DEF T
<1> QED
  BY <1>8, <1>9 DEF s, m, X

\* stts after i rounds: it counts i samples, and each has the duration of the entry it falls to.
SttsCounts(entries, i) ==
  /\ Counted(entries)[Len(entries)] = i
  /\ \A e \in 1 .. Len(entries) : \A a \in 1 .. Len(sampleDurations) :
       Counted(entries)[e - 1] < a /\ a <= Counted(entries)[e]
         => sampleDurations[a] = entries[e].delta

\* The counts of a table, as a sequence of their own.
LEMMA Counts ==
  ASSUME NEW entries \in Seq(SttsEntry)
  PROVE  LET q == [e \in DOMAIN entries |-> entries[e].count]
         IN  /\ q \in Seq(Nat) /\ Len(q) = Len(entries) /\ Counted(entries) = Sums(q)
             /\ \A e \in 1 .. Len(entries) : q[e] = entries[e].count
<1> DEFINE n == Len(entries)
           q == [e \in DOMAIN entries |-> entries[e].count]
<1>1. n \in Nat /\ DOMAIN entries = 1 .. n /\ \A e \in 1 .. n : entries[e] \in SttsEntry
  BY Element
<1>2. q = [e \in 1 .. n |-> entries[e].count]
  BY <1>1
<1>3. \A e \in 1 .. n : q[e] = entries[e].count /\ q[e] \in Nat
  BY <1>1, <1>2 DEF SttsEntry
<1>4. Counted(entries) = Sums(q)
  BY DEF Counted
<1>5. q \in [1 .. n -> Nat]
  BY <1>2, <1>3
<1> HIDE DEF q
<1>6. q \in Seq(Nat) /\ Len(q) = n
  BY <1>1, <1>5
<1> QED
  BY <1>3, <1>4, <1>6 DEF q

\* The sums of the counts.
LEMMA CountedStep ==
  ASSUME NEW entries \in Seq(SttsEntry)
  PROVE  /\ Counted(entries) \in [0 .. Len(entries) -> Nat]
         /\ Counted(entries)[0] = 0
         /\ \A e \in 1 .. Len(entries) :
              Counted(entries)[e] = Counted(entries)[e - 1] + entries[e].count
<1> DEFINE q == [e \in DOMAIN entries |-> entries[e].count]
<1>1. /\ q \in Seq(Nat) /\ Len(q) = Len(entries) /\ Counted(entries) = Sums(q)
      /\ \A e \in 1 .. Len(entries) : q[e] = entries[e].count
  BY Counts
<1> HIDE DEF q
<1> QED
  BY <1>1, SumsStep

\* Tables whose first counts are the same count the same.
LEMMA CountedAgree ==
  ASSUME NEW left \in Seq(SttsEntry), NEW right \in Seq(SttsEntry), NEW m \in Nat,
         m <= Len(left), m <= Len(right), \A e \in 1 .. m : left[e].count = right[e].count
  PROVE  \A e \in 0 .. m : Counted(left)[e] = Counted(right)[e]
<1> DEFINE q == [e \in DOMAIN left |-> left[e].count]
           r == [e \in DOMAIN right |-> right[e].count]
<1>1. /\ q \in Seq(Nat) /\ Len(q) = Len(left) /\ Counted(left) = Sums(q)
      /\ \A e \in 1 .. Len(left) : q[e] = left[e].count
  BY Counts
<1>2. /\ r \in Seq(Nat) /\ Len(r) = Len(right) /\ Counted(right) = Sums(r)
      /\ \A e \in 1 .. Len(right) : r[e] = right[e].count
  BY Counts
<1> HIDE DEF q, r
<1>3. Len(left) \in Nat /\ Len(right) \in Nat
  OBVIOUS
<1>4. \A e \in 1 .. m : q[e] = r[e]
  BY <1>1, <1>2, <1>3
<1>5. \A e \in 0 .. m : Sums(q)[e] = Sums(r)[e]
  BY <1>1, <1>2, <1>4, SumsAgree
<1> QED
  BY <1>1, <1>2, <1>5

\* A round keeps what stts counts.
LEMMA SttsCountsStep ==
  ASSUME TableTypeOK, NEW entries \in Seq(SttsEntry), NEW i \in 1 .. Len(sampleDurations),
         SttsCounts(entries, i - 1)
  PROVE  SttsCounts(SttsStep(entries, sampleDurations[i]), i)
<1> DEFINE n == Len(entries)
           d == sampleDurations[i]
           next == SttsStep(entries, d)
           old == Counted(entries)
           new == Counted(next)
<1>1. d \in Nat /\ n \in Nat /\ i \in Nat
  BY Element DEF TableTypeOK
<1>2. /\ next \in Seq(SttsEntry)
      /\ \A e \in 1 .. n : /\ next[e].delta = entries[e].delta
                           /\ e # n => next[e].count = entries[e].count
      /\ \/ /\ n # 0 /\ Len(next) = n /\ entries[n].delta = d
            /\ next[n].count = entries[n].count + 1
         \/ /\ Len(next) = n + 1 /\ next[n + 1].count = 1 /\ next[n + 1].delta = d
            /\ \A e \in 1 .. n : next[e].count = entries[e].count
  BY <1>1, SttsRound
<1>3. /\ old \in [0 .. n -> Nat] /\ old[0] = 0
      /\ \A e \in 1 .. n : old[e] = old[e - 1] + entries[e].count
  BY CountedStep
<1> HIDE DEF next
<1>4. /\ new \in [0 .. Len(next) -> Nat] /\ new[0] = 0
      /\ \A e \in 1 .. Len(next) : new[e] = new[e - 1] + next[e].count
  BY <1>2, CountedStep
<1>5. /\ old[n] = i - 1
      /\ \A e \in 1 .. n : \A a \in 1 .. Len(sampleDurations) :
           old[e - 1] < a /\ a <= old[e] => sampleDurations[a] = entries[e].delta
  BY DEF SttsCounts
<1>6. CASE n # 0 /\ Len(next) = n /\ entries[n].delta = d /\ next[n].count = entries[n].count + 1
  <2>2. n \in 1 .. n /\ n - 1 \in 0 .. n - 1 /\ n - 1 \in Nat /\ n - 1 <= n
    BY <1>1, <1>6
  <2>1. \A e \in 0 .. n - 1 : new[e] = old[e]
    <3>1. \A e \in 1 .. n - 1 : next[e].count = entries[e].count
      BY <1>1, <1>2
    <3> QED
      BY <1>2, <1>6, <2>2, <3>1, CountedAgree
  <2>3. entries[n] \in SttsEntry
    BY <2>2, Element
  <2>4. new[n] = i
    <3>1. new[n] = new[n - 1] + next[n].count /\ old[n] = old[n - 1] + entries[n].count
      BY <1>3, <1>4, <1>6, <2>2
    <3>2. new[n - 1] = old[n - 1]
      BY <2>1, <2>2
    <3>3. entries[n].count \in Nat
      BY <2>3 DEF SttsEntry
    <3>4. old[n - 1] \in Nat
      <4>1. n - 1 \in 0 .. n
        BY <2>2
      <4> HIDE DEF old
      <4> QED
        BY <1>3, <4>1
    <3>5. old[n] = i - 1 /\ next[n].count = entries[n].count + 1
      BY <1>5, <1>6
    <3> HIDE DEF new, old
    <3> QED
      BY <1>1, <3>1, <3>2, <3>3, <3>4, <3>5
  <2>5. ASSUME NEW e \in 1 .. n, NEW a \in 1 .. Len(sampleDurations), new[e - 1] < a, a <= new[e]
        PROVE  sampleDurations[a] = next[e].delta
    <3>1. next[e].delta = entries[e].delta /\ e - 1 \in 0 .. n - 1 /\ new[e - 1] = old[e - 1]
      BY <1>1, <1>2, <2>1
    <3>2. CASE e # n
      <4>1. new[e] = old[e]
        BY <1>1, <2>1, <3>2
      <4> QED
        BY <1>5, <2>5, <3>1, <4>1
    <3>3. CASE e = n /\ a # i
      <4>1. a <= old[n]
        BY <1>1, <1>5, <2>4, <2>5, <3>3
      <4> QED
        BY <1>5, <2>5, <3>1, <3>3, <4>1
    <3>4. CASE e = n /\ a = i
      BY <1>6, <3>1, <3>4
    <3> QED
      BY <3>2, <3>3, <3>4
  <2> QED
    BY <1>6, <2>4, <2>5 DEF SttsCounts, next
<1>7. CASE /\ Len(next) = n + 1 /\ next[n + 1].count = 1 /\ next[n + 1].delta = d
           /\ \A e \in 1 .. n : next[e].count = entries[e].count
  <2>1. \A e \in 0 .. n : new[e] = old[e]
    <3>1. n <= n /\ n <= Len(next)
      BY <1>1, <1>7
    <3> QED
      BY <1>1, <1>2, <1>7, <3>1, CountedAgree
  <2>2. n + 1 \in 1 .. n + 1 /\ n \in 0 .. n /\ n + 1 - 1 = n
    BY <1>1
  <2>3. new[n + 1] = i
    <3>1. new[n + 1] = new[n + 1 - 1] + 1
      BY <1>4, <1>7, <2>2
    <3>2. new[n] = i - 1
      BY <1>5, <2>1, <2>2
    <3> HIDE DEF new
    <3> QED
      BY <1>1, <2>2, <3>1, <3>2
  <2>4. ASSUME NEW e \in 1 .. n + 1, NEW a \in 1 .. Len(sampleDurations),
               new[e - 1] < a, a <= new[e]
        PROVE  sampleDurations[a] = next[e].delta
    <3>1. CASE e = n + 1
      <4>1. a = i
        BY <1>1, <1>5, <2>1, <2>2, <2>3, <2>4, <3>1
      <4> QED
        BY <1>7, <3>1, <4>1
    <3>2. CASE e \in 1 .. n
      <4>1. new[e] = old[e] /\ new[e - 1] = old[e - 1] /\ next[e].delta = entries[e].delta
        BY <1>1, <1>2, <2>1, <3>2
      <4> QED
        BY <1>5, <2>4, <3>2, <4>1
    <3> QED
      BY <1>1, <3>1, <3>2
  <2> QED
    BY <1>7, <2>3, <2>4 DEF SttsCounts, next
<1> QED
  BY <1>2, <1>6, <1>7

\* A player reads the durations of the track from stts.
LEMMA DurationsRead == ASSUME TableTypeOK PROVE ReadDurations = sampleDurations
<1> DEFINE m == Len(sampleDurations)
           T == {n \in 0 .. m : SttsCounts(SttsAfter[n], n)}
<1>1. m \in Nat /\ sampleDurations = [a \in 1 .. m |-> sampleDurations[a]]
  BY DEF TableTypeOK
<1>2. 0 \in T
  <2>1. SttsAfter[0] = << >> /\ << >> \in Seq(SttsEntry)
    BY SttsRounds
  <2>2. SttsCounts(<< >>, 0)
    <3>1. Len(<< >>) = 0 /\ Counted(<< >>)[0] = 0
      BY <2>1, CountedStep
    <3> QED
      BY <3>1 DEF SttsCounts
  <2> QED
    BY <1>1, <2>1, <2>2
<1>3. ASSUME NEW n \in 1 .. m, n - 1 \in T PROVE n \in T
  <2>1. SttsAfter[n - 1] \in Seq(SttsEntry) /\ SttsCounts(SttsAfter[n - 1], n - 1)
    BY <1>1, <1>3, SttsRounds
  <2>2. SttsCounts(SttsStep(SttsAfter[n - 1], sampleDurations[n]), n)
    BY <2>1, SttsCountsStep
  <2>3. SttsAfter[n] = SttsStep(SttsAfter[n - 1], sampleDurations[n])
    BY SttsRounds
  <2> QED
    BY <2>2, <2>3
<1> HIDE DEF T
<1>4. SttsCounts(Stts, m)
  <2>1. 0 .. m \subseteq T
    BY <1>1, <1>2, <1>3, UpTo
  <2> QED
    BY <1>1, <2>1 DEF T, Stts
<1>5. Stts \in Seq(SttsEntry)
  BY <1>1, SttsRounds DEF Stts
<1>6. ASSUME NEW a \in 1 .. m PROVE DurationIn(Stts, a) = sampleDurations[a]
  <2> DEFINE upTo == Counted(Stts)
             e == CHOOSE e \in DOMAIN Stts : upTo[e - 1] < a /\ a <= upTo[e]
             q == [i \in DOMAIN Stts |-> Stts[i].count]
  <2>1. q \in Seq(Nat) /\ Len(q) = Len(Stts) /\ upTo = Sums(q) /\ DOMAIN Stts = 1 .. Len(Stts)
    BY <1>5, Counts
  <2>2. upTo[Len(Stts)] = m
    BY <1>4 DEF SttsCounts
  <2> HIDE DEF upTo, q
  <2>3. \E i \in DOMAIN Stts : upTo[i - 1] < a /\ a <= upTo[i]
    BY <2>1, <2>2, Falls
  <2>4. e \in DOMAIN Stts /\ upTo[e - 1] < a /\ a <= upTo[e]
    BY <2>3
  <2>5. DurationIn(Stts, a) = Stts[e].delta
    BY DEF DurationIn, upTo
  <2> HIDE DEF e
  <2> QED
    BY <1>4, <2>1, <2>4, <2>5 DEF SttsCounts, upTo
<1>7. Counted(Stts)[Len(Stts)] = m
  BY <1>4 DEF SttsCounts
<1> QED
  BY <1>1, <1>6, <1>7 DEF ReadDurations, Durations

\* Entries of stsc, and what createStsc() knows between two rounds.
StscEntry == [firstChunk : Nat, perChunk : Nat]
StscState == [entries : Seq(StscEntry), chunk : Nat, count : Nat, previous : Int]
StscStart == [entries |-> << >>, chunk |-> 1, count |-> 0, previous |-> -1]

\* A round counts a sample; at the end of a chunk, it writes an entry if the number has changed.
LEMMA StscRound ==
  ASSUME NEW acc \in StscState, NEW a
  PROVE  LET n == acc.count + 1
             next == StscStep(acc, a)
         IN  /\ next \in StscState
             /\ ~Closes(a) => /\ next.entries = acc.entries /\ next.chunk = acc.chunk
                              /\ next.count = n /\ next.previous = acc.previous
             /\ Closes(a) =>
                  /\ next.entries = IF acc.previous = n THEN acc.entries
                       ELSE Append(acc.entries, [firstChunk |-> acc.chunk, perChunk |-> n])
                  /\ next.chunk = acc.chunk + 1 /\ next.count = 0 /\ next.previous = n
<1> DEFINE n == acc.count + 1
           entry == [firstChunk |-> acc.chunk, perChunk |-> n]
           entries == IF acc.previous = n THEN acc.entries ELSE Append(acc.entries, entry)
<1>1. /\ acc.entries \in Seq(StscEntry) /\ acc.chunk \in Nat /\ acc.count \in Nat
      /\ acc.previous \in Int /\ n \in Nat
  BY DEF StscState
<1>2. entry \in StscEntry
  BY <1>1 DEF StscEntry
<1> HIDE DEF entry
<1>3. entries \in Seq(StscEntry)
  BY <1>1, <1>2
<1>4. CASE ~Closes(a)
  <2>1. StscStep(acc, a) = [acc EXCEPT !.count = n]
    BY <1>4 DEF StscStep
  <2> QED
    BY <1>1, <1>4, <2>1 DEF StscState
<1>5. CASE Closes(a)
  <2>1. StscStep(acc, a) =
          [entries |-> entries, chunk |-> acc.chunk + 1, count |-> 0, previous |-> n]
    BY <1>5 DEF StscStep, entry
  <2> HIDE DEF entries
  <2>2. /\ StscStep(acc, a).entries = entries /\ StscStep(acc, a).chunk = acc.chunk + 1
        /\ StscStep(acc, a).count = 0 /\ StscStep(acc, a).previous = n
    BY <2>1
  <2>3. StscStep(acc, a) \in StscState
    BY <1>1, <1>3, <2>1 DEF StscState
  <2> QED
    BY <1>5, <2>2, <2>3 DEF entries, entry
<1> QED
  BY <1>4, <1>5

\* The rounds of createStsc().
LEMMA StscRounds ==
  ASSUME TableTypeOK
  PROVE  /\ StscAfter[0] = StscStart
         /\ \A n \in 0 .. Count : StscAfter[n] \in StscState
         /\ \A n \in 1 .. Count : StscAfter[n] = StscStep(StscAfter[n - 1], n)
<1> DEFINE m == Count
           X == StscState
           step == [nx \in (1 .. m) \X X |-> StscStep(nx[2], nx[1])]
           P(g) == g = [n \in 0 .. m |->
                          IF n = 0 THEN StscStart ELSE StscStep(g[n - 1], n)]
           s == StscAfter
<1>1. m \in Nat
  BY DEF TableTypeOK, Count
<1>2. StscStart \in X /\ \A n \in 1 .. m, x \in X : StscStep(x, n) \in X
  <2>1. StscStart \in X
    BY DEF StscState, StscStart
  <2> QED
    BY <2>1, StscRound
<1> HIDE DEF m, X
<1>3. /\ step \in [(1 .. m) \X X -> X]
      /\ \A n \in 1 .. m, x \in X : step[<<n, x>>] = StscStep(x, n)
  BY <1>2
<1> HIDE DEF step
<1>4. Runs(m, X, StscStart, step) # {}
  BY <1>1, <1>2, <1>3, Rounds, Zenon
<1>5. PICK f \in [0 .. m -> X] : f[0] = StscStart /\ \A n \in 1 .. m : f[n] = step[<<n, f[n - 1]>>]
  BY <1>4 DEF Runs
<1>6. P(f)
  <2>1. \A n \in 1 .. m : n - 1 \in 0 .. m /\ f[n - 1] \in X
    BY <1>1, <1>5
  <2>2. \A n \in 1 .. m : f[n] = StscStep(f[n - 1], n)
    BY <1>3, <1>5, <2>1
  <2> QED
    BY <1>5, <2>2
<1>7. P(s)
  <2> HIDE DEF P
  <2>1. P(CHOOSE g : P(g))
    BY <1>6, Zenon
  <2> QED
    BY <2>1, Zenon DEF StscAfter, P, m, StscStart
<1> HIDE DEF s
<1>8. s[0] = StscStart /\ \A n \in 1 .. m : s[n] = StscStep(s[n - 1], n)
  <2> DEFINE body == [n \in 0 .. m |->
                        IF n = 0 THEN StscStart ELSE StscStep(s[n - 1], n)]
  <2>1. body[0] = StscStart /\ \A n \in 1 .. m : body[n] = StscStep(s[n - 1], n)
    BY <1>1
  <2>2. s = body
    BY <1>7
  <2> HIDE DEF body
  <2> QED
    BY <2>1, <2>2
<1>9. \A n \in 0 .. m : s[n] \in X
  <2> DEFINE T == {n \in 0 .. m : s[n] \in X}
  <2>1. 0 \in T
    BY <1>1, <1>2, <1>8
  <2>2. ASSUME NEW n \in 1 .. m, n - 1 \in T PROVE n \in T
    BY <1>2, <1>8, <2>2
  <2> HIDE DEF T
  <2>3. 0 .. m \subseteq T
    BY <1>1, <2>1, <2>2, UpTo
  <2> QED
    BY <2>3 DEF T
<1> QED
  BY <1>8, <1>9 DEF s, m, X

\* The rounds of createStco().
LEMMA StcoRounds ==
  ASSUME TableTypeOK
  PROVE  /\ StcoAfter[0] = << >>
         /\ \A n \in 0 .. Count : StcoAfter[n] \in Seq(Nat)
         /\ \A n \in 1 .. Count : StcoAfter[n] = StcoStep(StcoAfter[n - 1], n)
<1> DEFINE m == Count
           X == Seq(Nat)
           step == [nx \in (1 .. m) \X X |-> StcoStep(nx[2], nx[1])]
           P(g) == g = [n \in 0 .. m |->
                          IF n = 0 THEN << >> ELSE StcoStep(g[n - 1], n)]
           s == StcoAfter
<1>1. m \in Nat
  BY DEF TableTypeOK, Count
<1>2. << >> \in X /\ \A n \in 1 .. m, x \in X : StcoStep(x, n) \in X
  BY SampleTypes DEF Count, StcoStep
<1> HIDE DEF m, X
<1>3. /\ step \in [(1 .. m) \X X -> X]
      /\ \A n \in 1 .. m, x \in X : step[<<n, x>>] = StcoStep(x, n)
  BY <1>2
<1> HIDE DEF step
<1>4. Runs(m, X, << >>, step) # {}
  BY <1>1, <1>2, <1>3, Rounds, Zenon
<1>5. PICK f \in [0 .. m -> X] : f[0] = << >> /\ \A n \in 1 .. m : f[n] = step[<<n, f[n - 1]>>]
  BY <1>4 DEF Runs
<1>6. P(f)
  <2>1. \A n \in 1 .. m : n - 1 \in 0 .. m /\ f[n - 1] \in X
    BY <1>1, <1>5
  <2>2. \A n \in 1 .. m : f[n] = StcoStep(f[n - 1], n)
    BY <1>3, <1>5, <2>1
  <2> QED
    BY <1>5, <2>2
<1>7. P(s)
  <2> HIDE DEF P
  <2>1. P(CHOOSE g : P(g))
    BY <1>6, Zenon
  <2> QED
    BY <2>1, Zenon DEF StcoAfter, P, m
<1> HIDE DEF s
<1>8. s[0] = << >> /\ \A n \in 1 .. m : s[n] = StcoStep(s[n - 1], n)
  <2> DEFINE body == [n \in 0 .. m |->
                        IF n = 0 THEN << >> ELSE StcoStep(s[n - 1], n)]
  <2>1. body[0] = << >> /\ \A n \in 1 .. m : body[n] = StcoStep(s[n - 1], n)
    BY <1>1
  <2>2. s = body
    BY <1>7
  <2> HIDE DEF body
  <2> QED
    BY <2>1, <2>2
<1>9. \A n \in 0 .. m : s[n] \in X
  <2> DEFINE T == {n \in 0 .. m : s[n] \in X}
  <2>1. 0 \in T
    BY <1>1, <1>2, <1>8
  <2>2. ASSUME NEW n \in 1 .. m, n - 1 \in T PROVE n \in T
    BY <1>2, <1>8, <2>2
  <2> HIDE DEF T
  <2>3. 0 .. m \subseteq T
    BY <1>1, <2>1, <2>2, UpTo
  <2> QED
    BY <2>3 DEF T
<1> QED
  BY <1>8, <1>9 DEF s, m, X

\* The entries of stsc that k chunks have made, in the order of their first chunks.
EntriesOK(entries, k) ==
  /\ entries = << >> <=> k = 0
  /\ entries # << >> => entries[1].firstChunk = 1 /\ entries[Len(entries)].firstChunk <= k
  /\ \A d, e \in 1 .. Len(entries) : d < e => entries[d].firstChunk < entries[e].firstChunk

\* Every chunk has its entry.
LEMMA HasEntry ==
  ASSUME NEW entries \in Seq(StscEntry), NEW k \in Nat, EntriesOK(entries, k), NEW c \in 1 .. k
  PROVE  \E e \in 1 .. Len(entries) : InEntry(entries, e, c)
<1> DEFINE n == Len(entries)
           later == {e \in 1 .. n : c < entries[e].firstChunk}
<1>1. n \in Nat \ {0} /\ \A e \in 1 .. n : entries[e].firstChunk \in Nat
  <2>1. entries # << >>
    BY DEF EntriesOK
  <2>2. \A e \in 1 .. n : entries[e] \in StscEntry
    BY Element
  <2> QED
    BY <2>1, <2>2 DEF StscEntry
<1>2. CASE later = {}
  <2>1. n \in 1 .. n /\ ~(c < entries[n].firstChunk)
    BY <1>1, <1>2
  <2>2. InEntry(entries, n, c)
    BY <1>1, <2>1 DEF InEntry
  <2> QED
    BY <2>1, <2>2
<1>3. CASE later # {}
  <2>1. PICK e \in later : \A d \in later : e <= d
    <3>1. later \subseteq Nat
      BY <1>1
    <3> HIDE DEF later
    <3> QED
      BY <1>3, <3>1, LeastElement
  <2>2. e # 1
    <3>1. entries[1].firstChunk = 1
      BY <1>1 DEF EntriesOK
    <3> QED
      BY <2>1, <3>1
  <2>3. e - 1 \in 1 .. n /\ e - 1 \notin later /\ e - 1 + 1 = e /\ c < entries[e].firstChunk
    BY <1>1, <2>1, <2>2
  <2>4. entries[e - 1].firstChunk <= c
    BY <1>1, <2>3
  <2>5. InEntry(entries, e - 1, c)
    BY <2>3, <2>4 DEF InEntry
  <2> QED
    BY <2>3, <2>5
<1> QED
  BY <1>2, <1>3

\* And one only, so a player finds the number of its samples there.
LEMMA PerChunkIs ==
  ASSUME NEW entries \in Seq(StscEntry), NEW k \in Nat, EntriesOK(entries, k), NEW c \in 1 .. k,
         NEW e \in 1 .. Len(entries), InEntry(entries, e, c)
  PROVE  PerChunk(entries, c) = entries[e].perChunk
<1> DEFINE n == Len(entries)
<1>1. n \in Nat /\ DOMAIN entries = 1 .. n /\ \A i \in 1 .. n : entries[i].firstChunk \in Nat
  <2>1. \A i \in 1 .. n : entries[i] \in StscEntry
    BY Element
  <2> QED
    BY <2>1 DEF StscEntry
<1>2. ASSUME NEW i \in 1 .. n, NEW j \in 1 .. n, i < j,
             InEntry(entries, i, c), InEntry(entries, j, c)
      PROVE  FALSE
  <2>0. n \in Nat /\ i < j
    BY <1>1, <1>2
  <2> HIDE DEF n
  <2>1. i # n /\ i + 1 \in 1 .. n
    BY <2>0
  <2>4. c < entries[i + 1].firstChunk
    BY <1>2, <2>1 DEF InEntry, n
  <2>2. entries[i + 1].firstChunk <= entries[j].firstChunk
    <3>1. CASE i + 1 = j
      <4>1. entries[i + 1].firstChunk \in Nat
        BY <1>1, <2>1
      <4> QED
        BY <3>1, <4>1
    <3>2. CASE i + 1 < j
      <4>1. entries[i + 1].firstChunk < entries[j].firstChunk
        BY <2>1, <3>2 DEF EntriesOK, n
      <4> QED
        BY <1>1, <2>1, <4>1
    <3> QED
      BY <2>0, <2>1, <3>1, <3>2
  <2>3. entries[j].firstChunk <= c
    BY <1>2 DEF InEntry
  <2> QED
    <3>1. c \in Int
      OBVIOUS
    <3>2. entries[i + 1].firstChunk \in Nat
      BY <1>1, <2>1
    <3>3. entries[j].firstChunk \in Nat
      BY <1>1
    <3> QED
      BY <2>2, <2>3, <2>4, <3>1, <3>2, <3>3
<1>3. PICK i \in 1 .. n : i = (CHOOSE d \in DOMAIN entries : InEntry(entries, d, c))
                          /\ InEntry(entries, i, c)
  BY <1>1
<1>4. i = e
  BY <1>1, <1>2, <1>3
<1> QED
  BY <1>3, <1>4 DEF PerChunk

\* The numbers of samples of k chunks, as a sequence, and their sums.
LEMMA PerChunks ==
  ASSUME NEW entries \in Seq(StscEntry), NEW k \in Nat, EntriesOK(entries, k)
  PROVE  LET q == [c \in 1 .. k |-> PerChunk(entries, c)]
             upTo == UpToChunk(entries, k)
         IN  /\ q \in Seq(Nat) /\ Len(q) = k /\ upTo = Sums(q)
             /\ upTo \in [0 .. k -> Nat] /\ upTo[0] = 0
             /\ \A c \in 1 .. k : upTo[c] = upTo[c - 1] + PerChunk(entries, c)
<1> DEFINE q == [c \in 1 .. k |-> PerChunk(entries, c)]
<1>1. \A c \in 1 .. k : PerChunk(entries, c) \in Nat
  <2> SUFFICES ASSUME NEW c \in 1 .. k PROVE PerChunk(entries, c) \in Nat
    OBVIOUS
  <2>1. PICK e \in 1 .. Len(entries) : InEntry(entries, e, c)
    BY HasEntry
  <2>2. PerChunk(entries, c) = entries[e].perChunk
    BY <2>1, PerChunkIs
  <2>3. entries[e] \in StscEntry
    BY Element
  <2> QED
    BY <2>2, <2>3 DEF StscEntry
<1>2. q \in [1 .. k -> Nat] /\ \A c \in 1 .. k : q[c] = PerChunk(entries, c)
  BY <1>1
<1>3. UpToChunk(entries, k) = Sums(q)
  BY DEF UpToChunk
<1> HIDE DEF q
<1>4. q \in Seq(Nat) /\ Len(q) = k
  BY <1>2
<1>5. /\ Sums(q) \in [0 .. k -> Nat] /\ Sums(q)[0] = 0
      /\ \A c \in 1 .. k : Sums(q)[c] = Sums(q)[c - 1] + q[c]
  BY <1>4, SumsStep
<1> QED
  BY <1>2, <1>3, <1>4, <1>5 DEF q

\* What the next chunk does to the entries: n samples, with an entry of their own unless the chunk
\* before had as many.
LEMMA NextChunk ==
  ASSUME NEW entries \in Seq(StscEntry), NEW k \in Nat, EntriesOK(entries, k), NEW n \in Nat,
         NEW next,
         \/ entries # << >> /\ entries[Len(entries)].perChunk = n /\ next = entries
         \/ next = Append(entries, [firstChunk |-> k + 1, perChunk |-> n])
  PROVE  /\ next \in Seq(StscEntry) /\ next # << >> /\ next[Len(next)].perChunk = n
         /\ EntriesOK(next, k + 1)
         /\ PerChunk(next, k + 1) = n
         /\ \A c \in 1 .. k : PerChunk(next, c) = PerChunk(entries, c)
<1> DEFINE m == Len(entries)
<1>1. /\ m \in Nat /\ (entries # << >> <=> m # 0)
      /\ \A i \in 1 .. m : entries[i].firstChunk \in Nat /\ entries[i].perChunk \in Nat
  <2>1. \A i \in 1 .. m : entries[i] \in StscEntry
    BY Element
  <2> QED
    BY <2>1 DEF StscEntry
<1>2. m # 0 => entries[1].firstChunk = 1 /\ entries[m].firstChunk <= k
  BY <1>1 DEF EntriesOK
<1>3. CASE entries # << >> /\ entries[m].perChunk = n /\ next = entries
  <2>1. m \in 1 .. m /\ 1 \in 1 .. m /\ k # 0
    BY <1>1, <1>3 DEF EntriesOK
  <2>2. EntriesOK(next, k + 1)
    BY <1>1, <1>2, <1>3, <2>1 DEF EntriesOK
  <2>3. k + 1 \in 1 .. k + 1 /\ InEntry(next, m, k + 1)
    BY <1>1, <1>2, <1>3, <2>1 DEF InEntry
  <2>4. PerChunk(next, k + 1) = n
    BY <1>3, <2>1, <2>2, <2>3, PerChunkIs, k + 1 \in Nat
  <2> QED
    BY <1>3, <2>2, <2>4
<1>4. CASE next = Append(entries, [firstChunk |-> k + 1, perChunk |-> n])
  <2> DEFINE entry == [firstChunk |-> k + 1, perChunk |-> n]
  <2>1. /\ entry \in StscEntry /\ entry.firstChunk = k + 1 /\ entry.perChunk = n
        /\ next = Append(entries, entry)
    BY <1>4 DEF StscEntry
  <2> HIDE DEF entry
  <2>2. /\ next \in Seq(StscEntry) /\ next # << >> /\ Len(next) = m + 1 /\ next[m + 1] = entry
        /\ \A i \in 1 .. m : next[i] = entries[i]
    BY <2>1, AppendLast
  <2>3. next[m + 1].perChunk = n /\ next[m + 1].firstChunk = k + 1
    BY <2>1, <2>2
  <2>4. ASSUME NEW d \in 1 .. m + 1, NEW e \in 1 .. m + 1, d < e
        PROVE  next[d].firstChunk < next[e].firstChunk
    <3>1. CASE e = m + 1
      <4>1. d \in 1 .. m /\ m \in 1 .. m /\ next[d] = entries[d]
        BY <1>1, <2>2, <2>4, <3>1
      <4>2. entries[d].firstChunk <= entries[m].firstChunk
        <5>1. CASE d = m
          BY <1>1, <4>1, <5>1
        <5>2. CASE d < m
          BY <1>1, <4>1, <5>2 DEF EntriesOK
        <5> QED
          BY <1>1, <4>1, <5>1, <5>2
      <4> QED
        BY <1>1, <1>2, <2>3, <3>1, <4>1, <4>2
    <3>2. CASE e \in 1 .. m
      <4>1. d \in 1 .. m /\ next[d] = entries[d] /\ next[e] = entries[e]
        BY <1>1, <2>2, <2>4, <3>2
      <4> QED
        BY <2>4, <3>2, <4>1 DEF EntriesOK
    <3> QED
      BY <1>1, <3>1, <3>2
  <2>5. next[1].firstChunk = 1
    <3>1. CASE m = 0
      BY <1>1, <2>3, <3>1 DEF EntriesOK
    <3>2. CASE m # 0
      BY <1>1, <1>2, <2>2, <3>2
    <3> QED
      BY <3>1, <3>2
  <2>6. EntriesOK(next, k + 1)
    BY <2>2, <2>3, <2>4, <2>5 DEF EntriesOK
  <2>7. PerChunk(next, k + 1) = n
    <3>1. InEntry(next, m + 1, k + 1)
      BY <2>2, <2>3 DEF InEntry
    <3>2. m + 1 \in 1 .. Len(next) /\ k + 1 \in Nat /\ k + 1 \in 1 .. k + 1
      BY <1>1, <2>2
    <3> QED
      BY <2>2, <2>3, <2>6, <3>1, <3>2, PerChunkIs
  <2>8. ASSUME NEW c \in 1 .. k PROVE PerChunk(next, c) = PerChunk(entries, c)
    <3>1. PICK e \in 1 .. m : InEntry(entries, e, c)
      BY HasEntry
    <3>2. PerChunk(entries, c) = entries[e].perChunk
      BY <3>1, PerChunkIs
    <3>3. InEntry(next, e, c)
      <4>1. next[e] = entries[e] /\ e # Len(next)
        BY <1>1, <2>2
      <4>2. CASE e = m
        <5>1. c < next[e + 1].firstChunk
          BY <2>3, <4>2
        <5> QED
          BY <3>1, <4>1, <5>1 DEF InEntry
      <4>3. CASE e # m
        <5>1. e + 1 \in 1 .. m
          BY <1>1, <4>3
        <5> QED
          BY <2>2, <3>1, <4>1, <4>3, <5>1 DEF InEntry
      <4> QED
        BY <4>2, <4>3
    <3>4. e \in 1 .. Len(next) /\ k + 1 \in Nat /\ c \in 1 .. k + 1
      BY <1>1, <2>2
    <3>5. PerChunk(next, c) = next[e].perChunk
      BY <2>2, <2>6, <3>3, <3>4, PerChunkIs
    <3> QED
      BY <2>2, <3>2, <3>5
  <2> QED
    BY <2>2, <2>3, <2>6, <2>7, <2>8
<1> QED
  BY <1>3, <1>4

\* Chunk c begins where its first sample does, and has the samples from + 1 .. to without a gap.
InChunk(offsets, c, from, to) ==
  /\ from < to
  /\ offsets[c] = samples[from + 1].offset
  /\ \A j \in from + 1 .. to - 1 : End(j) = samples[j + 1].offset

\* The two loops after a rounds agree on the chunks, of which the last may still be open.
ChunksOK(acc, offsets, a) ==
  LET k == acc.chunk - 1
      upTo == UpToChunk(acc.entries, k)
  IN  /\ k \in Nat
      /\ EntriesOK(acc.entries, k)
      /\ acc.previous = IF acc.entries = << >> THEN -1
                        ELSE acc.entries[Len(acc.entries)].perChunk
      /\ upTo[k] + acc.count = a
      /\ Len(offsets) = IF acc.count = 0 THEN k ELSE k + 1
      /\ \A c \in 1 .. k : InChunk(offsets, c, upTo[c - 1], upTo[c])
      /\ acc.count # 0 => InChunk(offsets, k + 1, upTo[k], a)
      /\ a < Count => (acc.count = 0 <=> Opens(a + 1))
      /\ a = Count => acc.count = 0

\* A place is found after the first ones; what there was stays.
LEMMA StcoRound ==
  ASSUME TableTypeOK, NEW offsets \in Seq(Nat), NEW a \in 1 .. Count
  PROVE  LET next == StcoStep(offsets, a)
         IN  /\ next \in Seq(Nat)
             /\ \A c \in 1 .. Len(offsets) : next[c] = offsets[c]
             /\ ~Opens(a) => Len(next) = Len(offsets)
             /\ Opens(a) => /\ Len(next) = Len(offsets) + 1
                            /\ next[Len(offsets) + 1] = samples[a].offset
<1>1. samples[a].offset \in Nat
  BY SampleTypes DEF Count
<1>2. CASE Opens(a)
  <2>1. StcoStep(offsets, a) = Append(offsets, samples[a].offset)
    BY <1>2 DEF StcoStep
  <2> QED
    BY <1>1, <1>2, <2>1, AppendLast
<1>3. CASE ~Opens(a)
  BY <1>3 DEF StcoStep
<1> QED
  BY <1>2, <1>3

\* What the first chunks hold does not change with the entry of the next one.
LEMMA UpToNext ==
  ASSUME NEW entries \in Seq(StscEntry), NEW next \in Seq(StscEntry), NEW k \in Nat,
         EntriesOK(entries, k), EntriesOK(next, k + 1),
         \A c \in 1 .. k : PerChunk(next, c) = PerChunk(entries, c)
  PROVE  /\ \A c \in 0 .. k : UpToChunk(next, k + 1)[c] = UpToChunk(entries, k)[c]
         /\ UpToChunk(next, k + 1)[k + 1] = UpToChunk(entries, k)[k] + PerChunk(next, k + 1)
<1> DEFINE q == [c \in 1 .. k |-> PerChunk(entries, c)]
           r == [c \in 1 .. k + 1 |-> PerChunk(next, c)]
<1>0. k + 1 \in Nat /\ k + 1 \in 1 .. k + 1 /\ k <= k + 1 /\ k <= k /\ k + 1 - 1 = k /\ k \in 0 .. k
  OBVIOUS
<1>1. q \in Seq(Nat) /\ Len(q) = k /\ UpToChunk(entries, k) = Sums(q)
  BY PerChunks
<1>2. r \in Seq(Nat) /\ Len(r) = k + 1 /\ UpToChunk(next, k + 1) = Sums(r)
  BY <1>0, PerChunks
<1>3. \A c \in 1 .. k : q[c] = r[c]
  OBVIOUS
<1> HIDE DEF q, r
<1>4. \A c \in 0 .. k : Sums(q)[c] = Sums(r)[c]
  BY <1>0, <1>1, <1>2, <1>3, SumsAgree
<1>5. UpToChunk(next, k + 1)[k + 1] = UpToChunk(next, k + 1)[k + 1 - 1] + PerChunk(next, k + 1)
  <2>1. ASSUME NEW m \in Nat, EntriesOK(next, m)
        PROVE  \A c \in 1 .. m :
                 UpToChunk(next, m)[c] = UpToChunk(next, m)[c - 1] + PerChunk(next, c)
    BY <2>1, PerChunks
  <2> QED
    BY <1>0, <2>1
<1> QED
  BY <1>0, <1>1, <1>2, <1>4, <1>5

\* What the first chunks hold, when the next one of n samples is closed.
LEMMA ChunkClosed ==
  ASSUME NEW entries \in Seq(StscEntry), NEW k \in Nat, EntriesOK(entries, k), NEW n \in Nat,
         NEW next,
         \/ entries # << >> /\ entries[Len(entries)].perChunk = n /\ next = entries
         \/ next = Append(entries, [firstChunk |-> k + 1, perChunk |-> n])
  PROVE  /\ next # << >> /\ next[Len(next)].perChunk = n
         /\ EntriesOK(next, k + 1)
         /\ \A c \in 0 .. k : UpToChunk(next, k + 1)[c] = UpToChunk(entries, k)[c]
         /\ UpToChunk(next, k + 1)[k + 1] = UpToChunk(entries, k)[k] + n
<1>1. /\ next \in Seq(StscEntry) /\ next # << >> /\ next[Len(next)].perChunk = n
      /\ EntriesOK(next, k + 1)
      /\ PerChunk(next, k + 1) = n
      /\ \A c \in 1 .. k : PerChunk(next, c) = PerChunk(entries, c)
  BY NextChunk
<1>2. /\ \A c \in 0 .. k : UpToChunk(next, k + 1)[c] = UpToChunk(entries, k)[c]
      /\ UpToChunk(next, k + 1)[k + 1] = UpToChunk(entries, k)[k] + PerChunk(next, k + 1)
  BY <1>1, UpToNext
<1> QED
  BY <1>1, <1>2

\* A chunk is extended by the sample that follows it.
LEMMA Longer ==
  ASSUME NEW offsets, NEW places, NEW c, NEW from \in Nat, NEW a \in Nat \ {0, 1},
         InChunk(offsets, c, from, a - 1), places[c] = offsets[c],
         End(a - 1) = samples[a].offset
  PROVE  InChunk(places, c, from, a)
<1>1. ASSUME NEW j \in from + 1 .. a - 1 PROVE End(j) = samples[j + 1].offset
  <2>1. CASE j = a - 1
    <3>1. j + 1 = a
      BY <2>1
    <3> QED
      BY <2>1, <3>1
  <2>2. CASE j # a - 1
    <3>1. j \in from + 1 .. a - 1 - 1
      BY <2>2
    <3> QED
      BY <3>1 DEF InChunk
  <2> QED
    BY <2>1, <2>2
<1>2. from < a
  BY DEF InChunk
<1> QED
  BY <1>1, <1>2 DEF InChunk

\* One round of both loops.
LEMMA ChunksStep ==
  ASSUME TableTypeOK, NEW acc \in StscState, NEW offsets \in Seq(Nat), NEW a \in 1 .. Count,
         ChunksOK(acc, offsets, a - 1)
  PROVE  ChunksOK(StscStep(acc, a), StcoStep(offsets, a), a)
<1>1. /\ acc.entries \in Seq(StscEntry) /\ acc.chunk \in Nat /\ acc.count \in Nat
      /\ acc.previous \in Int /\ a \in Nat /\ Count \in Nat
  BY DEF StscState, Count, TableTypeOK
<1>2. PICK k, n, upTo, next, places :
        /\ k = acc.chunk - 1 /\ n = acc.count + 1 /\ upTo = UpToChunk(acc.entries, k)
        /\ next = StscStep(acc, a) /\ places = StcoStep(offsets, a)
  OBVIOUS
<1>3. /\ k \in Nat /\ k + 1 = acc.chunk
      /\ EntriesOK(acc.entries, k)
      /\ acc.previous = IF acc.entries = << >> THEN -1
                        ELSE acc.entries[Len(acc.entries)].perChunk
      /\ upTo[k] + acc.count = a - 1
      /\ Len(offsets) = IF acc.count = 0 THEN k ELSE k + 1
      /\ \A c \in 1 .. k : InChunk(offsets, c, upTo[c - 1], upTo[c])
      /\ acc.count # 0 => InChunk(offsets, k + 1, upTo[k], a - 1)
      /\ a - 1 < Count => (acc.count = 0 <=> Opens(a - 1 + 1))
  BY <1>1, <1>2 DEF ChunksOK
<1>4. acc.count = 0 <=> Opens(a)
  <2>1. a - 1 < Count /\ a - 1 + 1 = a
    BY <1>1
  <2> QED
    BY <1>3, <2>1
<1>5. n \in Nat /\ upTo[k] \in Nat /\ upTo[k] + n = a
  <2>1. upTo \in [0 .. k -> Nat]
    BY <1>1, <1>2, <1>3, PerChunks
  <2>2. upTo[k] \in Nat
    BY <1>3, <2>1
  <2>3. n = acc.count + 1 /\ upTo[k] + acc.count = a - 1
    BY <1>2, <1>3
  <2>4. PICK x, y : x = upTo[k] /\ y = acc.count
    OBVIOUS
  <2>5. x \in Nat /\ y \in Nat /\ a \in Nat /\ x + y = a - 1 /\ n = y + 1
    BY <1>1, <2>2, <2>3, <2>4
  <2>6. n \in Nat /\ x + n = a
    BY <2>5
  <2> QED
    BY <2>2, <2>4, <2>6
<1>6. /\ \A c \in 1 .. Len(offsets) : places[c] = offsets[c]
      /\ ~Opens(a) => Len(places) = Len(offsets)
      /\ Opens(a) => Len(places) = Len(offsets) + 1 /\ places[Len(offsets) + 1] = samples[a].offset
  BY <1>2, StcoRound
<1>7. /\ ~Closes(a) => /\ next.entries = acc.entries /\ next.chunk = acc.chunk
                       /\ next.count = n /\ next.previous = acc.previous
      /\ Closes(a) => /\ next.entries = IF acc.previous = n THEN acc.entries
                           ELSE Append(acc.entries, [firstChunk |-> acc.chunk, perChunk |-> n])
                      /\ next.chunk = acc.chunk + 1 /\ next.count = 0 /\ next.previous = n
  <2>1. n = acc.count + 1 /\ next = StscStep(acc, a)
    BY <1>2
  <2> QED
    BY <2>1, StscRound, Zenon
<1>8. Len(places) = k + 1 /\ \A c \in 1 .. k : places[c] = offsets[c]
  <2>1. k \in Nat /\ Len(offsets) = (IF acc.count = 0 THEN k ELSE k + 1)
    BY <1>3
  <2>2. Len(places) = k + 1 /\ Len(offsets) \in {k, k + 1}
    BY <1>4, <1>6, <2>1
  <2>3. \A c \in 1 .. k : c \in 1 .. Len(offsets)
    BY <2>1, <2>2
  <2> QED
    BY <1>6, <2>2, <2>3
\* The sample joins the open chunk or opens one.
<1>9. InChunk(places, k + 1, upTo[k], a)
  <2>1. CASE acc.count = 0
    <3>1. upTo[k] = a - 1 /\ Len(offsets) = k
      BY <1>1, <1>3, <1>5, <2>1
    <3>2. places[k + 1] = samples[a].offset
      BY <1>4, <1>6, <2>1, <3>1
    <3>3. a - 1 < a /\ a - 1 + 1 = a /\ a - 1 + 1 .. a - 1 = {}
      BY <1>1
    <3> QED
      BY <3>1, <3>2, <3>3 DEF InChunk
  <2>2. CASE acc.count # 0
    <3>1. Len(offsets) = k + 1 /\ InChunk(offsets, k + 1, upTo[k], a - 1)
      BY <1>3, <2>2
    <3>2. places[k + 1] = offsets[k + 1]
      BY <1>3, <1>6, <3>1
    <3>3. a \in Nat \ {0, 1} /\ End(a - 1) = samples[a].offset
      BY <1>1, <1>4, <2>2 DEF Opens
    <3> QED
      BY <1>5, <3>1, <3>2, <3>3, Longer
  <2> QED
    BY <2>1, <2>2
<1>10. \A c \in 1 .. k : InChunk(places, c, upTo[c - 1], upTo[c])
  BY <1>3, <1>8 DEF InChunk
\* What ends a chunk in the one loop begins the next in the other.
<1>11. a < Count => (Closes(a) <=> Opens(a + 1))
  <2>1. a < Count => a + 1 # 1 /\ a # Count /\ a + 1 - 1 = a
    BY <1>1
  <2> QED
    BY <2>1 DEF Closes, Opens
<1>12. CASE ~Closes(a)
  <2>1. /\ next.chunk - 1 = k /\ UpToChunk(next.entries, k) = upTo
        /\ next.entries = acc.entries /\ next.count = n /\ next.previous = acc.previous
    BY <1>1, <1>2, <1>3, <1>7, <1>12
  <2>2. a # Count /\ n # 0
    BY <1>1, <1>2, <1>12 DEF Closes
  <2>3. ChunksOK(next, places, a)
    BY <1>3, <1>5, <1>8, <1>9, <1>10, <1>11, <1>12, <2>1, <2>2 DEF ChunksOK
  <2> QED
    BY <1>2, <2>3
<1>13. CASE Closes(a)
  <2>1. PICK entries, now : entries = next.entries /\ now = UpToChunk(entries, k + 1)
    OBVIOUS
  <2>2. \/ /\ acc.entries # << >> /\ acc.entries[Len(acc.entries)].perChunk = n
           /\ entries = acc.entries
        \/ entries = Append(acc.entries, [firstChunk |-> k + 1, perChunk |-> n])
    <3>1. CASE acc.previous = n
      <4>1. n # -1
        BY <1>5
      <4>2. acc.entries # << >> /\ acc.entries[Len(acc.entries)].perChunk = n
        BY <1>3, <3>1, <4>1
      <4> QED
        BY <1>7, <1>13, <2>1, <3>1, <4>2
    <3>2. CASE acc.previous # n
      BY <1>3, <1>7, <1>13, <2>1, <3>2
    <3> QED
      BY <3>1, <3>2
  <2>3. /\ entries # << >> /\ entries[Len(entries)].perChunk = n
        /\ EntriesOK(entries, k + 1)
        /\ \A c \in 0 .. k : now[c] = upTo[c]
        /\ now[k + 1] = upTo[k] + n
    <3>1. acc.entries \in Seq(StscEntry) /\ k \in Nat /\ n \in Nat /\ EntriesOK(acc.entries, k)
      BY <1>1, <1>3, <1>5
    <3>2. /\ entries # << >> /\ entries[Len(entries)].perChunk = n
          /\ EntriesOK(entries, k + 1)
          /\ \A c \in 0 .. k : UpToChunk(entries, k + 1)[c] = UpToChunk(acc.entries, k)[c]
          /\ UpToChunk(entries, k + 1)[k + 1] = UpToChunk(acc.entries, k)[k] + n
      BY <2>2, <3>1, ChunkClosed
    <3> QED
      BY <1>2, <2>1, <3>2
  <2>4. ASSUME NEW c \in 1 .. k + 1 PROVE InChunk(places, c, now[c - 1], now[c])
    <3>1. CASE c = k + 1
      <4>1. c - 1 = k /\ k \in 0 .. k
        BY <1>3, <3>1
      <4> QED
        BY <1>5, <1>9, <2>3, <3>1, <4>1
    <3>2. CASE c # k + 1
      <4>1. c \in 1 .. k /\ c \in 0 .. k /\ c - 1 \in 0 .. k
        BY <1>3, <3>2
      <4> QED
        BY <1>10, <2>3, <4>1
    <3> QED
      BY <3>1, <3>2
  <2>5. next.chunk - 1 = k + 1 /\ next.count = 0 /\ next.previous = n
    BY <1>1, <1>3, <1>7, <1>13
  <2>6. now[k + 1] + 0 = a /\ k + 1 \in Nat
    BY <1>1, <1>3, <1>5, <2>3
  <2>7. ChunksOK(next, places, a)
    BY <1>8, <1>11, <1>13, <2>1, <2>3, <2>4, <2>5, <2>6 DEF ChunksOK
  <2> QED
    BY <1>2, <2>7
<1> QED
  BY <1>12, <1>13

\* Within a chunk, a sample is as far from the first one as those between them are long.
LEMMA Contiguous ==
  ASSUME TableTypeOK, NEW from \in Nat, NEW to \in 1 .. Count, from < to,
         \A j \in from + 1 .. to - 1 : End(j) = samples[j + 1].offset
  PROVE  \A a \in from + 1 .. to :
           samples[a].offset = samples[from + 1].offset + Sums(Stsz)[a - 1] - Sums(Stsz)[from]
<1> DEFINE s == Sums(Stsz)
           T == {i \in 0 .. to - 1 :
                   from <= i => samples[i + 1].offset = samples[from + 1].offset + s[i] - s[from]}
<1>1. Count \in Nat /\ to \in Nat
  BY DEF Count, TableTypeOK
<1>2. \A a \in 1 .. Count : samples[a].offset \in Nat /\ samples[a].size \in Nat
  BY SampleTypes DEF Count
<1>3. Stsz \in Seq(Nat) /\ Len(Stsz) = Count /\ \A a \in 1 .. Count : Stsz[a] = samples[a].size
  BY <1>1, <1>2 DEF Stsz
<1>4. s \in [0 .. Count -> Nat] /\ \A a \in 1 .. Count : s[a] = s[a - 1] + samples[a].size
  BY <1>3, SumsStep
<1> HIDE DEF s
<1>5. samples[from + 1].offset \in Nat /\ s[from] \in Nat
  <2>1. from + 1 \in 1 .. Count /\ from \in 0 .. Count
    BY <1>1
  <2> QED
    BY <1>2, <1>4, <2>1
<1>6. ASSUME from = 0 PROVE samples[0 + 1].offset = samples[from + 1].offset + s[0] - s[from]
  BY <1>5, <1>6
<1>7. 0 \in T
  <2>1. 0 \in 0 .. to - 1 /\ (from <= 0 => from = 0)
    BY <1>1
  <2> QED
    BY <1>6, <2>1
<1>8. ASSUME NEW i \in 1 .. to - 1, i - 1 \in T PROVE i \in T
  <2>1. CASE from = i
    BY <1>5, <2>1
  <2>2. CASE from <= i - 1
    <3>1. samples[i - 1 + 1].offset = samples[from + 1].offset + s[i - 1] - s[from]
      BY <1>8, <2>2
    <3>2. i - 1 + 1 = i /\ i \in 1 .. Count /\ i - 1 \in 0 .. Count /\ i \in from + 1 .. to - 1
      BY <1>1, <2>2
    <3>3. samples[i + 1].offset = samples[i].offset + samples[i].size
      BY <3>2 DEF End
    <3>4. s[i] = s[i - 1] + samples[i].size /\ s[i - 1] \in Nat /\ samples[i].size \in Nat
      BY <1>2, <1>4, <3>2
    <3>5. samples[i].offset \in Nat
      BY <1>2, <3>2
    <3>6. samples[i + 1].offset = samples[from + 1].offset + s[i] - s[from]
      BY <1>5, <3>1, <3>2, <3>3, <3>4, <3>5
    <3> QED
      BY <1>1, <3>6
  <2>3. CASE i < from
    BY <1>1, <2>3
  <2> QED
    BY <1>1, <2>1, <2>2, <2>3
<1> HIDE DEF T
<1>9. 0 .. to - 1 \subseteq T
  <2>1. to - 1 \in Nat
    BY <1>1
  <2> QED
    BY <1>7, <1>8, <2>1, UpTo
<1> SUFFICES ASSUME NEW a \in from + 1 .. to
             PROVE  samples[a].offset = samples[from + 1].offset + s[a - 1] - s[from]
  BY DEF s
<1>10. a - 1 \in 0 .. to - 1 /\ from <= a - 1 /\ a - 1 + 1 = a
  BY <1>1
<1> QED
  BY <1>9, <1>10 DEF T

\* A player finds every sample of the track, and no other, where it is.
LEMMA PlacesRead ==
  ASSUME TableTypeOK
  PROVE  /\ ReadCount = Count
         /\ \A a \in 1 .. Count : ReadOffset(a) = samples[a].offset
<1> DEFINE T == {n \in 0 .. Count : ChunksOK(StscAfter[n], StcoAfter[n], n)}
<1>1. Count \in Nat
  BY DEF Count, TableTypeOK
<1>2. 0 \in T
  <2>1. StscAfter[0] = StscStart /\ StcoAfter[0] = << >>
    BY StscRounds, StcoRounds
  <2>2. << >> \in Seq(StscEntry) /\ EntriesOK(<< >>, 0) /\ UpToChunk(<< >>, 0)[0] = 0
    <3>1. << >> \in Seq(StscEntry) /\ EntriesOK(<< >>, 0)
      BY DEF EntriesOK
    <3> QED
      BY <3>1, PerChunks
  <2>3. ChunksOK(StscStart, << >>, 0)
    BY <1>1, <2>2 DEF ChunksOK, StscStart, Opens
  <2> QED
    BY <1>1, <2>1, <2>3
<1>3. ASSUME NEW n \in 1 .. Count, n - 1 \in T PROVE n \in T
  <2>1. /\ n - 1 \in 0 .. Count /\ n \in 0 .. Count
        /\ ChunksOK(StscAfter[n - 1], StcoAfter[n - 1], n - 1)
    BY <1>1, <1>3
  <2>2. StscAfter[n - 1] \in StscState /\ StscAfter[n] = StscStep(StscAfter[n - 1], n)
    BY <2>1, StscRounds
  <2>3. StcoAfter[n - 1] \in Seq(Nat) /\ StcoAfter[n] = StcoStep(StcoAfter[n - 1], n)
    BY <2>1, StcoRounds
  <2>4. ChunksOK(StscStep(StscAfter[n - 1], n), StcoStep(StcoAfter[n - 1], n), n)
    BY <2>1, <2>2, <2>3, ChunksStep
  <2> QED
    BY <2>1, <2>2, <2>3, <2>4
<1> HIDE DEF T
<1>4. ChunksOK(StscAfter[Count], Stco, Count)
  <2>1. 0 .. Count \subseteq T
    BY <1>1, <1>2, <1>3, UpTo
  <2> QED
    BY <1>1, <2>1 DEF T, Stco
<1> DEFINE acc == StscAfter[Count]
           k == acc.chunk - 1
           upTo == UpToChunk(Stsc, k)
<1>5. acc \in StscState /\ acc.entries = Stsc /\ Stsc \in Seq(StscEntry)
  BY <1>1, StscRounds DEF Stsc, StscState
<1>6. /\ k \in Nat /\ EntriesOK(Stsc, k) /\ acc.count = 0
      /\ upTo[k] + acc.count = Count
      /\ Len(Stco) = k
      /\ \A c \in 1 .. k : InChunk(Stco, c, upTo[c - 1], upTo[c])
  BY <1>4, <1>5 DEF ChunksOK
<1> HIDE DEF acc, k
<1>7. LET q == [c \in 1 .. k |-> PerChunk(Stsc, c)]
      IN  q \in Seq(Nat) /\ Len(q) = k /\ upTo = Sums(q) /\ upTo \in [0 .. k -> Nat]
  BY <1>5, <1>6, PerChunks
<1> HIDE DEF upTo
<1>8. upTo[k] = Count /\ ReadCount = Count
  <2>1. upTo[k] \in Nat /\ upTo[k] + 0 = Count
    BY <1>6, <1>7
  <2> QED
    BY <1>6, <2>1 DEF ReadCount, upTo
<1>9. ASSUME NEW a \in 1 .. Count PROVE ReadOffset(a) = samples[a].offset
  <2> DEFINE c == CHOOSE c \in 1 .. k : upTo[c - 1] < a /\ a <= upTo[c]
  <2>1. c \in 1 .. k /\ upTo[c - 1] < a /\ a <= upTo[c]
    <3>1. \E d \in 1 .. k : upTo[d - 1] < a /\ a <= upTo[d]
      BY <1>7, <1>8, Falls
    <3> QED
      BY <3>1
  <2>2. ReadOffset(a) = Stco[c] + Sums(Stsz)[a - 1] - Sums(Stsz)[upTo[c - 1]]
    BY <1>6 DEF ReadOffset, OffsetIn, upTo
  <2> HIDE DEF c
  <2>3. InChunk(Stco, c, upTo[c - 1], upTo[c]) /\ c - 1 \in 0 .. k /\ c \in 0 .. k
    BY <1>6, <2>1
  <2> DEFINE from == upTo[c - 1]
             to == upTo[c]
  <2>4. from \in Nat /\ to \in Nat /\ from < to /\ from < a /\ a <= to
    BY <1>7, <2>1, <2>3 DEF InChunk
  <2>5. to <= Count
    BY <1>7, <1>8, <2>3, Grows
  <2>6. /\ Stco[c] = samples[from + 1].offset
        /\ \A j \in from + 1 .. to - 1 : End(j) = samples[j + 1].offset
    BY <2>3 DEF InChunk
  <2> HIDE DEF from, to
  <2>7. to \in 1 .. Count /\ a \in from + 1 .. to
    BY <1>1, <2>4, <2>5
  <2>8. samples[a].offset = samples[from + 1].offset + Sums(Stsz)[a - 1] - Sums(Stsz)[from]
    BY <2>4, <2>6, <2>7, Contiguous
  <2> QED
    BY <2>2, <2>6, <2>8 DEF from
<1> QED
  BY <1>8, <1>9

\* Type correctness: in particular no duration is negative, because addSample() refuses a sample
\* that is older than the one before (SrsMp4Muxer.java:580-582).
THEOREM TableTypes == TableSpec => []TableTypeOK
<1>1. TableInv => TableTypeOK
  BY DEF TableInv
<1> QED
  BY <1>1, TableInductive, PTL

\* A player takes exactly the flagged pictures for key frames, for every number of samples and
\* however many addSample() refuses in between (SrsMp4Muxer.java:578-596, 1007-1014).
THEOREM SyncSamplesFound == TableSpec => []SyncSamplesRead
<1>1. TableInv => SyncSamplesRead
  <2> SUFFICES ASSUME TableInv, NEW a \in 1 .. Len(written)
               PROVE  IF isAudio THEN ReadSync(a)
                      ELSE (\E b \in 1 .. Len(written) : written[b].sync) =>
                             (ReadSync(a) <=> written[a].sync)
    BY DEF SyncSamplesRead
  <2>1. CASE isAudio
    BY <2>1 DEF TableInv, SyncOK, ReadSync, Stss
  <2>2. CASE ~isAudio
    <3> SUFFICES ASSUME NEW b \in 1 .. Len(written), written[b].sync
                 PROVE  ReadSync(a) <=> written[a].sync
      BY <2>2
    <3>1. a \in Nat /\ b \in Nat
      BY DEF TableInv, TableTypeOK
    <3>2. \A k \in Nat : k \in Range(syncSamples) <=> k \in 1 .. Len(written) /\ written[k].sync
      BY <2>2 DEF TableInv, SyncOK
    <3>3. syncSamples # << >>
      <4>1. b \in Range(syncSamples)
        BY <3>1, <3>2
      <4>2. Range(<< >>) = {}
        BY DEF Range
      <4> QED
        BY <4>1, <4>2
    <3> QED
      BY <3>1, <3>2, <3>3 DEF ReadSync, Stss
  <2> QED
    BY <2>1, <2>2
<1> QED
  BY <1>1, TableInductive, PTL

\* The samples of a track have bytes of their own, where the writer put them, in the order in which
\* they came (SrsMp4Muxer.java:578-596, 804-818).
THEOREM SamplesApart == TableSpec => [](TablesAligned /\ SamplesPlaced)
<1>1. TableInv => TablesAligned /\ SamplesPlaced
  BY DEF TableInv
<1> QED
  BY <1>1, TableInductive, PTL

\* A player finds every sample of the track, and no other, where the writer put it: the loops of
\* stsc and stco, which each decide for themselves where a chunk ends, agree for every number of
\* samples and gaps (SrsMp4Muxer.java:1016-1054, 1062-1083).
THEOREM OffsetsFound == TableSpec => []OffsetsRead
<1>1. TableInv => OffsetsRead
  <2> SUFFICES ASSUME TableInv PROVE OffsetsRead
    OBVIOUS
  <2>1. /\ Len(samples) = Len(written) /\ Count = Len(written) /\ Count \in Nat
        /\ \A a \in 1 .. Len(written) : samples[a].offset = written[a].offset
    BY DEF TableInv, TableTypeOK, TablesAligned, Count
  <2>2. Len(Stsz) = Count
    BY <2>1 DEF Stsz
  <2>3. ReadCount = Count /\ \A a \in 1 .. Count : ReadOffset(a) = samples[a].offset
    BY PlacesRead DEF TableInv
  <2> QED
    BY <2>1, <2>2, <2>3 DEF OffsetsRead
<1> QED
  BY <1>1, TableInductive, PTL

\* A player's time of a sample is off by half a tick per sample before it at most, and the whole of
\* the durations in stts is that of the track, for every time scale and every number of samples
\* (SrsMp4Muxer.java:589-594, createStts 990-1005).
THEOREM TimesKept == TableSpec => []TimesKeepPace
<1>1. TableInv => TimesKeepPace
  <2> SUFFICES ASSUME TableInv, written # << >> PROVE TimesKeepPace
    BY DEF TimesKeepPace
  <2>1. ReadDurations = sampleDurations
    BY DurationsRead DEF TableInv
  <2>2. Len(sampleDurations) = Len(written) /\ Total(sampleDurations) = duration
    BY DEF TableInv, DurationsOK, DurationsKeepPace
  <2>3. ASSUME NEW a \in 1 .. Len(written)
        PROVE  LET exact == (written[a].time - written[1].time) * TimeScale
                   drift == ReadTime(a) * Second - exact
               IN  -(a - 1) * Second <= 2 * drift /\ 2 * drift <= (a - 1) * Second
    <3> DEFINE exact == (written[a].time - written[1].time) * TimeScale
               drift == ReadTime(a) * Second - exact
    <3>1. Drift(a) = 2 * drift
      BY <2>1 DEF Drift, ReadTime
    <3>2. -((a - 1) * Second) <= Drift(a) /\ Drift(a) <= (a - 1) * Second
      BY DEF TableInv, DurationsKeepPace
    <3>3. -((a - 1) * Second) = -(a - 1) * Second
      BY Constants
    <3> HIDE DEF drift
    <3>4. -(a - 1) * Second <= 2 * drift /\ 2 * drift <= (a - 1) * Second
      BY <3>1, <3>2, <3>3
    <3> QED
      BY <3>4 DEF drift
  <2> QED
    BY <2>1, <2>2, <2>3 DEF TimesKeepPace
<1> QED
  BY <1>1, TableInductive, PTL
=============================================================================
