--------------------------- MODULE AnalyzerProofs ---------------------------
(* Theorems about the analyzer, from the film to what a viewer is shown:    *)
(* what ContentScan labels, for every film, every speech and every length   *)
(* of segments, windows and steps; and what of the labelled movie is hidden *)
(* from a viewer, and what is not, in BranchPipeline, for every movie,      *)
(* every set of topics, of profiles and of viewers.                         *)
EXTENDS BranchPipeline, ContentScan, SequenceLemmas

-----------------------------------------------------------------------------
(* The scan: numbers. *)

\* What a set of numbers has least, and what it has greatest.
LEMMA LeastOfSome ==
    ASSUME NEW T \in SUBSET Nat, T # {}
    PROVE  Min(T) \in T /\ \A k \in T : Min(T) <= k
<1>1. \E m \in T : \A k \in T : m =< k
  BY LeastNatural
<1>2. Min(T) \in T /\ \A k \in T : Min(T) =< k
  BY <1>1 DEF Min
<1> QED BY <1>2

LEMMA GreatestOfSome ==
    ASSUME NEW n \in Nat, NEW T \in SUBSET (0 .. n), T # {}
    PROVE  Max(T) \in T /\ \A k \in T : k <= Max(T)
<1>1. PICK m \in T : \A k \in T : k <= m
  BY GreatestBelow
<1>2. \A k \in T : m >= k
  BY <1>1
<1>3. Max(T) \in T /\ \A k \in T : Max(T) >= k
  BY <1>2 DEF Max
<1> QED BY <1>3

\* The greatest multiple of n up to a.
LEMMA MultipleBelow ==
    ASSUME NEW a \in Nat, NEW n \in Nat \ {0}
    PROVE  \E m \in 0 .. a : m % n = 0 /\ a < m + n
<1> DEFINE k == a \div n
           m == n * k
           r == a % n
<1>0. n \in Nat /\ n > 0
  OBVIOUS
<1>1. a = n * k + r /\ r \in 0 .. n - 1 /\ k \in Nat
  <2>1. a = n * (a \div n) + (a % n)
    BY <1>0, Division
  <2>2. a % n \in 0 .. n - 1 /\ a \div n \in Nat
    BY <1>0
  <2> QED BY <2>1, <2>2
<1>2. m % n = 0
  <2>1. \A i \in Nat : (i * n) % n = 0
    OBVIOUS
  <2>2. n * k = k * n
    BY <1>1
  <2> HIDE DEF k
  <2> QED BY <1>1, <2>1, <2>2
<1>3. m \in Nat
  BY <1>1
<1> HIDE DEF k, m, r
<1>4. a = m + r
  BY <1>1 DEF m
<1>5. m \in 0 .. a /\ a < m + n
  BY <1>1, <1>3, <1>4
<1> QED BY <1>2, <1>5

\* Multiples of n are closed under addition.
LEMMA MultipleSum ==
    ASSUME NEW n \in Nat \ {0}, NEW a \in Nat, a % n = 0, NEW b \in Nat, b % n = 0
    PROVE  (a + b) % n = 0
<1> DEFINE i == a \div n
           j == b \div n
<1>1. a = n * i /\ b = n * j /\ i \in Nat /\ j \in Nat
  OBVIOUS
<1>2. \A k \in Nat : (k * n) % n = 0
  OBVIOUS
<1> HIDE DEF i, j
<1>3. a + b = (i + j) * n /\ i + j \in Nat
  BY <1>1
<1> QED BY <1>2, <1>3

\* A stretch of at least n numbers has a multiple of n.
LEMMA MultipleWithin ==
    ASSUME NEW n \in Nat \ {0}, NEW a \in Nat
    PROVE  \E m \in a .. a + n - 1 : m % n = 0
<1>1. PICK m \in 0 .. a + n - 1 : m % n = 0 /\ a + n - 1 < m + n
  <2>1. a + n - 1 \in Nat
    OBVIOUS
  <2> QED BY <2>1, MultipleBelow
<1>2. m \in a .. a + n - 1
  BY <1>1
<1> QED BY <1>1, <1>2

-----------------------------------------------------------------------------
(* The scan: frames. *)

\* Scores are numbers, as FilmsAssumption says of every film.
FilmIsSound ==
    \A t \in 0 .. Duration - 1 : Readable(t) =>
        /\ film[t].sd \in Nat
        /\ film[t].falcon \in Nat
        /\ film[t].sdBoosted \in Nat
        /\ film[t].falconBoosted \in Nat

LEMMA ClampedFacts ==
    ASSUME NEW t \in Time
    PROVE  /\ Clamped(t) \in 0 .. Duration - 1
           /\ Clamped(t) = IF t = Duration THEN Duration - 1 ELSE t
<1>1. Duration \in Nat /\ Duration > 0 /\ t \in Int /\ t <= Duration /\ t >= 0
  BY LengthsAssumption DEF Time
<1>2. Min({t, Duration - 1}) = IF t <= Duration - 1 THEN t ELSE Duration - 1
  BY <1>1, MinOfTwo
<1>3. Min({t, Duration - 1}) \in 0 .. Duration - 1
  BY <1>1, <1>2
<1>4. Max({0, Min({t, Duration - 1})}) = Min({t, Duration - 1})
  <2> DEFINE m == Min({t, Duration - 1})
  <2>1. m \in Int /\ 0 <= m
    BY <1>3
  <2> HIDE DEF m
  <2>2. Max({0, m}) = m
    BY <2>1, MaxOfTwo
  <2> QED BY <2>2 DEF m
<1> QED BY <1>1, <1>2, <1>3, <1>4 DEF Clamped

LEMMA SampledFacts ==
    ASSUME NEW times \in SUBSET Time
    PROVE  /\ Sampled(times) \in SUBSET (0 .. Duration - 1)
           /\ \A t \in Sampled(times) : Readable(t) /\ \E s \in times : t = Clamped(s)
           /\ \A s \in times : Readable(Clamped(s)) => Clamped(s) \in Sampled(times)
<1>1. \A s \in times : Clamped(s) \in 0 .. Duration - 1
  BY ClampedFacts
<1> QED BY <1>1 DEF Sampled

LEMMA TimestampFacts ==
    ASSUME NEW from \in Time, NEW to \in Time, NEW interval
    PROVE  /\ Timestamps(from, to, interval) \in SUBSET Time
           /\ \A t \in Timestamps(from, to, interval) : t = from \/ t \in from .. to - 1
           /\ \A t \in from .. to - 1 :
                 (t - from) % interval = 0 => t \in Timestamps(from, to, interval)
<1>1. from .. to - 1 \in SUBSET Time
  BY LengthsAssumption DEF Time
<1> QED BY <1>1 DEF Timestamps

\* The frames of the broad scan are the multiples of its interval.
LEMMA BroadFacts ==
    /\ BroadSamples \in SUBSET (0 .. Duration - 1)
    /\ \A t \in 0 .. Duration - 1 :
          t \in BroadSamples <=> Readable(t) /\ t % ScanInterval = 0
<1> DEFINE times == Timestamps(0, Duration, ScanInterval)
<1>1. 0 \in Time /\ Duration \in Time /\ Duration \in Nat \ {0} /\ ScanInterval \in Nat \ {0}
  BY LengthsAssumption DEF Time
<1>2. /\ times \in SUBSET Time
      /\ \A t \in times : t = 0 \/ t \in 0 .. Duration - 1
      /\ \A t \in 0 .. Duration - 1 : (t - 0) % ScanInterval = 0 => t \in times
  BY <1>1, TimestampFacts
<1>3. \A t \in times : t % ScanInterval = 0 /\ t \in 0 .. Duration - 1
  <2>1. 0 % ScanInterval = 0
    BY <1>1
  <2>2. \A t \in times : t = 0 \/ (t - 0) % ScanInterval = 0
    BY DEF Timestamps
  <2>3. \A t \in 0 .. Duration - 1 : t - 0 = t
    OBVIOUS
  <2> HIDE DEF times
  <2> QED BY <1>1, <1>2, <2>1, <2>2, <2>3
<1>4. \A t \in 0 .. Duration - 1 : t - 0 = t /\ t # Duration /\ t \in Time
  BY <1>1 DEF Time
<1>5. \A t \in 0 .. Duration - 1 : Clamped(t) = t
  BY <1>4, ClampedFacts
<1> HIDE DEF times
<1>6. /\ BroadSamples \in SUBSET (0 .. Duration - 1)
      /\ \A t \in BroadSamples : Readable(t) /\ \E s \in times : t = Clamped(s)
      /\ \A s \in times : Readable(Clamped(s)) => Clamped(s) \in BroadSamples
  <2>1. BroadSamples = Sampled(times)
    BY DEF BroadSamples, times
  <2> QED BY <1>2, <2>1, SampledFacts
<1>7. ASSUME NEW t \in 0 .. Duration - 1
      PROVE  t \in BroadSamples <=> Readable(t) /\ t % ScanInterval = 0
  <2>1. ASSUME t \in BroadSamples PROVE Readable(t) /\ t % ScanInterval = 0
    BY <1>3, <1>5, <1>6, <2>1
  <2>2. ASSUME Readable(t), t % ScanInterval = 0 PROVE t \in BroadSamples
    <3>1. t \in times
      BY <1>2, <1>4, <2>2
    <3> QED BY <1>5, <1>6, <2>2, <3>1
  <2> QED BY <2>1, <2>2
<1> QED BY <1>6, <1>7

\* A window's frames, some clamped.
LEMMA DenseFacts ==
    ASSUME NEW w \in Window, w.from < w.to
    PROVE  /\ DenseTimestamps(w) \in SUBSET Time
           /\ DenseSamples(w) \in SUBSET (0 .. Duration - 1)
           /\ \A t \in DenseSamples(w) : Readable(t) /\ w.from <= t /\ t <= w.to
           /\ Readable(w.from) => w.from \in DenseSamples(w)
           /\ \A t \in w.from .. w.to - 1 :
                 (t - w.from) % DenseStep = 0 => t \in DenseTimestamps(w)
           /\ \A s \in DenseTimestamps(w) :
                 Readable(Clamped(s)) => Clamped(s) \in DenseSamples(w)
           /\ \A t \in DenseSamples(w) : \E s \in DenseTimestamps(w) : t = Clamped(s)
<1> DEFINE times == Timestamps(w.from, w.to, DenseStep)
           more == DenseTimestamps(w)
<1>1. w.from \in Time /\ w.to \in Time /\ DenseStep \in Nat \ {0} /\ Duration \in Nat \ {0}
  BY LengthsAssumption DEF Window
<1>2. /\ times \in SUBSET Time
      /\ \A t \in times : t = w.from \/ t \in w.from .. w.to - 1
      /\ \A t \in w.from .. w.to - 1 : (t - w.from) % DenseStep = 0 => t \in times
  BY <1>1, TimestampFacts
<1>3. more = times \cup {w.to} /\ w.from \in times
  BY DEF DenseTimestamps, Timestamps
<1> HIDE DEF times, more
<1>4. more \in SUBSET Time
  BY <1>1, <1>2, <1>3
<1>5. \A s \in more : w.from <= s /\ s <= w.to
  BY <1>1, <1>2, <1>3 DEF Time
<1>6. \A s \in more : w.from <= Clamped(s) /\ Clamped(s) <= w.to
  <2> SUFFICES ASSUME NEW s \in more PROVE w.from <= Clamped(s) /\ Clamped(s) <= w.to
    OBVIOUS
  <2>1. Clamped(s) = IF s = Duration THEN Duration - 1 ELSE s
    BY <1>4, ClampedFacts
  <2> QED BY <1>1, <1>5, <2>1 DEF Time
<1>7. DenseSamples(w) = Sampled(more)
  BY DEF DenseSamples, more
<1>8. /\ DenseSamples(w) \in SUBSET (0 .. Duration - 1)
      /\ \A t \in DenseSamples(w) : Readable(t) /\ \E s \in more : t = Clamped(s)
      /\ \A s \in more : Readable(Clamped(s)) => Clamped(s) \in DenseSamples(w)
  BY <1>4, <1>7, SampledFacts
<1>9. Clamped(w.from) = w.from
  <2>1. w.from # Duration
    BY <1>1 DEF Time
  <2> QED BY <1>1, <2>1, ClampedFacts
<1>10. Readable(w.from) => w.from \in DenseSamples(w)
  BY <1>3, <1>8, <1>9
<1>11. \A t \in DenseSamples(w) : Readable(t) /\ w.from <= t /\ t <= w.to
  BY <1>6, <1>8
<1>12. /\ more \in SUBSET Time
       /\ \A t \in w.from .. w.to - 1 : (t - w.from) % DenseStep = 0 => t \in more
  BY <1>2, <1>3, <1>4
<1> QED BY <1>8, <1>10, <1>11, <1>12 DEF more

\* A frame that passes counts for the ends, and one that does has the score of
\* its threshold.
LEMMA VerdictFacts ==
    ASSUME FilmIsSound, NEW t \in 0 .. Duration - 1, Readable(t)
    PROVE  /\ Verdict(t).passed => Verdict(t).boundary
           /\ Verdict(t).boundary => Verdict(t).score >= ThresholdOf(film[t])
           /\ Verdict(t).score \in Nat
           /\ ThresholdOf(film[t]) \in Nat
<1> DEFINE f == film[t]
           h == ThresholdOf(film[t])
           plain == Signals(f.sd, f.falcon, h, FALSE)
           bright == Signals(Max({f.sd, f.sdBoosted}), Max({f.falcon, f.falconBoosted}), h, TRUE)
<1>1. f.sd \in Nat /\ f.falcon \in Nat /\ f.sdBoosted \in Nat /\ f.falconBoosted \in Nat
  BY DEF FilmIsSound
<1>2. \A a, b \in Nat : Max({a, b}) \in Nat
  <2> SUFFICES ASSUME NEW a \in Nat, NEW b \in Nat PROVE Max({a, b}) \in Nat
    OBVIOUS
  <2>1. Max({a, b}) = IF a >= b THEN a ELSE b
    BY MaxOfTwo
  <2> QED BY <2>1
<1>3. Max({f.sd, f.sdBoosted}) \in Nat /\ Max({f.falcon, f.falconBoosted}) \in Nat
  BY <1>1, <1>2
<1>4. h \in Nat
  BY ThresholdsAssumption DEF ThresholdOf
<1>5. /\ plain.passed => plain.boundary
      /\ plain.boundary => plain.score >= h
      /\ plain.score = Max({f.sd, f.falcon})
  BY DEF Signals
<1>6. /\ bright.passed => bright.boundary
      /\ bright.boundary => bright.score >= h
      /\ bright.score = Max({Max({f.sd, f.sdBoosted}), Max({f.falcon, f.falconBoosted})})
  BY DEF Signals
<1>7. plain.score \in Nat /\ bright.score \in Nat
  BY <1>1, <1>2, <1>3, <1>5, <1>6
<1>8. Verdict(t) = plain \/ Verdict(t) = bright
  BY DEF Verdict, Classify
<1> HIDE DEF plain, bright, h
<1>9. /\ Verdict(t).passed => Verdict(t).boundary
      /\ Verdict(t).boundary => Verdict(t).score >= h
      /\ Verdict(t).score \in Nat
  BY <1>5, <1>6, <1>7, <1>8
<1> QED BY <1>4, <1>9 DEF h

-----------------------------------------------------------------------------
(* The scan: windows. *)

LEMMA AroundFacts ==
    ASSUME NEW t \in 0 .. Duration - 1
    PROVE  /\ Around(t) \in Window
           /\ Around(t).from = IF t >= Padding THEN t - Padding ELSE 0
           /\ Around(t).to = IF t + Padding <= Duration THEN t + Padding ELSE Duration
           /\ Around(t).from <= t /\ t <= Around(t).to
<1>1. /\ Duration \in Nat /\ Padding \in Nat /\ t \in Nat /\ t < Duration
      /\ t - Padding \in Int /\ t + Padding \in Int /\ 0 \in Int /\ Duration \in Int
  BY LengthsAssumption
<1>2. Max({0, t - Padding}) = IF 0 >= t - Padding THEN 0 ELSE t - Padding
  BY <1>1, MaxOfTwo
<1>3. Min({Duration, t + Padding}) = IF Duration <= t + Padding THEN Duration ELSE t + Padding
  BY <1>1, MinOfTwo
<1>4. /\ Around(t).from = IF t >= Padding THEN t - Padding ELSE 0
      /\ Around(t).to = IF t + Padding <= Duration THEN t + Padding ELSE Duration
  BY <1>1, <1>2, <1>3 DEF Around
<1>5. Around(t) = [from |-> Around(t).from, to |-> Around(t).to]
  BY DEF Around
<1>6. Around(t).from \in Time /\ Around(t).to \in Time
  BY <1>1, <1>4 DEF Time
<1>7. Around(t) \in Window
  BY <1>5, <1>6 DEF Window
<1> QED BY <1>1, <1>4, <1>7

LEMMA WindowFacts == \A w \in Window : /\ w.from \in Nat /\ w.to \in Nat
                                       /\ w.to <= Duration /\ w.to \in Time /\ w.from \in Time
BY LengthsAssumption DEF Window, Time

\* What a candidate does to the windows.
LEMMA JoinCases ==
    ASSUME NEW t \in 0 .. Duration - 1, NEW ws \in Seq(Window)
    PROVE  /\ Join[t][ws] \in Seq(Window)
           /\ \/ Around(t).to <= Around(t).from /\ Join[t][ws] = ws
              \/ /\ Around(t).from < Around(t).to
                 /\ Len(ws) \in 1 .. Len(ws) => Around(t).from > ws[Len(ws)].to
                 /\ Join[t][ws] = Append(ws, Around(t))
              \/ /\ Around(t).from < Around(t).to
                 /\ Len(ws) \in 1 .. Len(ws) /\ Around(t).from <= ws[Len(ws)].to
                 /\ Len(Join[t][ws]) = Len(ws)
                 /\ \A j \in 1 .. Len(ws) : j # Len(ws) => Join[t][ws][j] = ws[j]
                 /\ Join[t][ws][Len(ws)] =
                       [from |-> ws[Len(ws)].from,
                        to |-> IF ws[Len(ws)].to >= Around(t).to THEN ws[Len(ws)].to
                               ELSE Around(t).to]
<1> DEFINE n == Len(ws)
           w == Around(t)
           end == Max({ws[n].to, w.to})
           longer == [from |-> ws[n].from, to |-> end]
           x == Join[t][ws]
<1>1. n \in Nat /\ (ws # <<>> <=> n \in 1 .. n) /\ \A j \in 1 .. n : ws[j] \in Window
  BY LenProperties, EmptySeq, ElementOfSeq
<1>2. w \in Window /\ w.from \in Nat /\ w.to \in Nat /\ w.to <= Duration /\ t \in Time
  <2>1. t \in Time
    BY LengthsAssumption DEF Time
  <2> QED BY <2>1, AroundFacts, WindowFacts
<1>3. x = IF w.to <= w.from THEN ws
          ELSE IF ws = <<>> \/ w.from > ws[n].to THEN Append(ws, w)
          ELSE [ws EXCEPT ![n].to = end]
  BY <1>2 DEF Join
<1>4. Append(ws, w) \in Seq(Window)
  BY <1>2, AppendProperties
<1>5. CASE w.to <= w.from
  BY <1>3, <1>5
<1>6. CASE ~(w.to <= w.from) /\ (ws = <<>> \/ w.from > ws[n].to)
  <2>1. x = Append(ws, w)
    BY <1>3, <1>6
  <2>2. n \in 1 .. n => w.from > ws[n].to
    BY <1>1, <1>6
  <2> HIDE DEF x, n, w
  <2>3. w.from < w.to
    BY <1>2, <1>6
  <2> QED BY <1>4, <2>1, <2>2, <2>3 DEF x, n, w
<1>7. CASE ~(w.to <= w.from) /\ ws # <<>> /\ ~(w.from > ws[n].to)
  <2>1. n \in 1 .. n /\ ws[n] \in Window /\ ws[n].to \in Nat /\ ws[n].to <= Duration
    BY <1>1, <1>7, WindowFacts
  <2>2. end = (IF ws[n].to >= w.to THEN ws[n].to ELSE w.to) /\ end \in Time
    <3> DEFINE a == ws[n].to
               b == w.to
    <3>1. a \in Int /\ b \in Int /\ a \in Time /\ b \in Time
      BY <1>2, <2>1, WindowFacts
    <3> HIDE DEF a, b
    <3>2. Max({a, b}) = IF a >= b THEN a ELSE b
      BY <3>1, MaxOfTwo
    <3>3. Max({a, b}) \in Time
      BY <3>1, <3>2
    <3> QED BY <3>2, <3>3 DEF a, b
  <2> HIDE DEF end, w
  <2>3. [ws[n] EXCEPT !.to = end] = longer /\ longer \in Window
    BY <2>1, <2>2 DEF Window
  <2>4. [ws EXCEPT ![n].to = end] = [ws EXCEPT ![n] = [ws[n] EXCEPT !.to = end]]
    BY <2>1
  <2> HIDE DEF longer
  <2>5. /\ [ws EXCEPT ![n] = longer] \in Seq(Window)
        /\ Len([ws EXCEPT ![n] = longer]) = n
        /\ \A j \in 1 .. n : [ws EXCEPT ![n] = longer][j] = IF j = n THEN longer ELSE ws[j]
    BY <2>1, <2>3, ExceptSeq
  <2>6. x = [ws EXCEPT ![n] = longer]
    BY <1>3, <1>7, <2>3, <2>4
  <2>7. w.from < w.to /\ w.from <= ws[n].to
    BY <1>2, <1>7, <2>1
  <2> HIDE DEF x
  <2>8. /\ x \in Seq(Window) /\ Len(x) = n /\ x[n] = longer
        /\ \A j \in 1 .. n : j # n => x[j] = ws[j]
    BY <2>1, <2>5, <2>6
  <2>9. longer = [from |-> ws[n].from, to |-> IF ws[n].to >= w.to THEN ws[n].to ELSE w.to]
    BY <2>2 DEF longer
  <2> QED BY <2>1, <2>7, <2>8, <2>9 DEF x, w
<1> QED BY <1>5, <1>6, <1>7

\* A stretch around a candidate that has a length.
Wide(t) == Around(t).from < Around(t).to

\* The windows ws for the candidates in old: each begins where the stretch of
\* one begins and ends where that of one ends, they lie apart, and every
\* stretch is in one of them.
WindowsOf(ws, old) ==
    /\ \A j \in 1 .. Len(ws) : ws[j].from < ws[j].to
    /\ \A j \in 1 .. Len(ws) : \E c \in old : Wide(c) /\ ws[j].from = Around(c).from
    /\ \A j \in 1 .. Len(ws) : \E c \in old : Wide(c) /\ ws[j].to = Around(c).to
    /\ \A j, k \in 1 .. Len(ws) : j < k => ws[j].to < ws[k].from
    /\ \A c \in old : Wide(c) =>
          \E j \in 1 .. Len(ws) : ws[j].from <= Around(c).from /\ Around(c).to <= ws[j].to

\* A later candidate keeps that.
LEMMA JoinKeepsWindows ==
    ASSUME NEW ws \in Seq(Window), NEW old \in SUBSET (0 .. Duration - 1), WindowsOf(ws, old),
           NEW t \in 0 .. Duration - 1, \A u \in old : u < t
    PROVE  WindowsOf(Join[t][ws], old \cup {t})
<1> DEFINE n == Len(ws)
           w == Around(t)
           x == Join[t][ws]
<1>1. n \in Nat /\ \A j \in 1 .. n : /\ ws[j].from \in Nat /\ ws[j].to \in Nat
  BY LenProperties, ElementOfSeq, WindowFacts
<1>2. w \in Window /\ w.from \in Nat /\ w.to \in Nat
  BY AroundFacts, WindowFacts
<1>3. \A c \in old : /\ Around(c).from \in Nat /\ Around(c).to \in Nat
                     /\ Around(c).from <= w.from /\ Around(c).to <= w.to
  <2> SUFFICES ASSUME NEW c \in old
               PROVE  /\ Around(c).from \in Nat /\ Around(c).to \in Nat
                      /\ Around(c).from <= w.from /\ Around(c).to <= w.to
    OBVIOUS
  <2>1. c \in 0 .. Duration - 1 /\ c < t
    OBVIOUS
  <2>2. Padding \in Nat /\ Duration \in Nat
    BY LengthsAssumption
  <2>3. /\ Around(c).from = IF c >= Padding THEN c - Padding ELSE 0
        /\ Around(c).to = IF c + Padding <= Duration THEN c + Padding ELSE Duration
    BY <2>1, AroundFacts
  <2>4. /\ w.from = IF t >= Padding THEN t - Padding ELSE 0
        /\ w.to = IF t + Padding <= Duration THEN t + Padding ELSE Duration
    BY AroundFacts
  <2> HIDE DEF w
  <2> QED BY <2>1, <2>2, <2>3, <2>4
<1>4. /\ \A j \in 1 .. n : ws[j].from < ws[j].to
      /\ \A j \in 1 .. n : \E c \in old : Wide(c) /\ ws[j].from = Around(c).from
      /\ \A j \in 1 .. n : \E c \in old : Wide(c) /\ ws[j].to = Around(c).to
      /\ \A j, k \in 1 .. n : j < k => ws[j].to < ws[k].from
      /\ \A c \in old : Wide(c) =>
            \E j \in 1 .. n : ws[j].from <= Around(c).from /\ Around(c).to <= ws[j].to
  BY DEF WindowsOf
<1>5. \A j \in 1 .. n : ws[j].from <= w.from /\ ws[j].to <= w.to
  BY <1>3, <1>4
<1>6. Wide(t) <=> w.from < w.to
  BY DEF Wide
<1> HIDE DEF x, w
<1>7. CASE w.to <= w.from /\ x = ws
  <2>1. ~Wide(t)
    BY <1>2, <1>6, <1>7
  <2>2. WindowsOf(ws, old \cup {t})
    BY <1>4, <2>1 DEF WindowsOf
  <2> QED BY <1>7, <2>2 DEF x
<1>8. CASE /\ w.from < w.to
           /\ n \in 1 .. n => w.from > ws[n].to
           /\ x = Append(ws, w)
  <2>1. Len(x) = n + 1 /\ x[n + 1] = w /\ \A j \in 1 .. n : x[j] = ws[j]
    BY <1>2, <1>8, AppendProperties
  <2>2. \A j \in 1 .. n + 1 : (j \in 1 .. n /\ x[j] = ws[j]) \/ (j = n + 1 /\ x[j] = w)
    BY <1>1, <2>1
  <2>3. Wide(t) /\ w = Around(t)
    BY <1>6, <1>8 DEF w
  <2> HIDE DEF n
  <2>4. \A j \in 1 .. n + 1 : x[j].from < x[j].to
    BY <1>4, <1>8, <2>2
  <2>5. \A j \in 1 .. n + 1 : \E c \in old \cup {t} : Wide(c) /\ x[j].from = Around(c).from
    BY <1>4, <2>2, <2>3
  <2>6. \A j \in 1 .. n + 1 : \E c \in old \cup {t} : Wide(c) /\ x[j].to = Around(c).to
    BY <1>4, <2>2, <2>3
  <2>7. ASSUME NEW j \in 1 .. n + 1, NEW k \in 1 .. n + 1, j < k PROVE x[j].to < x[k].from
    <3>1. j \in 1 .. n /\ x[j] = ws[j]
      BY <1>1, <2>2, <2>7
    <3>2. CASE k \in 1 .. n /\ x[k] = ws[k]
      BY <1>4, <2>7, <3>1, <3>2
    <3>3. CASE x[k] = w
      <4>1. n \in 1 .. n /\ w.from > ws[n].to
        BY <1>1, <1>8, <3>1
      <4>2. ws[j].to <= ws[n].to
        <5>1. CASE j = n
          BY <1>1, <4>1, <5>1
        <5>2. CASE j # n
          <6>1. j < n
            BY <1>1, <3>1, <5>2
          <6>2. ws[j].to < ws[n].from /\ ws[n].from < ws[n].to
            BY <1>4, <3>1, <4>1, <6>1
          <6> QED BY <1>1, <3>1, <4>1, <6>2
        <5> QED BY <5>1, <5>2
      <4> QED BY <1>1, <1>2, <3>1, <3>3, <4>1, <4>2
    <3> QED BY <2>2, <3>2, <3>3
  <2>8. ASSUME NEW c \in old \cup {t}, Wide(c)
        PROVE  \E j \in 1 .. n + 1 : x[j].from <= Around(c).from /\ Around(c).to <= x[j].to
    <3>1. CASE c = t
      <4>1. n + 1 \in 1 .. n + 1 /\ x[n + 1] = Around(c)
        BY <1>1, <2>1, <2>3, <3>1
      <4>2. Around(c).from <= Around(c).from /\ Around(c).to <= Around(c).to
        BY <1>2, <2>3, <3>1
      <4> QED BY <4>1, <4>2
    <3>2. CASE c \in old
      <4>1. PICK j \in 1 .. n : ws[j].from <= Around(c).from /\ Around(c).to <= ws[j].to
        BY <1>4, <2>8, <3>2
      <4>2. j \in 1 .. n + 1 /\ x[j] = ws[j]
        BY <1>1, <2>1
      <4> QED BY <4>1, <4>2
    <3> QED BY <3>1, <3>2
  <2>9. WindowsOf(x, old \cup {t})
    BY <2>1, <2>4, <2>5, <2>6, <2>7, <2>8 DEF WindowsOf
  <2> QED BY <2>9 DEF x
<1>9. CASE /\ w.from < w.to
           /\ n \in 1 .. n /\ w.from <= ws[n].to
           /\ Len(x) = n
           /\ \A j \in 1 .. n : j # n => x[j] = ws[j]
           /\ x[n] = [from |-> ws[n].from, to |-> IF ws[n].to >= w.to THEN ws[n].to ELSE w.to]
  <2>1. x[n].from = ws[n].from /\ x[n].to = w.to
    BY <1>1, <1>2, <1>5, <1>9
  <2>2. Wide(t) /\ w = Around(t)
    BY <1>6, <1>9 DEF w
  <2>3. \A j \in 1 .. n : x[j].from = ws[j].from /\ x[j].to = IF j = n THEN w.to ELSE ws[j].to
    BY <1>9, <2>1
  <2> HIDE DEF n
  <2>4. ASSUME NEW j \in 1 .. n PROVE x[j].from < x[j].to
    <3>1. ws[j].from < ws[j].to /\ ws[j].to <= w.to
      BY <1>4, <1>5
    <3>2. x[j].from = ws[j].from /\ (x[j].to = w.to \/ x[j].to = ws[j].to)
      BY <2>3
    <3> QED BY <1>1, <1>2, <3>1, <3>2
  <2>5. ASSUME NEW j \in 1 .. n
        PROVE  \E c \in old \cup {t} : Wide(c) /\ x[j].from = Around(c).from
    <3>1. PICK c \in old : Wide(c) /\ ws[j].from = Around(c).from
      BY <1>4
    <3>2. x[j].from = ws[j].from
      BY <2>3
    <3>3. c \in old \cup {t} /\ Wide(c) /\ x[j].from = Around(c).from
      BY <3>1, <3>2
    <3> QED BY <3>3, Zenon
  <2>6. ASSUME NEW j \in 1 .. n
        PROVE  \E c \in old \cup {t} : Wide(c) /\ x[j].to = Around(c).to
    <3>1. CASE j = n
      <4>1. t \in old \cup {t} /\ Wide(t) /\ x[j].to = Around(t).to
        BY <2>2, <2>3, <3>1
      <4> QED BY <4>1, Zenon
    <3>2. CASE j # n
      <4>1. PICK c \in old : Wide(c) /\ ws[j].to = Around(c).to
        BY <1>4
      <4>2. x[j].to = ws[j].to
        BY <2>3, <3>2
      <4>3. c \in old \cup {t} /\ Wide(c) /\ x[j].to = Around(c).to
        BY <4>1, <4>2
      <4> QED BY <4>3, Zenon
    <3> QED BY <3>1, <3>2
  <2>7. ASSUME NEW j \in 1 .. n, NEW k \in 1 .. n, j < k PROVE x[j].to < x[k].from
    <3>1. j # n
      BY <1>1, <2>7
    <3> QED BY <1>4, <2>3, <2>7, <3>1
  <2>8. ASSUME NEW c \in old \cup {t}, Wide(c)
        PROVE  \E j \in 1 .. n : x[j].from <= Around(c).from /\ Around(c).to <= x[j].to
    <3>1. CASE c = t
      <4>1. x[n].from <= Around(c).from /\ Around(c).to <= x[n].to
        BY <1>1, <1>2, <1>5, <1>9, <2>1, <2>2, <3>1
      <4> QED BY <1>9, <4>1
    <3>2. CASE c \in old
      <4>1. PICK j \in 1 .. n : ws[j].from <= Around(c).from /\ Around(c).to <= ws[j].to
        BY <1>4, <2>8, <3>2
      <4>2. x[j].from = ws[j].from /\ ws[j].to <= x[j].to
        BY <1>1, <1>2, <1>5, <2>3
      <4>3. Around(c).to <= x[j].to
        BY <1>1, <1>2, <1>3, <2>3, <3>2, <4>1, <4>2
      <4> QED BY <4>1, <4>2, <4>3
    <3> QED BY <3>1, <3>2
  <2>9. WindowsOf(x, old \cup {t})
    BY <1>9, <2>4, <2>5, <2>6, <2>7, <2>8 DEF WindowsOf, n
  <2> QED BY <2>9 DEF x
<1>10. \/ w.to <= w.from /\ x = ws
       \/ /\ w.from < w.to
          /\ n \in 1 .. n => w.from > ws[n].to
          /\ x = Append(ws, w)
       \/ /\ w.from < w.to
          /\ n \in 1 .. n /\ w.from <= ws[n].to
          /\ Len(x) = n
          /\ \A j \in 1 .. n : j # n => x[j] = ws[j]
          /\ x[n] = [from |-> ws[n].from, to |-> IF ws[n].to >= w.to THEN ws[n].to ELSE w.to]
  BY JoinCases DEF x, w
<1> QED BY <1>7, <1>8, <1>9, <1>10

\* _merge_candidate_windows.
LEMMA MergedFacts ==
    ASSUME NEW times \in SUBSET (0 .. Duration - 1)
    PROVE  /\ MergeCandidateWindows(times) \in Seq(Window)
           /\ WindowsOf(MergeCandidateWindows(times), times)
<1> DEFINE A == Seq(Window)
           T == {p \in (SUBSET times) \X A : WindowsOf(p[2], p[1])}
<1>1. times \in SUBSET Nat /\ IsFiniteSet(times) /\ times \in SUBSET Time
  <2>1. Duration \in Nat /\ times \in SUBSET Nat /\ \A t \in times : t <= Duration
    BY LengthsAssumption
  <2>2. times \in SUBSET Time
    BY LengthsAssumption DEF Time
  <2> QED BY <2>1, <2>2, FS_BoundedSetOfNaturals
<1>2. StepsIn(Join, times, A)
  BY JoinCases DEF StepsIn
<1>3. <<>> \in A /\ <<{}, <<>>>> \in T
  <2>1. <<>> \in A /\ Len(<<>>) = 0
    BY EmptySeq
  <2>2. WindowsOf(<<>>, {})
    BY <2>1 DEF WindowsOf
  <2> HIDE DEF A
  <2> QED BY <2>1, <2>2
<1>4. AscentKeeps(T, times, A, Join)
  <2> SUFFICES ASSUME NEW old \in SUBSET times, NEW t \in times, NEW ws \in A,
                      \A u \in old : u < t, <<old, ws>> \in T
               PROVE  <<old \cup {t}, Join[t][ws]>> \in T
    BY DEF AscentKeeps
  <2>1. WindowsOf(ws, old)
    OBVIOUS
  <2>2. WindowsOf(Join[t][ws], old \cup {t})
    <3>1. t \in 0 .. Duration - 1 /\ old \in SUBSET (0 .. Duration - 1)
      OBVIOUS
    <3> QED BY <2>1, <3>1, JoinKeepsWindows
  <2>3. Join[t][ws] \in A
    BY JoinCases
  <2> HIDE DEF A
  <2> QED BY <2>2, <2>3
<1>5. LET last == Folded(InOrder(times, {p \in times \X times : p[1] < p[2]}), <<>>, Join)
      IN  last \in A /\ <<times, last>> \in T
  <2> HIDE DEF A, T
  <2> QED BY <1>1, <1>2, <1>3, <1>4, AscendingInduction
<1> QED BY <1>5 DEF MergeCandidateWindows

-----------------------------------------------------------------------------
(* The scan: searches. *)

Passes(t, threshold) == Classify(film[t], threshold).passed

Gap(b) == IF b.safe >= b.bad THEN b.safe - b.bad ELSE b.bad - b.safe

\* One turn: nothing, or a readable frame between the bounds becomes one.
LEMMA HalveCases ==
    ASSUME NEW threshold \in Nat, NEW b \in Bounds
    PROVE  \/ /\ Halve[threshold][b] = b
              /\ Gap(b) <= Precision \/ \E t \in 0 .. Duration - 1 : ~Readable(t)
           \/ \E p \in 0 .. Duration - 1 :
                 /\ Readable(p) /\ Gap(b) > Precision
                 /\ (b.safe < p /\ p < b.bad) \/ (b.bad < p /\ p < b.safe)
                 /\ \/ Passes(p, threshold) /\ Halve[threshold][b] = [safe |-> b.safe, bad |-> p]
                    \/ ~Passes(p, threshold) /\ Halve[threshold][b] = [safe |-> p, bad |-> b.bad]
<1> DEFINE middle == (b.safe + b.bad) \div 2
           probe == Clamped(middle)
           x == Halve[threshold][b]
<1>1. /\ b.safe \in Nat /\ b.bad \in Nat /\ b.safe <= Duration /\ b.bad <= Duration
      /\ Duration \in Nat /\ Precision \in Nat /\ Precision > 0
  BY LengthsAssumption DEF Bounds, Time
<1>2. Max({b.safe, b.bad}) - Min({b.safe, b.bad}) = Gap(b)
  <2> DEFINE i == b.safe
             j == b.bad
  <2>1. i \in Int /\ j \in Int
    BY <1>1
  <2>2. Gap(b) = IF i >= j THEN i - j ELSE j - i
    BY DEF Gap
  <2> HIDE DEF i, j
  <2>3. Max({i, j}) = IF i >= j THEN i ELSE j
    BY <2>1, MaxOfTwo
  <2>4. Min({i, j}) = IF i <= j THEN i ELSE j
    BY <2>1, MinOfTwo
  <2>5. Max({i, j}) - Min({i, j}) = Gap(b)
    BY <2>1, <2>2, <2>3, <2>4
  <2> QED BY <2>5 DEF i, j
<1>3. x = IF Gap(b) <= Precision \/ ~Readable(probe) THEN b
          ELSE IF Passes(probe, threshold) THEN [b EXCEPT !.bad = probe]
          ELSE [b EXCEPT !.safe = probe]
  BY <1>2 DEF Halve, Passes
<1>4. middle \in Time
  BY <1>1 DEF Time
<1>5. probe \in 0 .. Duration - 1 /\ (middle < Duration => probe = middle)
  <2>1. middle < Duration => middle # Duration
    BY <1>1
  <2> HIDE DEF middle
  <2> QED BY <1>4, <2>1, ClampedFacts
<1>6. ASSUME Gap(b) > Precision
      PROVE  /\ middle < Duration
             /\ (b.safe < middle /\ middle < b.bad) \/ (b.bad < middle /\ middle < b.safe)
  BY <1>1, <1>6 DEF Gap
<1>7. Gap(b) \in Nat
  BY <1>1 DEF Gap
<1>8. b = [safe |-> b.safe, bad |-> b.bad]
  BY DEF Bounds
<1>9. /\ [b EXCEPT !.bad = probe] = [safe |-> b.safe, bad |-> probe]
      /\ [b EXCEPT !.safe = probe] = [safe |-> probe, bad |-> b.bad]
  <2> HIDE DEF probe
  <2> QED BY <1>8
<1> HIDE DEF x, probe, middle
<1>10. CASE Gap(b) <= Precision \/ ~Readable(probe)
  BY <1>3, <1>5, <1>10 DEF x
<1>11. CASE ~(Gap(b) <= Precision \/ ~Readable(probe))
  <2>1. Readable(probe) /\ Gap(b) > Precision
    BY <1>1, <1>7, <1>11
  <2>2. (b.safe < probe /\ probe < b.bad) \/ (b.bad < probe /\ probe < b.safe)
    BY <1>5, <1>6, <2>1
  <2>3. \/ Passes(probe, threshold) /\ x = [safe |-> b.safe, bad |-> probe]
        \/ ~Passes(probe, threshold) /\ x = [safe |-> probe, bad |-> b.bad]
    BY <1>3, <1>9, <1>11
  <2> QED BY <1>5, <2>1, <2>2, <2>3 DEF x
<1> QED BY <1>10, <1>11

\* The bounds after i turns of the search from a bad time known towards end.
SearchedTo(i, b, known, threshold, end) ==
    /\ \/ end <= b.safe /\ b.safe <= b.bad /\ b.bad <= known
       \/ known <= b.bad /\ b.bad <= b.safe /\ b.safe <= end
    /\ known # end => b.bad # b.safe
    /\ b.bad # known => b.bad \in 0 .. Duration - 1 /\ Readable(b.bad) /\ Passes(b.bad, threshold)
    /\ b.safe # end => b.safe \in 0 .. Duration - 1 /\ Readable(b.safe) /\ ~Passes(b.safe, threshold)
    /\ (\A t \in 0 .. Duration - 1 : Readable(t)) => Gap(b) <= Precision \/ Gap(b) <= Duration - i

LEMMA HalveKeeps ==
    ASSUME NEW threshold \in Nat, NEW b \in Bounds, NEW known \in Time, NEW end \in Time,
           NEW i \in Nat, SearchedTo(i, b, known, threshold, end)
    PROVE  /\ Halve[threshold][b] \in Bounds
           /\ SearchedTo(i + 1, Halve[threshold][b], known, threshold, end)
<1> DEFINE x == Halve[threshold][b]
<1>1. /\ b.safe \in Nat /\ b.bad \in Nat /\ b.safe \in Time /\ b.bad \in Time
      /\ Duration \in Nat /\ Precision \in Nat /\ Precision > 0 /\ known \in Nat /\ end \in Nat
  BY LengthsAssumption DEF Bounds, Time
<1>2. \A t \in 0 .. Duration - 1 : t \in Time /\ t \in Nat
  BY <1>1 DEF Time
<1>3. CASE /\ x = b
           /\ Gap(b) <= Precision \/ \E t \in 0 .. Duration - 1 : ~Readable(t)
  <2> HIDE DEF x
  <2>1. SearchedTo(i + 1, b, known, threshold, end)
    BY <1>3 DEF SearchedTo
  <2> QED BY <1>3, <2>1 DEF x
<1>4. ASSUME NEW p \in 0 .. Duration - 1,
             Readable(p), Gap(b) > Precision,
             (b.safe < p /\ p < b.bad) \/ (b.bad < p /\ p < b.safe),
             \/ Passes(p, threshold) /\ x = [safe |-> b.safe, bad |-> p]
             \/ ~Passes(p, threshold) /\ x = [safe |-> p, bad |-> b.bad]
      PROVE  x \in Bounds /\ SearchedTo(i + 1, x, known, threshold, end)
  <2>1. p \in Nat /\ p \in Time
    BY <1>2
  <2> HIDE DEF x
  <2>2. x \in Bounds
    BY <1>1, <1>4, <2>1 DEF Bounds
  <2>3. \/ x.safe = b.safe /\ x.bad = p /\ Passes(p, threshold)
        \/ x.safe = p /\ x.bad = b.bad /\ ~Passes(p, threshold)
    BY <1>4
  <2>4. /\ \/ end <= b.safe /\ b.safe <= b.bad /\ b.bad <= known
           \/ known <= b.bad /\ b.bad <= b.safe /\ b.safe <= end
        /\ b.bad # known => /\ b.bad \in 0 .. Duration - 1 /\ Readable(b.bad)
                            /\ Passes(b.bad, threshold)
        /\ b.safe # end => /\ b.safe \in 0 .. Duration - 1 /\ Readable(b.safe)
                           /\ ~Passes(b.safe, threshold)
        /\ (\A t \in 0 .. Duration - 1 : Readable(t)) =>
              Gap(b) <= Precision \/ Gap(b) <= Duration - i
    BY DEF SearchedTo
  <2>5. \/ end <= x.safe /\ x.safe <= x.bad /\ x.bad <= known
        \/ known <= x.bad /\ x.bad <= x.safe /\ x.safe <= end
    BY <1>1, <1>4, <2>1, <2>3, <2>4
  <2>6. x.bad # x.safe
    BY <1>1, <1>4, <2>1, <2>3
  <2>7. x.bad # known => /\ x.bad \in 0 .. Duration - 1 /\ Readable(x.bad)
                         /\ Passes(x.bad, threshold)
    BY <1>4, <2>3, <2>4
  <2>8. x.safe # end => /\ x.safe \in 0 .. Duration - 1 /\ Readable(x.safe)
                        /\ ~Passes(x.safe, threshold)
    BY <1>4, <2>3, <2>4
  <2>9. Gap(x) < Gap(b) /\ Gap(x) \in Nat /\ Gap(b) \in Nat
    BY <1>1, <1>4, <2>1, <2>3 DEF Gap
  <2>10. (\A t \in 0 .. Duration - 1 : Readable(t)) => Gap(x) <= Duration - (i + 1)
    BY <1>1, <1>4, <2>4, <2>9
  <2> QED BY <2>2, <2>5, <2>6, <2>7, <2>8, <2>10 DEF SearchedTo
<1>5. \/ /\ x = b
         /\ Gap(b) <= Precision \/ \E t \in 0 .. Duration - 1 : ~Readable(t)
      \/ \E p \in 0 .. Duration - 1 :
            /\ Readable(p) /\ Gap(b) > Precision
            /\ (b.safe < p /\ p < b.bad) \/ (b.bad < p /\ p < b.safe)
            /\ \/ Passes(p, threshold) /\ x = [safe |-> b.safe, bad |-> p]
               \/ ~Passes(p, threshold) /\ x = [safe |-> p, bad |-> b.bad]
  BY HalveCases
<1> HIDE DEF x
<1>6. x \in Bounds /\ SearchedTo(i + 1, x, known, threshold, end)
  <2>1. CASE /\ x = b
             /\ Gap(b) <= Precision \/ \E t \in 0 .. Duration - 1 : ~Readable(t)
    BY <1>3, <2>1 DEF x
  <2>2. CASE \E p \in 0 .. Duration - 1 :
            /\ Readable(p) /\ Gap(b) > Precision
            /\ (b.safe < p /\ p < b.bad) \/ (b.bad < p /\ p < b.safe)
            /\ \/ Passes(p, threshold) /\ x = [safe |-> b.safe, bad |-> p]
               \/ ~Passes(p, threshold) /\ x = [safe |-> p, bad |-> b.bad]
    BY <1>4, <2>2
  <2> QED BY <1>5, <2>1, <2>2
<1> QED BY <1>6 DEF x

\* _binary_search_boundary.
LEMMA SearchFacts ==
    ASSUME NEW threshold \in Nat, NEW w \in Window, NEW known \in w.from .. w.to,
           NEW end \in {w.from, w.to}
    PROVE  /\ Search(known, threshold, w, end) \in Bounds
           /\ SearchedTo(Duration, Search(known, threshold, w, end), known, threshold, end)
<1> DEFINE s == [turn \in 1 .. Duration |-> threshold]
           base == [safe |-> end, bad |-> known]
           T == {p \in Nat \X Bounds : SearchedTo(p[1], p[2], known, threshold, end)}
<1>1. /\ w.from \in Nat /\ w.to \in Nat /\ Duration \in Nat /\ known \in Nat
      /\ w.to <= Duration /\ end \in Time /\ known \in Time /\ end \in Nat /\ end <= Duration
      /\ known <= Duration
  BY WindowFacts, LengthsAssumption DEF Time
<1>2. Max({w.from, Min({known, w.to})}) = known
  <2>1. Min({known, w.to}) = known
    <3> DEFINE j == w.to
    <3>1. j \in Int /\ known \in Int /\ known <= j
      BY <1>1
    <3> HIDE DEF j
    <3> QED BY <3>1, MinOfTwo DEF j
  <2>2. Max({w.from, known}) = known
    <3> DEFINE j == w.from
    <3>1. j \in Int /\ known \in Int /\ j <= known
      BY <1>1
    <3> HIDE DEF j
    <3>2. Max({j, known}) = IF j >= known THEN j ELSE known
      BY <3>1, MaxOfTwo
    <3>3. Max({j, known}) = known
      BY <3>1, <3>2
    <3> QED BY <3>3 DEF j
  <2> QED BY <2>1, <2>2
<1>3. Search(known, threshold, w, end) = Folded(s, base, Halve)
  BY <1>2 DEF Search
<1>4. s \in Seq({threshold}) /\ Len(s) = Duration /\ \A i \in 1 .. Duration : s[i] = threshold
  BY <1>1
<1>5. base \in Bounds
  BY <1>1 DEF Bounds
<1>6. <<0, base>> \in T
  <2>1. base.safe = end /\ base.bad = known /\ (end <= known \/ known <= end)
    BY <1>1
  <2>2. Gap(base) <= Duration - 0
    BY <1>1 DEF Gap
  <2>3. base.safe = end /\ base.bad = known
    OBVIOUS
  <2> HIDE DEF base
  <2>4. SearchedTo(0, base, known, threshold, end)
    BY <1>1, <2>1, <2>2, <2>3 DEF SearchedTo
  <2> QED BY <1>5, <2>4
<1>7. \A i \in Nat, b \in Bounds :
         SearchedTo(i, b, known, threshold, end) =>
            SearchedTo(i + 1, Halve[threshold][b], known, threshold, end)
  BY <1>1, HalveKeeps
<1>8. \A b \in Bounds : Halve[threshold][b] \in Bounds
  <2> SUFFICES ASSUME NEW b \in Bounds PROVE Halve[threshold][b] \in Bounds
    OBVIOUS
  <2> DEFINE x == Halve[threshold][b]
  <2>1. x = b \/ \E p \in 0 .. Duration - 1 : \/ x = [safe |-> b.safe, bad |-> p]
                                               \/ x = [safe |-> p, bad |-> b.bad]
    BY HalveCases
  <2>2. \A t \in 0 .. Duration - 1 : t \in Time
    BY <1>1 DEF Time
  <2> HIDE DEF x
  <2>3. x \in Bounds
    BY <2>1, <2>2 DEF Bounds
  <2> QED BY <2>3 DEF x
<1> HIDE DEF s, base
<1>9. StepsIn(Halve, {threshold}, Bounds)
  BY <1>8 DEF StepsIn
<1>10. FoldKeeps(T, s, Bounds, Halve)
  <2> SUFFICES ASSUME NEW i \in 1 .. Len(s), NEW b \in Bounds, <<i - 1, b>> \in T
               PROVE  <<i, Halve[s[i]][b]>> \in T
    BY DEF FoldKeeps
  <2>1. i - 1 \in Nat /\ (i - 1) + 1 = i /\ i \in Nat /\ s[i] = threshold
    BY <1>1, <1>4
  <2>2. SearchedTo(i - 1, b, known, threshold, end)
    OBVIOUS
  <2>3. SearchedTo((i - 1) + 1, Halve[threshold][b], known, threshold, end)
    BY <1>7, <2>1, <2>2
  <2> QED BY <1>8, <2>1, <2>3
<1>11. Folded(s, base, Halve) \in Bounds /\ <<Len(s), Folded(s, base, Halve)>> \in T
  <2> HIDE DEF T
  <2> QED BY <1>4, <1>5, <1>6, <1>9, <1>10, FoldedInduction
<1> QED BY <1>3, <1>4, <1>11

-----------------------------------------------------------------------------
(* The scan: what a window gives. *)

\* The padding is a multiple of the scan interval, as with the defaults of the
\* analyzer, where both are five seconds: a window ends at a frame of the broad
\* scan, or with the film.
PaddingFits == Padding % ScanInterval = 0

\* What passes is suspicious, as with the defaults (0.25 below 0.75 and 0.8).
CandidatesPass == Candidate <= LiveThreshold /\ Candidate <= CartoonThreshold

\* The windows of the whole film.
AllWindows == MergeCandidateWindows(CandidateTimes)

Positives(w) == {t \in DenseSamples(w) : Verdict(t).passed}
Edges(w) == {t \in DenseSamples(w) : Verdict(t).boundary}

\* A frame of the broad scan that counts for an end is a candidate.
LEMMA CandidateFacts ==
    ASSUME FilmIsSound
    PROVE  /\ CandidateTimes \in SUBSET (0 .. Duration - 1)
           /\ AllWindows \in Seq(Window) /\ WindowsOf(AllWindows, CandidateTimes)
           /\ CandidatesPass =>
                 \A t \in 0 .. Duration - 1 :
                    Readable(t) /\ t % ScanInterval = 0 /\ Verdict(t).boundary => t \in CandidateTimes
<1>1. CandidateTimes \in SUBSET (0 .. Duration - 1)
  BY BroadFacts DEF CandidateTimes
<1>2. AllWindows \in Seq(Window) /\ WindowsOf(AllWindows, CandidateTimes)
  BY <1>1, MergedFacts DEF AllWindows
<1>3. ASSUME CandidatesPass, NEW t \in 0 .. Duration - 1,
             Readable(t), t % ScanInterval = 0, Verdict(t).boundary
      PROVE  t \in CandidateTimes
  <2>1. t \in BroadSamples
    BY <1>3, BroadFacts
  <2>2. Verdict(t).score >= ThresholdOf(film[t]) /\ Verdict(t).score \in Nat
    BY <1>3, VerdictFacts
  <2>3. ThresholdOf(film[t]) \in Nat /\ Candidate \in Nat /\ Candidate <= ThresholdOf(film[t])
    BY <1>3, ThresholdsAssumption DEF CandidatesPass, ThresholdOf
  <2>4. Verdict(t).score >= Candidate
    <3> DEFINE a == Verdict(t).score
               h == ThresholdOf(film[t])
    <3>1. a >= h /\ a \in Nat /\ h \in Nat /\ Candidate \in Nat /\ Candidate <= h
      BY <2>2, <2>3
    <3> HIDE DEF a, h
    <3>2. a >= Candidate
      BY <3>1
    <3> QED BY <3>2 DEF a
  <2> QED BY <2>1, <2>4 DEF CandidateTimes
<1> QED BY <1>1, <1>2, <1>3

\* The last frame of a window that counts for an end is before the window's.
LEMMA EdgesBeforeEnd ==
    ASSUME FilmIsSound, PaddingFits, CandidatesPass, NEW w \in Range(AllWindows),
           NEW t \in Edges(w)
    PROVE  w.from <= t /\ t < w.to
<1> DEFINE ws == AllWindows
           n == Len(ws)
<1>1. /\ ws \in Seq(Window) /\ WindowsOf(ws, CandidateTimes)
      /\ CandidateTimes \in SUBSET (0 .. Duration - 1)
  BY CandidateFacts
<1>2. PICK i \in 1 .. n : w = ws[i]
  BY <1>1 DEF Range
<1>3. n \in Nat /\ \A j \in 1 .. n : ws[j] \in Window
  BY <1>1, LenProperties, ElementOfSeq
<1>4. w \in Window /\ w.from < w.to
  BY <1>1, <1>2, <1>3 DEF WindowsOf
<1>5. t \in DenseSamples(w) /\ Verdict(t).boundary
  BY DEF Edges
<1>6. t \in 0 .. Duration - 1 /\ Readable(t) /\ w.from <= t /\ t <= w.to
  BY <1>4, <1>5, DenseFacts
<1>7. w.from \in Nat /\ w.to \in Nat /\ w.to <= Duration
  BY <1>4, WindowFacts
<1>8. SUFFICES ASSUME t = w.to PROVE FALSE
  BY <1>6, <1>7
<1> DEFINE W(c) == Around(c)
<1>9. PICK c \in CandidateTimes : Wide(c) /\ w.to = W(c).to
  BY <1>1, <1>2 DEF WindowsOf
<1>10. c \in 0 .. Duration - 1
  BY <1>1, <1>9
<1>11. Duration \in Nat /\ Padding \in Nat /\ ScanInterval \in Nat \ {0}
  BY LengthsAssumption
<1>12. t = c + Padding /\ Padding > 0
  <2>1. W(c).to = IF c + Padding <= Duration THEN c + Padding ELSE Duration
    BY <1>10, AroundFacts
  <2>2. W(c).from = IF c >= Padding THEN c - Padding ELSE 0
    BY <1>10, AroundFacts
  <2>3. W(c).from < W(c).to
    BY <1>9 DEF Wide
  <2>4. t < Duration
    BY <1>6, <1>11
  <2> HIDE DEF W
  <2> QED BY <1>6, <1>8, <1>9, <1>10, <1>11, <2>1, <2>2, <2>3, <2>4
<1>13. t % ScanInterval = 0
  <2>1. c % ScanInterval = 0
    <3>1. c \in BroadSamples
      BY <1>9 DEF CandidateTimes
    <3> QED BY <1>10, <3>1, BroadFacts
  <2>2. (c + Padding) % ScanInterval = 0
    <3>1. c \in Nat /\ Padding % ScanInterval = 0
      BY <1>10 DEF PaddingFits
    <3> QED BY <1>11, <2>1, <3>1, MultipleSum
  <2> QED BY <1>12, <2>2
<1>14. t \in CandidateTimes
  BY <1>5, <1>6, <1>13, CandidateFacts
<1>15. /\ W(t).from = IF t >= Padding THEN t - Padding ELSE 0
       /\ W(t).to = IF t + Padding <= Duration THEN t + Padding ELSE Duration
  BY <1>6, AroundFacts
<1>16. Wide(t) /\ W(t).from <= t /\ W(t).to > t /\ W(t).from \in Nat /\ W(t).to \in Nat
  <2> DEFINE a == W(t).from
             b == W(t).to
  <2> HIDE DEF W
  <2>1. a < b /\ a <= t /\ b > t /\ a \in Nat /\ b \in Nat
    BY <1>6, <1>11, <1>12, <1>15
  <2> QED BY <2>1 DEF W, Wide
<1>17. PICK j \in 1 .. n : ws[j].from <= W(t).from /\ W(t).to <= ws[j].to
  BY <1>1, <1>14, <1>16 DEF WindowsOf
<1>18. ws[j].from \in Nat /\ ws[j].to \in Nat
  BY <1>3, WindowFacts
<1> HIDE DEF W
<1>19. ws[j].from <= t /\ t < ws[j].to
  BY <1>6, <1>16, <1>17, <1>18
<1>20. j # i
  BY <1>2, <1>6, <1>8, <1>18, <1>19
<1>21. \A k, l \in 1 .. n : k < l => ws[k].to < ws[l].from
  BY <1>1 DEF WindowsOf
<1> HIDE DEF ws, n
<1>22. j < i \/ i < j
  BY <1>3, <1>20
<1>23. CASE j < i
  <2>1. ws[j].to < w.from
    BY <1>2, <1>21, <1>23
  <2> QED BY <1>6, <1>7, <1>18, <1>19, <2>1
<1>24. CASE i < j
  <2>1. w.to < ws[j].from
    BY <1>2, <1>21, <1>24
  <2> QED BY <1>7, <1>8, <1>18, <1>19, <2>1
<1> QED BY <1>22, <1>23, <1>24

\* The windows, one by one.
LEMMA AllWindowFacts ==
    ASSUME FilmIsSound, NEW w \in Range(AllWindows)
    PROVE  w \in Window /\ w.from < w.to /\ w.from \in Nat /\ w.to \in Nat /\ w.to <= Duration
<1>1. AllWindows \in Seq(Window) /\ WindowsOf(AllWindows, CandidateTimes)
  BY CandidateFacts
<1>2. PICK i \in 1 .. Len(AllWindows) : w = AllWindows[i]
  BY <1>1 DEF Range
<1>3. w \in Window /\ w.from < w.to
  BY <1>1, <1>2, ElementOfSeq DEF WindowsOf
<1> QED BY <1>3, WindowFacts

\* What passes in a window counts for its ends, and some does when the window
\* is confirmed.
LEMMA EdgeFacts ==
    ASSUME FilmIsSound, NEW w \in Range(AllWindows)
    PROVE  /\ Positives(w) \in SUBSET Edges(w)
           /\ Edges(w) \in SUBSET (0 .. Duration - 1)
           /\ \A t \in Edges(w) : Readable(t) /\ Verdict(t).boundary
           /\ Confirmed(w) => Positives(w) # {}
<1>1. w \in Window /\ w.from < w.to
  BY AllWindowFacts
<1>2. /\ DenseSamples(w) \in SUBSET (0 .. Duration - 1)
      /\ \A t \in DenseSamples(w) : Readable(t)
      /\ \A s \in DenseTimestamps(w) : Readable(Clamped(s)) => Clamped(s) \in DenseSamples(w)
  BY <1>1, DenseFacts
<1>3. Positives(w) \in SUBSET Edges(w)
  BY <1>2, VerdictFacts DEF Positives, Edges
<1>4. ASSUME Confirmed(w) PROVE Positives(w) # {}
  <2> DEFINE P == {t \in DenseTimestamps(w) :
                      Readable(Clamped(t)) /\ Verdict(Clamped(t)).passed}
  <2>1. Cardinality(P) >= MinPositive
    BY <1>4 DEF Confirmed
  <2>2. MinPositive \in Nat \ {0} /\ Cardinality({}) = 0
    BY ThresholdsAssumption, FS_EmptySet
  <2>3. P # {}
    <3> HIDE DEF P
    <3> QED BY <2>1, <2>2
  <2>4. PICK t \in DenseTimestamps(w) : Readable(Clamped(t)) /\ Verdict(Clamped(t)).passed
    BY <2>3
  <2> QED BY <1>2, <2>4 DEF Positives
<1> QED BY <1>2, <1>3, <1>4 DEF Edges

\* How the searches from the first and the last edge ended.
Searched(w, first, last, back, forth) ==
    /\ first \in Edges(w) /\ last \in Edges(w) /\ \A t \in Edges(w) : first <= t /\ t <= last
    /\ back \in Bounds /\ SearchedTo(Duration, back, first, ThresholdOf(film[first]), w.from)
    /\ forth \in Bounds /\ SearchedTo(Duration, forth, last, ThresholdOf(film[last]), w.to)
    /\ w.from <= back.bad /\ back.bad <= first /\ last <= forth.safe /\ forth.safe <= w.to

\* The searches enclose all that counts.
Ended(w, first, last, back, forth) ==
    Searched(w, first, last, back, forth) /\ last < forth.safe

\* _build_dense_window_detection: the span is between what the searches found,
\* unless that is nothing.
LEMMA SearchesFacts ==
    ASSUME FilmIsSound, NEW w \in Range(AllWindows), Confirmed(w)
    PROVE  \E first, last, back, forth :
              /\ Searched(w, first, last, back, forth)
              /\ last < w.to => last < forth.safe
              /\ back.bad < forth.safe =>
                    DenseDetection(w) =
                       [positives |-> Positives(w), window |-> w,
                        span |-> [from |-> back.bad, to |-> forth.safe]]
<1> DEFINE first == Min(Edges(w))
           last == Max(Edges(w))
           back == Search(first, ThresholdOf(film[first]), w, w.from)
           forth == Search(last, ThresholdOf(film[last]), w, w.to)
<1>1. w \in Window /\ w.from < w.to /\ w.from \in Nat /\ w.to \in Nat /\ w.to <= Duration
  BY AllWindowFacts
<1>2. /\ Positives(w) \in SUBSET Edges(w) /\ Positives(w) # {}
      /\ Edges(w) \in SUBSET (0 .. Duration - 1) /\ Duration - 1 \in Nat
      /\ \A t \in Edges(w) : w.from <= t /\ t <= w.to
  BY <1>1, EdgeFacts, DenseFacts, LengthsAssumption DEF Edges
<1>3. first \in Edges(w) /\ last \in Edges(w) /\ \A t \in Edges(w) : first <= t /\ t <= last
  <2> DEFINE E == Edges(w)
  <2>1. E # {} /\ E \in SUBSET Nat /\ E \in SUBSET (0 .. Duration - 1) /\ Duration - 1 \in Nat
    BY <1>2
  <2> HIDE DEF E
  <2>2. Min(E) \in E /\ \A t \in E : Min(E) <= t
    BY <2>1, LeastOfSome
  <2>3. Max(E) \in E /\ \A t \in E : t <= Max(E)
    BY <2>1, GreatestOfSome
  <2> QED BY <2>2, <2>3 DEF E
<1> HIDE DEF first, last
<1>4. /\ first \in 0 .. Duration - 1 /\ last \in 0 .. Duration - 1
      /\ first \in w.from .. w.to /\ last \in w.from .. w.to
  BY <1>1, <1>2, <1>3
<1>5. ThresholdOf(film[first]) \in Nat /\ ThresholdOf(film[last]) \in Nat
  BY ThresholdsAssumption DEF ThresholdOf
<1>6. /\ back \in Bounds /\ SearchedTo(Duration, back, first, ThresholdOf(film[first]), w.from)
      /\ forth \in Bounds /\ SearchedTo(Duration, forth, last, ThresholdOf(film[last]), w.to)
  BY <1>1, <1>4, <1>5, SearchFacts
<1>7. /\ Boundary(first, ThresholdOf(film[first]), w, TRUE) = back.bad
      /\ Boundary(last, ThresholdOf(film[last]), w, FALSE) = forth.safe
  BY DEF Boundary
<1> HIDE DEF back, forth
<1>8. /\ back.bad \in Nat /\ back.safe \in Nat /\ forth.bad \in Nat /\ forth.safe \in Nat
      /\ first \in Nat /\ last \in Nat
  BY <1>4, <1>6, LengthsAssumption DEF Bounds, Time
<1>9. w.from <= back.bad /\ back.bad <= first
  BY <1>1, <1>4, <1>6, <1>8 DEF SearchedTo
<1>10. /\ last <= forth.safe /\ forth.safe <= w.to
       /\ last < w.to => last < forth.safe
  BY <1>1, <1>4, <1>6, <1>8 DEF SearchedTo
<1>11. Searched(w, first, last, back, forth)
  BY <1>3, <1>6, <1>9, <1>10 DEF Searched
<1>12. ASSUME back.bad < forth.safe
       PROVE  DenseDetection(w) =
                 [positives |-> Positives(w), window |-> w,
                  span |-> [from |-> back.bad, to |-> forth.safe]]
  <2>1. ~(forth.safe <= back.bad)
    BY <1>8, <1>12
  <2> QED BY <1>7, <2>1 DEF DenseDetection, Positives, Edges, first, last
<1> QED BY <1>10, <1>11, <1>12

\* No edge is at the end of its window, so the span holds them all.
LEMMA DetectionFacts ==
    ASSUME FilmIsSound, PaddingFits, CandidatesPass, NEW w \in Range(AllWindows), Confirmed(w)
    PROVE  \E first, last, back, forth :
              /\ Ended(w, first, last, back, forth)
              /\ DenseDetection(w) =
                    [positives |-> Positives(w), window |-> w,
                     span |-> [from |-> back.bad, to |-> forth.safe]]
<1>1. PICK first, last, back, forth :
         /\ Searched(w, first, last, back, forth)
         /\ last < w.to => last < forth.safe
         /\ back.bad < forth.safe =>
               DenseDetection(w) =
                  [positives |-> Positives(w), window |-> w,
                   span |-> [from |-> back.bad, to |-> forth.safe]]
  BY SearchesFacts
<1>2. /\ first \in Edges(w) /\ last \in Edges(w) /\ Edges(w) \in SUBSET (0 .. Duration - 1)
      /\ first <= last /\ back.bad <= first /\ last < w.to
      /\ back \in Bounds /\ forth \in Bounds
  BY <1>1, EdgeFacts, EdgesBeforeEnd DEF Searched
<1>3. Ended(w, first, last, back, forth)
  BY <1>1, <1>2 DEF Ended
<1>4. back.bad < forth.safe
  <2> DEFINE b == back.bad
             s == forth.safe
  <2>1. /\ b \in Nat /\ s \in Nat /\ first \in Nat /\ last \in Nat
        /\ b <= first /\ first <= last /\ last < s
    BY <1>2, <1>3, LengthsAssumption DEF Ended, Bounds, Time
  <2> HIDE DEF b, s
  <2>2. b < s
    BY <2>1
  <2> QED BY <2>2 DEF b, s
<1> QED BY <1>1, <1>3, <1>4

-----------------------------------------------------------------------------
(* The scan: segments. *)

LEMMA ProductGrows ==
    ASSUME NEW n \in Nat, NEW i \in Nat, NEW j \in Nat, i <= j PROVE n * i <= n * j
<1>1. PICK d \in Nat : j = i + d
  <2>1. j - i \in Nat /\ j = i + (j - i)
    OBVIOUS
  <2> QED BY <2>1
<1>2. n * j = n * i + n * d
  BY <1>1
<1>3. n * d \in Nat /\ n * i \in Nat
  OBVIOUS
<1> QED BY <1>2, <1>3

\* Every moment of the film is in a bucket.
LEMMA BucketFacts ==
    ASSUME NEW a \in 0 .. Duration - 1
    PROVE  \E b \in 1 .. NumBuckets :
              /\ BucketStart(b) \in Nat /\ BucketEnd(b) \in Nat
              /\ BucketStart(b) <= a /\ a < BucketEnd(b)
              /\ a < b * FrameInterval
<1> DEFINE n == FrameInterval
           q == a \div n
           r == a % n
           most == Duration + n - 1
           k == most \div n
           rest == most % n
<1>1. n \in Nat /\ n > 0 /\ Duration \in Nat /\ a \in Nat /\ a < Duration /\ most \in Nat
  BY LengthsAssumption
<1> HIDE DEF n
<1>2. a = n * q + r /\ q \in Nat /\ r \in 0 .. n - 1
  <2>1. a = n * (a \div n) + (a % n)
    BY <1>1, Division
  <2>2. a \div n \in Nat /\ a % n \in 0 .. n - 1
    BY <1>1
  <2> QED BY <2>1, <2>2
<1>3. most = n * k + rest /\ k \in Nat /\ rest \in 0 .. n - 1
  <2> HIDE DEF most
  <2>1. most = n * (most \div n) + (most % n)
    BY <1>1, Division
  <2>2. most \div n \in Nat /\ most % n \in 0 .. n - 1
    BY <1>1
  <2> QED BY <2>1, <2>2
<1>4. NumBuckets = IF 1 >= k THEN 1 ELSE k
  <2>1. NumBuckets = Max({1, k})
    BY DEF NumBuckets, n
  <2>2. k \in Int
    BY <1>3
  <2> HIDE DEF k
  <2> QED BY <2>1, <2>2, MaxOfTwo
<1> HIDE DEF q, r, k, rest
<1>5. n * q \in Nat /\ n * k \in Nat
  BY <1>1, <1>2, <1>3
<1>6. q + 1 <= k
  <2> SUFFICES ASSUME k <= q PROVE FALSE
    BY <1>2, <1>3
  <2>1. n * k <= n * q
    BY <1>1, <1>2, <1>3, ProductGrows
  <2> QED BY <1>1, <1>2, <1>3, <1>5, <2>1 DEF most
<1> DEFINE b == q + 1
<1>7. b \in 1 .. NumBuckets
  BY <1>2, <1>3, <1>4, <1>6
<1>8. (b - 1) * n = n * q /\ b * n = n * q + n
  BY <1>1, <1>2
<1>9. BucketStart(b) = n * q /\ BucketEnd(b) = Min({Duration, b * n})
  BY <1>8 DEF BucketStart, BucketEnd, n
<1>10. b * n \in Int /\ a < b * n /\ b * n \in Nat
  BY <1>1, <1>2, <1>5, <1>8
<1>11. BucketEnd(b) = IF Duration <= b * n THEN Duration ELSE b * n
  <2> DEFINE j == b * n
  <2> HIDE DEF j
  <2>1. j \in Int /\ Duration \in Int
    BY <1>1, <1>10 DEF j
  <2>2. Min({Duration, j}) = IF Duration <= j THEN Duration ELSE j
    BY <2>1, MinOfTwo
  <2> QED BY <1>9, <2>2 DEF j
<1>12. /\ BucketStart(b) \in Nat /\ BucketEnd(b) \in Nat
       /\ BucketStart(b) <= a /\ a < BucketEnd(b)
  BY <1>1, <1>2, <1>5, <1>9, <1>10, <1>11
<1> HIDE DEF b
<1> QED BY <1>7, <1>10, <1>12 DEF n

\* A bucket, as a segment with the labels it gets.
Bucket(b) == [start |-> BucketStart(b), end |-> BucketEnd(b), tags |-> Tags(b), topics |-> {}]

\* The segments are the buckets, and every moment is in one of them.
LEMMA MergeSegmentsFacts ==
    /\ MergeSegments \in Seq(Range(Buckets))
    /\ DOMAIN MergeSegments = 1 .. Len(MergeSegments)
    /\ \A i \in DOMAIN MergeSegments :
          \E b \in 1 .. NumBuckets : MergeSegments[i] = Bucket(b)
    /\ \A a \in 0 .. Duration - 1 : \E i \in DOMAIN MergeSegments, b \in 1 .. NumBuckets :
          /\ MergeSegments[i] = Bucket(b)
          /\ BucketStart(b) \in Nat /\ BucketEnd(b) \in Nat
          /\ BucketStart(b) <= a /\ a < BucketEnd(b) /\ a < b * FrameInterval
<1> DEFINE S == Range(Buckets)
           P == {s \in S : s.end > s.start}
           m == MergeSegments
<1>1. NumBuckets \in Nat
  <2> DEFINE k == (Duration + FrameInterval - 1) \div FrameInterval
  <2>1. k \in Int /\ NumBuckets = Max({1, k})
    BY LengthsAssumption DEF NumBuckets
  <2> HIDE DEF k
  <2>2. Max({1, k}) = IF 1 >= k THEN 1 ELSE k
    BY <2>1, MaxOfTwo
  <2> QED BY <2>1, <2>2
<1>2. /\ DOMAIN Buckets = 1 .. NumBuckets /\ \A b \in 1 .. NumBuckets : Buckets[b] = Bucket(b)
      /\ Buckets = [b \in 1 .. NumBuckets |-> Buckets[b]]
  BY DEF Buckets, Bucket
<1>3. S = {Bucket(b) : b \in 1 .. NumBuckets}
  BY <1>2 DEF Range
<1>4. Buckets \in Seq(S)
  <2>1. \A b \in 1 .. NumBuckets : Buckets[b] \in S
    BY <1>2 DEF Range
  <2>2. Buckets \in [1 .. NumBuckets -> S]
    <3> HIDE DEF S
    <3> QED BY <1>2, <2>1
  <2> HIDE DEF S
  <2> QED BY <1>1, <2>2
<1>5. m = Where(Buckets, P)
  BY DEF MergeSegments
<1> HIDE DEF S, P, m
<1>6. m \in Seq(S) /\ Range(m) = S \cap P
  <2>1. Range(Buckets) = S
    BY DEF S
  <2> QED BY <1>4, <1>5, <2>1, WhereType, WhereRange
<1>7. DOMAIN m = 1 .. Len(m) /\ \A i \in DOMAIN m : m[i] \in S
  BY <1>6, LenProperties, ElementOfSeq
<1>8. ASSUME NEW a \in 0 .. Duration - 1
      PROVE  \E i \in DOMAIN m, b \in 1 .. NumBuckets :
                /\ m[i] = Bucket(b)
                /\ BucketStart(b) \in Nat /\ BucketEnd(b) \in Nat
                /\ BucketStart(b) <= a /\ a < BucketEnd(b) /\ a < b * FrameInterval
  <2>1. PICK b \in 1 .. NumBuckets :
           /\ BucketStart(b) \in Nat /\ BucketEnd(b) \in Nat
           /\ BucketStart(b) <= a /\ a < BucketEnd(b)
           /\ a < b * FrameInterval
    BY BucketFacts
  <2>2. Bucket(b) \in S /\ Bucket(b).end > Bucket(b).start
    <3>1. Bucket(b).start = BucketStart(b) /\ Bucket(b).end = BucketEnd(b)
      BY DEF Bucket
    <3>2. BucketEnd(b) > BucketStart(b)
      BY <2>1
    <3> QED BY <1>3, <3>1, <3>2
  <2>3. Bucket(b) \in Range(m)
    BY <1>6, <2>2 DEF P
  <2>4. PICK i \in DOMAIN m : m[i] = Bucket(b)
    BY <2>3 DEF Range
  <2> QED BY <2>1, <2>4
<1>9. \A i \in DOMAIN m : \E b \in 1 .. NumBuckets : m[i] = Bucket(b)
  BY <1>3, <1>7
<1> QED BY <1>6, <1>7, <1>8, <1>9 DEF m, S

\* The labels of a bucket.
LEMMA TagFacts ==
    ASSUME NEW a \in 0 .. Duration - 1, NEW b \in 1 .. NumBuckets,
           BucketStart(b) \in Nat, BucketEnd(b) \in Nat,
           BucketStart(b) <= a, a < BucketEnd(b), a < b * FrameInterval
    PROVE  /\ (\E w \in speech : w.profane /\ w.start = a) => "language" \in Tags(b)
           /\ \A i \in DOMAIN found :
                 /\ found[i].span.from \in Nat /\ found[i].span.to \in Nat
                 /\ found[i].span.to <= Duration
                 /\ found[i].span.from <= a /\ a < found[i].span.to
                 => "nudity" \in Tags(b)
<1>1. (\E w \in speech : w.profane /\ w.start = a) => Language(b)
  BY DEF Language
<1>2. ASSUME NEW i \in DOMAIN found,
             found[i].span.from \in Nat, found[i].span.to \in Nat,
             found[i].span.to <= Duration,
             found[i].span.from <= a, a < found[i].span.to
      PROVE  Touches(found[i].span, b)
  <2> DEFINE s == found[i].span
             f == s.from
             t == s.to
             e == Duration
  <2>1. f \in Nat /\ t \in Nat /\ e \in Nat /\ a \in Nat /\ t <= e /\ f <= a /\ a < t /\ f < t
    BY <1>2, LengthsAssumption
  <2> HIDE DEF f, t, e
  <2>2. Min({f, e}) = f /\ Min({t, e}) = t
    BY <2>1, MinOfTwo
  <2>3. Max({f, t}) = t
    BY <2>1, MaxOfTwo
  <2>4. LET from == Min({f, e})
            to == Max({from, Min({t, e})})
        IN  from = f /\ to = t
    BY <2>2, <2>3
  <2>5. f < t /\ f < BucketEnd(b) /\ t > BucketStart(b)
    BY <2>1
  <2>6. LET from == Min({f, e})
            to == Max({from, Min({t, e})})
        IN  from < to /\ from < BucketEnd(b) /\ to > BucketStart(b)
    BY <2>4, <2>5
  <2>7. Touches(s, b)
    BY <2>6, Zenon DEF Touches, f, t, e
  <2> QED BY <2>7
<1> QED BY <1>1, <1>2 DEF Tags

-----------------------------------------------------------------------------
(* The scan: what is seen. *)

\* A frame that is reused is one of those that were scanned, and close.
LEMMA ReusableFacts ==
    ASSUME NEW t \in 0 .. Duration - 1, NEW times \in SUBSET (0 .. Duration - 1),
           Reusable(t, times) # {}
    PROVE  /\ Min(Reusable(t, times)) \in 0 .. Duration - 1
           /\ Min(Reusable(t, times)) <= t + ReuseWithin
           /\ t <= Min(Reusable(t, times)) + ReuseWithin
<1> DEFINE R == Reusable(t, times)
           u == Min(R)
<1>1. R \in SUBSET Nat /\ R \in SUBSET (0 .. Duration - 1)
  <2>1. R \in SUBSET times
    BY DEF Reusable
  <2>2. times \in SUBSET Nat
    BY LengthsAssumption
  <2> HIDE DEF R
  <2> QED BY <2>1, <2>2
<1>2. u \in R
  <2> HIDE DEF R
  <2> QED BY <1>1, LeastOfSome DEF R
<1>3. u \in 0 .. Duration - 1 /\ u \in Nat /\ t \in Nat /\ ReuseWithin \in Nat
  <2> HIDE DEF R, u
  <2> QED BY <1>1, <1>2, LengthsAssumption
<1>4. Max({t, u}) - Min({t, u}) <= ReuseWithin
  BY <1>2 DEF Reusable
<1> HIDE DEF u
<1>5. /\ Max({t, u}) = IF t >= u THEN t ELSE u
      /\ Min({t, u}) = IF t <= u THEN t ELSE u
  BY <1>3, MaxOfTwo, MinOfTwo
<1>6. u <= t + ReuseWithin /\ t <= u + ReuseWithin
  BY <1>3, <1>4, <1>5
<1> QED BY <1>3, <1>6 DEF u, R

\* _ensure_visual_topic_frames: what is judged can be read, and each sample
\* that is taken is close to a frame that is judged, if that can be read.
LEMMA VisualFrameFacts ==
    ASSUME dense \in SUBSET (0 .. Duration - 1)
    PROVE  /\ VisualFrames \in SUBSET (0 .. Duration - 1)
           /\ \A u \in VisualFrames : Readable(u)
           /\ \A t \in 0 .. Duration - 1 : t % VisualInterval = 0 =>
                 \E u \in 0 .. Duration - 1 :
                    /\ u <= t + ReuseWithin /\ t <= u + ReuseWithin
                    /\ Readable(u) => u \in VisualFrames
<1> DEFINE broad == BroadSamples
           times == Timestamps(0, Duration, VisualInterval) \cup {Duration}
           Frame(t) ==
              IF Reusable(t, broad) # {} THEN Min(Reusable(t, broad))
              ELSE IF Reusable(t, dense) # {} THEN Min(Reusable(t, dense)) ELSE t
<1>1. VisualFrames = {u \in {Frame(Clamped(t)) : t \in times} : Readable(u)}
  BY DEF VisualFrames
<1>2. broad \in SUBSET (0 .. Duration - 1)
  BY BroadFacts
<1>3. ASSUME NEW t \in 0 .. Duration - 1
      PROVE  /\ Frame(t) \in 0 .. Duration - 1
             /\ Frame(t) <= t + ReuseWithin /\ t <= Frame(t) + ReuseWithin
  <2> HIDE DEF broad
  <2>1. CASE Reusable(t, broad) # {}
    BY <1>2, <2>1, ReusableFacts
  <2>2. CASE Reusable(t, broad) = {} /\ Reusable(t, dense) # {}
    BY <2>2, ReusableFacts
  <2>3. CASE Reusable(t, broad) = {} /\ Reusable(t, dense) = {}
    BY <2>3, LengthsAssumption
  <2> QED BY <2>1, <2>2, <2>3
<1>4. /\ times \in SUBSET Time
      /\ \A t \in 0 .. Duration - 1 : t % VisualInterval = 0 => t \in times
  <2>1. 0 \in Time /\ Duration \in Time /\ \A t \in 0 .. Duration - 1 : t - 0 = t
    BY LengthsAssumption DEF Time
  <2>2. /\ Timestamps(0, Duration, VisualInterval) \in SUBSET Time
        /\ \A t \in 0 .. Duration - 1 :
              (t - 0) % VisualInterval = 0 => t \in Timestamps(0, Duration, VisualInterval)
    BY <2>1, TimestampFacts
  <2> QED BY <2>1, <2>2
<1> HIDE DEF times, Frame
<1>5. \A t \in times : Clamped(t) \in 0 .. Duration - 1
  BY <1>4, ClampedFacts
<1>6. VisualFrames \in SUBSET (0 .. Duration - 1) /\ \A u \in VisualFrames : Readable(u)
  BY <1>1, <1>3, <1>5
<1>7. ASSUME NEW t \in 0 .. Duration - 1, t % VisualInterval = 0
      PROVE  \E u \in 0 .. Duration - 1 :
                /\ u <= t + ReuseWithin /\ t <= u + ReuseWithin
                /\ Readable(u) => u \in VisualFrames
  <2>1. t \in times /\ Clamped(t) = t
    <3>1. t \in Time /\ t # Duration
      BY LengthsAssumption DEF Time
    <3> QED BY <1>4, <1>7, <3>1, ClampedFacts
  <2>2. Readable(Frame(t)) => Frame(t) \in VisualFrames
    BY <1>1, <2>1
  <2> QED BY <1>3, <2>2
<1> QED BY <1>6, <1>7

\* What is seen for the length of VisualTopicsAreExact is judged once.
LEMMA SeenFacts ==
    ASSUME dense \in SUBSET (0 .. Duration - 1), NEW topic,
           NEW from \in 0 .. Duration - (VisualInterval + 2 * ReuseWithin),
           \A t \in from .. from + (VisualInterval + 2 * ReuseWithin) - 1 :
              Readable(t) /\ topic \in film[t].visual
    PROVE  \E u \in VisualFrames :
              /\ u \in from .. from + (VisualInterval + 2 * ReuseWithin) - 1
              /\ topic \in film[u].visual
<1>1. /\ VisualInterval \in Nat \ {0} /\ ReuseWithin \in Nat /\ Duration \in Nat
      /\ from \in Nat /\ from + ReuseWithin \in Nat
  BY LengthsAssumption
<1>2. PICK t \in from + ReuseWithin .. from + ReuseWithin + VisualInterval - 1 :
         t % VisualInterval = 0
  BY <1>1, MultipleWithin
<1>3. t \in 0 .. Duration - 1
  BY <1>1
<1>4. PICK u \in 0 .. Duration - 1 :
         /\ u <= t + ReuseWithin /\ t <= u + ReuseWithin
         /\ Readable(u) => u \in VisualFrames
  BY <1>2, <1>3, VisualFrameFacts
<1>5. u \in from .. from + (VisualInterval + 2 * ReuseWithin) - 1
  BY <1>1, <1>4
<1> QED BY <1>4, <1>5

-----------------------------------------------------------------------------
(* The scan: its invariant. *)

\* What the dense scan finds in the windows of the film.
Confirmations == {DenseDetection(w) : w \in {v \in Range(AllWindows) : Confirmed(v)}}

\* The segment s is m but for its topics.
SameBut(s, m) == s = [start |-> m.start, end |-> m.end, tags |-> m.tags, topics |-> s.topics]

\* After the step st the topics of a segment are what was heard, unless the
\* classifier failed, and then what was seen besides.
TopicsAfter(st, s) ==
    /\ st = "topics" => s.topics = {}
    /\ st \in {"visual", "unscanned"} => s.topics = {} \/ s.topics = Heard(s)
    /\ st = "done" => \/ s.topics = VisualTopicsOf(s, VisualFrames)
                      \/ s.topics = Heard(s) \cup VisualTopicsOf(s, VisualFrames)

ScanSteps == {"transcribe", "broad", "dense", "topics", "visual", "unscanned", "done"}

\* Every window is still to be scanned or has given what it gives.
WindowsJudged ==
    /\ windows \in Seq(Range(AllWindows))
    /\ \A w \in Range(AllWindows) :
          w \in Range(windows) \/ (Confirmed(w) => DenseDetection(w) \in Range(found))

ScanInv ==
    /\ step \in ScanSteps
    /\ film \in Films
    /\ \A w \in speech : w.start \in Nat /\ w.end \in Nat
    /\ found \in Seq(Confirmations)
    /\ dense \in SUBSET (0 .. Duration - 1)
    /\ step \notin {"transcribe", "broad"} => WindowsJudged
    /\ Labelled => /\ windows = <<>>
                   /\ DOMAIN segments = DOMAIN MergeSegments
                   /\ \A i \in DOMAIN segments : /\ SameBut(segments[i], MergeSegments[i])
                                                 /\ TopicsAfter(step, segments[i])

LEMMA FilmSound == ASSUME film \in Films PROVE FilmIsSound
BY FilmsAssumption DEF FilmIsSound, Readable

\* What depends on the film alone stays.
LEMMA FilmStays ==
    ASSUME film' = film
    PROVE  /\ AllWindows' = AllWindows
           /\ \A w : Confirmed(w)' = Confirmed(w) /\ DenseDetection(w)' = DenseDetection(w)
           /\ Confirmations' = Confirmations
<1>1. \A t : Readable(t)' = Readable(t) /\ Verdict(t)' = Verdict(t)
  BY DEF Readable, Verdict
<1>2. \A times : Sampled(times)' = Sampled(times)
  BY <1>1 DEF Sampled
<1>3. AllWindows' = AllWindows
  <2>1. BroadSamples' = BroadSamples
    BY <1>2 DEF BroadSamples
  <2>2. CandidateTimes' = CandidateTimes
    BY <1>1, <2>1 DEF CandidateTimes
  <2> QED BY <2>2 DEF AllWindows
<1>4. \A w : DenseSamples(w)' = DenseSamples(w)
  BY <1>2 DEF DenseSamples
<1>5. \A w : Confirmed(w)' = Confirmed(w)
  BY <1>1 DEF Confirmed
<1>6. Halve' = Halve
  BY <1>1 DEF Halve
<1>7. \A known, threshold, w, end : Search(known, threshold, w, end)' = Search(known, threshold, w, end)
  BY <1>6 DEF Search
<1>8. \A known, threshold, w, backward :
         Boundary(known, threshold, w, backward)' = Boundary(known, threshold, w, backward)
  BY <1>7 DEF Boundary
<1>9. \A w : DenseDetection(w)' = DenseDetection(w)
  BY <1>1, <1>4, <1>8 DEF DenseDetection
<1>10. Confirmations' = Confirmations
  BY <1>3, <1>5, <1>9 DEF Confirmations
<1> QED BY <1>3, <1>5, <1>9, <1>10

LEMMA ScanInvInit == ScanInit => ScanInv
<1> SUFFICES ASSUME ScanInit PROVE ScanInv
  OBVIOUS
<1>1. /\ film \in Films /\ speech = {} /\ step = "transcribe" /\ windows = <<>>
      /\ dense = {} /\ found = <<>>
  BY DEF ScanInit
<1>2. found \in Seq(Confirmations)
  BY <1>1, EmptySeq
<1>3. ~Labelled /\ step \in ScanSteps
  BY <1>1 DEF Labelled, ScanSteps
<1> QED BY <1>1, <1>2, <1>3 DEF ScanInv

\* What the scan leaves alone keeps its part of the invariant.
LEMMA JudgedStays ==
    ASSUME film' = film, windows' = windows, found' = found, WindowsJudged
    PROVE  WindowsJudged'
BY FilmStays DEF WindowsJudged

LEMMA SegmentsStay ==
    ASSUME speech' = speech, found' = found PROVE MergeSegments' = MergeSegments
<1>1. \A b : Tags(b)' = Tags(b)
  BY DEF Tags, Language, Touches
<1>2. Buckets' = Buckets
  BY <1>1 DEF Buckets
<1> QED BY <1>2 DEF MergeSegments

LEMMA TranscribeKeepsInv == ASSUME ScanInv, Transcribe PROVE ScanInv'
<1>1. /\ speech' \in Speeches /\ step = "transcribe" /\ step' = "broad" /\ film' = film
      /\ found' = found /\ dense' = dense
  BY DEF Transcribe
<1>2. \A w \in speech' : w.start \in Nat /\ w.end \in Nat
  BY <1>1, SpeechesAssumption
<1>3. (found \in Seq(Confirmations))'
  BY <1>1, FilmStays DEF ScanInv
<1>4. ~Labelled' /\ step' \in ScanSteps
  BY <1>1 DEF Labelled, ScanSteps
<1> QED BY <1>1, <1>2, <1>3, <1>4 DEF ScanInv

LEMMA BroadScanKeepsInv == ASSUME ScanInv, BroadScan PROVE ScanInv'
<1>1. /\ windows' = AllWindows /\ step' = "dense" /\ film' = film /\ speech' = speech
      /\ found' = found /\ dense' = dense
  BY DEF BroadScan, AllWindows
<1>2. (found \in Seq(Confirmations))'
  BY <1>1, FilmStays DEF ScanInv
<1>3. WindowsJudged'
  <2>1. FilmIsSound
    BY FilmSound DEF ScanInv
  <2>2. AllWindows \in Seq(Window)
    BY <2>1, CandidateFacts
  <2>3. AllWindows \in Seq(Range(AllWindows))
    <3> DEFINE ws == AllWindows
    <3>1. ws \in Seq(Window)
      BY <2>2
    <3> HIDE DEF ws
    <3>2. \A i \in 1 .. Len(ws) : ws[i] \in Range(ws)
      BY <3>1 DEF Range
    <3>3. Len(ws) \in Nat /\ ws = [i \in 1 .. Len(ws) |-> ws[i]]
      BY <3>1
    <3>4. ws \in Seq(Range(ws))
      BY <3>2, <3>3
    <3> QED BY <3>4 DEF ws
  <2> QED BY <1>1, <2>3, FilmStays DEF WindowsJudged
<1>4. ~Labelled' /\ step' \in ScanSteps
  BY <1>1 DEF Labelled, ScanSteps
<1> QED BY <1>1, <1>2, <1>3, <1>4 DEF ScanInv

LEMMA DenseKeepsInv == ASSUME ScanInv, ScanDenseWindow PROVE ScanInv'
<1> DEFINE w == Head(windows)
           C == Confirmations
<1>1. /\ step = "dense" /\ windows # <<>> /\ windows' = Tail(windows) /\ step' = step
      /\ film' = film /\ speech' = speech
      /\ found' = IF Confirmed(w) THEN Append(found, DenseDetection(w)) ELSE found
      /\ dense' = dense \cup DenseSamples(w)
  BY DEF ScanDenseWindow
<1>2. /\ found \in Seq(C) /\ WindowsJudged /\ dense \in SUBSET (0 .. Duration - 1) /\ FilmIsSound
      /\ film \in Films /\ \A x \in speech : x.start \in Nat /\ x.end \in Nat
  BY <1>1, FilmSound DEF ScanInv
<1>3. windows \in Seq(Range(AllWindows))
  BY <1>2 DEF WindowsJudged
<1>4. /\ w \in Range(AllWindows) /\ Tail(windows) \in Seq(Range(AllWindows))
      /\ \A x \in Range(windows) : x = w \/ x \in Range(Tail(windows))
  <2> DEFINE S == Range(AllWindows)
  <2>1. windows \in Seq(S) /\ windows # <<>>
    BY <1>1, <1>3
  <2> HIDE DEF S
  <2>2. w \in S /\ Tail(windows) \in Seq(S)
    BY <2>1, HeadTailProperties
  <2>3. /\ Len(Tail(windows)) = Len(windows) - 1 /\ Len(windows) \in Nat /\ w = windows[1]
        /\ \A i \in 1 .. Len(windows) - 1 : Tail(windows)[i] = windows[i + 1]
        /\ DOMAIN windows = 1 .. Len(windows)
        /\ DOMAIN Tail(windows) = 1 .. Len(windows) - 1
    BY <2>1, <2>2, HeadTailProperties, LenProperties
  <2>4. ASSUME NEW i \in DOMAIN windows
        PROVE  windows[i] = w \/ windows[i] \in Range(Tail(windows))
    <3>1. CASE i = 1
      BY <2>3, <3>1
    <3>2. CASE i # 1
      <4>1. i - 1 \in 1 .. Len(windows) - 1 /\ (i - 1) + 1 = i
        BY <2>3, <3>2
      <4>2. Tail(windows)[i - 1] = windows[i]
        BY <2>3, <4>1
      <4> QED BY <2>3, <4>1, <4>2 DEF Range
    <3> QED BY <3>1, <3>2
  <2>5. \A x \in Range(windows) : \E i \in DOMAIN windows : x = windows[i]
    BY DEF Range
  <2> HIDE DEF w
  <2> QED BY <2>2, <2>4, <2>5 DEF S
<1>5. /\ found' \in Seq(C)
      /\ \A d \in Range(found) : d \in Range(found')
      /\ Confirmed(w) => DenseDetection(w) \in Range(found')
  <2>1. CASE Confirmed(w)
    <3>1. DenseDetection(w) \in C
      BY <1>4, <2>1 DEF Confirmations
    <3> DEFINE d == DenseDetection(w)
    <3>2. found' = Append(found, d) /\ d \in C /\ found \in Seq(C)
      BY <1>1, <1>2, <2>1, <3>1
    <3> HIDE DEF d, C
    <3>3. found' \in Seq(C) /\ Range(found') = Range(found) \cup {d}
      BY <3>2, AppendProperties, RangeAppend
    <3> QED BY <3>3 DEF d
  <2>2. CASE ~Confirmed(w)
    BY <1>1, <1>2, <2>2
  <2> QED BY <2>1, <2>2
<1>6. (found \in Seq(Confirmations))'
  BY <1>1, <1>5, FilmStays
<1>7. \A x \in Range(AllWindows) :
         x \in Range(windows') \/ (Confirmed(x) => DenseDetection(x) \in Range(found'))
  <2> SUFFICES ASSUME NEW x \in Range(AllWindows), x \notin Range(windows'), Confirmed(x)
               PROVE  DenseDetection(x) \in Range(found')
    OBVIOUS
  <2>1. x \in Range(windows) \/ DenseDetection(x) \in Range(found)
    BY <1>2 DEF WindowsJudged
  <2> HIDE DEF w
  <2>2. CASE x = w
    BY <1>5, <2>2
  <2>3. CASE x # w
    BY <1>1, <1>4, <1>5, <2>1, <2>3
  <2> QED BY <2>2, <2>3
<1>8. WindowsJudged'
  <2>1. windows' \in Seq(Range(AllWindows))
    BY <1>1, <1>4
  <2> QED BY <1>1, <1>7, <2>1, FilmStays DEF WindowsJudged
<1>9. dense' \in SUBSET (0 .. Duration - 1)
  <2>1. DenseSamples(w) \in SUBSET (0 .. Duration - 1)
    BY <1>2, <1>4, AllWindowFacts, DenseFacts
  <2> QED BY <1>1, <1>2, <2>1
<1>10. ~Labelled' /\ step' \in ScanSteps
  BY <1>1 DEF Labelled, ScanSteps
<1> HIDE DEF w, C
<1> QED BY <1>1, <1>2, <1>6, <1>8, <1>9, <1>10 DEF ScanInv

LEMMA TopicsStay ==
    ASSUME film' = film, speech' = speech, dense' = dense,
           NEW i, TopicsAfter(step', segments'[i])
    PROVE  TopicsAfter(step, segments[i])'
<1>1. VisualFrames' = VisualFrames
  <2>1. \A t : Readable(t)' = Readable(t)
    BY DEF Readable
  <2>2. BroadSamples' = BroadSamples
    BY <2>1 DEF BroadSamples, Sampled
  <2> QED BY <2>1, <2>2 DEF VisualFrames
<1> QED BY <1>1 DEF TopicsAfter, Heard, WordsIn, VisualTopicsOf

\* What keeps the scan's findings keeps the invariant when it does so for the
\* segments.
LEMMA FindingsStay ==
    ASSUME ScanInv, film' = film, speech' = speech, windows' = windows, dense' = dense,
           found' = found, step \notin {"transcribe", "broad"}, step' \in ScanSteps,
           windows = <<>>,
           DOMAIN segments' = DOMAIN MergeSegments,
           \A i \in DOMAIN segments' : SameBut(segments'[i], MergeSegments[i])
                                       /\ TopicsAfter(step', segments'[i])
    PROVE  ScanInv'
<1>1. (found \in Seq(Confirmations))'
  BY FilmStays DEF ScanInv
<1>2. WindowsJudged'
  BY JudgedStays DEF ScanInv
<1>3. MergeSegments' = MergeSegments
  BY SegmentsStay
<1>4. \A i \in DOMAIN segments' : /\ SameBut(segments[i], MergeSegments[i])'
                                 /\ TopicsAfter(step, segments[i])'
  BY <1>3, TopicsStay DEF SameBut
<1> QED BY <1>1, <1>2, <1>3, <1>4 DEF ScanInv

LEMMA BuildKeepsInv == ASSUME ScanInv, BuildSegments PROVE ScanInv'
<1>1. /\ step = "dense" /\ windows = <<>> /\ segments' = MergeSegments /\ step' = "topics"
      /\ UNCHANGED <<film, speech, windows, dense, found>>
  BY DEF BuildSegments
<1>2. ASSUME NEW i \in DOMAIN segments'
      PROVE  SameBut(segments'[i], MergeSegments[i]) /\ TopicsAfter(step', segments'[i])
  <2>1. PICK b \in 1 .. NumBuckets : MergeSegments[i] = Bucket(b)
    BY <1>1, <1>2, MergeSegmentsFacts
  <2>2. segments'[i] = Bucket(b) /\ segments'[i].topics = {}
    BY <1>1, <2>1 DEF Bucket
  <2>3. SameBut(segments'[i], MergeSegments[i])
    BY <2>1, <2>2 DEF SameBut, Bucket
  <2>4. TopicsAfter(step', segments'[i])
    BY <1>1, <2>2 DEF TopicsAfter
  <2> QED BY <2>3, <2>4
<1>3. step' \in ScanSteps
  BY <1>1 DEF ScanSteps
<1> QED BY <1>1, <1>2, <1>3, FindingsStay

\* A step that changes no more than the topics of segments: to topics[i].
LEMMA TopicsKeepInv ==
    ASSUME ScanInv, Labelled, UNCHANGED <<film, speech, windows, dense, found>>,
           step' \in ScanSteps, NEW topics,
           segments' = [i \in DOMAIN segments |-> [segments[i] EXCEPT !.topics = topics[i]]],
           \A i \in DOMAIN segments : \A s :
              SameBut(s, segments[i]) /\ s.topics = topics[i] => TopicsAfter(step', s)
    PROVE  ScanInv'
<1>1. /\ windows = <<>> /\ DOMAIN segments = DOMAIN MergeSegments
      /\ \A i \in DOMAIN segments : SameBut(segments[i], MergeSegments[i])
  BY DEF ScanInv
<1>2. ASSUME NEW i \in DOMAIN segments
      PROVE  /\ SameBut(segments'[i], MergeSegments[i]) /\ TopicsAfter(step', segments'[i])
  <2> DEFINE m == MergeSegments[i]
             s == segments[i]
             x == segments'[i]
  <2>1. s = [start |-> m.start, end |-> m.end, tags |-> m.tags, topics |-> s.topics]
    BY <1>1 DEF SameBut
  <2>2. x = [s EXCEPT !.topics = topics[i]]
    OBVIOUS
  <2> HIDE DEF m, s, x
  <2>3. /\ x = [start |-> m.start, end |-> m.end, tags |-> m.tags, topics |-> topics[i]]
        /\ s.start = m.start /\ s.end = m.end /\ s.tags = m.tags
    BY <2>1, <2>2
  <2>4. x.topics = topics[i] /\ SameBut(x, m) /\ SameBut(x, s)
    BY <2>3 DEF SameBut
  <2>5. TopicsAfter(step', x)
    BY <2>4 DEF s
  <2> QED BY <2>4, <2>5 DEF m, x
<1>3. step \notin {"transcribe", "broad"} /\ DOMAIN segments' = DOMAIN segments
  BY DEF Labelled
<1> QED BY <1>1, <1>2, <1>3, FindingsStay

LEMMA ClassifyKeepsInv == ASSUME ScanInv, ClassifyTopics PROVE ScanInv'
<1> DEFINE topics == [i \in DOMAIN segments |-> Heard(segments[i])]
<1>1. /\ step = "topics" /\ step' = "visual"
      /\ UNCHANGED <<film, speech, windows, dense, found>>
      /\ segments' = [i \in DOMAIN segments |->
                        [segments[i] EXCEPT !.topics = Heard(segments[i])]]
  BY DEF ClassifyTopics
<1>2. segments' = [i \in DOMAIN segments |-> [segments[i] EXCEPT !.topics = topics[i]]]
  BY <1>1
<1>3. ASSUME NEW i \in DOMAIN segments, NEW s, SameBut(s, segments[i]), s.topics = topics[i]
      PROVE  TopicsAfter(step', s)
  <2>1. s.start = segments[i].start /\ s.end = segments[i].end
    BY <1>3 DEF SameBut
  <2>2. Heard(s) = Heard(segments[i])
    BY <2>1 DEF Heard, WordsIn
  <2> QED BY <1>1, <1>3, <2>2 DEF TopicsAfter
<1>4. Labelled /\ step' \in ScanSteps
  BY <1>1 DEF Labelled, ScanSteps
<1> HIDE DEF topics
<1> QED BY <1>1, <1>2, <1>3, <1>4, TopicsKeepInv

\* The steps that leave the segments as they are.
LEMMA SegmentsKeepInv ==
    ASSUME ScanInv, Labelled, UNCHANGED <<film, speech, windows, dense, found, segments>>,
           step' \in ScanSteps,
           \A i \in DOMAIN segments : TopicsAfter(step', segments[i])
    PROVE  ScanInv'
<1>1. /\ windows = <<>> /\ DOMAIN segments = DOMAIN MergeSegments
      /\ \A i \in DOMAIN segments : SameBut(segments[i], MergeSegments[i])
  BY DEF ScanInv
<1>2. step \notin {"transcribe", "broad"}
  BY DEF Labelled
<1> QED BY <1>1, <1>2, FindingsStay

LEMMA ClassifyFailsKeepsInv == ASSUME ScanInv, ClassifyTopicsFails PROVE ScanInv'
<1>1. /\ step = "topics" /\ step' = "visual" /\ Labelled /\ step' \in ScanSteps
      /\ UNCHANGED <<film, speech, windows, dense, found, segments>>
  BY DEF ClassifyTopicsFails, Labelled, ScanSteps
<1>2. \A i \in DOMAIN segments : TopicsAfter(step', segments[i])
  BY <1>1 DEF ScanInv, TopicsAfter
<1> QED BY <1>1, <1>2, SegmentsKeepInv

LEMMA UnavailableKeepsInv == ASSUME ScanInv, VisualScannerUnavailable PROVE ScanInv'
<1>1. /\ step = "visual" /\ step' = "unscanned" /\ Labelled /\ step' \in ScanSteps
      /\ UNCHANGED <<film, speech, windows, dense, found, segments>>
  BY DEF VisualScannerUnavailable, Labelled, ScanSteps
<1>2. \A i \in DOMAIN segments : TopicsAfter(step', segments[i])
  BY <1>1 DEF ScanInv, TopicsAfter
<1> QED BY <1>1, <1>2, SegmentsKeepInv

LEMMA VisualKeepsInv == ASSUME ScanInv, ScanVisualTopics PROVE ScanInv'
<1> DEFINE topics == [i \in DOMAIN segments |->
                         segments[i].topics \cup VisualTopicsOf(segments[i], VisualFrames)]
<1>1. /\ step = "visual" /\ step' = "done"
      /\ UNCHANGED <<film, speech, windows, dense, found>>
      /\ segments' = [i \in DOMAIN segments |->
            [segments[i] EXCEPT !.topics =
                segments[i].topics \cup VisualTopicsOf(segments[i], VisualFrames)]]
  <2>1. ScanInv /\ step = "visual"
    BY DEF ScanVisualTopics
  <2>2. \A i \in DOMAIN segments :
           segments[i] = [start |-> segments[i].start, end |-> segments[i].end,
                          tags |-> segments[i].tags, topics |-> segments[i].topics]
    BY <2>1 DEF ScanInv, Labelled, SameBut
  <2> QED BY <2>2 DEF ScanVisualTopics
<1>2. segments' = [i \in DOMAIN segments |-> [segments[i] EXCEPT !.topics = topics[i]]]
  BY <1>1
<1>3. ASSUME NEW i \in DOMAIN segments, NEW s, SameBut(s, segments[i]), s.topics = topics[i]
      PROVE  TopicsAfter(step', s)
  <2>1. s.start = segments[i].start /\ s.end = segments[i].end
    BY <1>3 DEF SameBut
  <2>2. /\ Heard(s) = Heard(segments[i])
        /\ VisualTopicsOf(s, VisualFrames) = VisualTopicsOf(segments[i], VisualFrames)
    BY <2>1 DEF Heard, WordsIn, VisualTopicsOf, InSegment
  <2>3. segments[i].topics = {} \/ segments[i].topics = Heard(segments[i])
    BY <1>1 DEF ScanInv, Labelled, TopicsAfter
  <2>4. s.topics = segments[i].topics \cup VisualTopicsOf(segments[i], VisualFrames)
    BY <1>3
  <2>5. \/ s.topics = VisualTopicsOf(s, VisualFrames)
        \/ s.topics = Heard(s) \cup VisualTopicsOf(s, VisualFrames)
    BY <2>2, <2>3, <2>4
  <2> QED BY <1>1, <2>5 DEF TopicsAfter
<1>4. Labelled /\ step' \in ScanSteps
  BY <1>1 DEF Labelled, ScanSteps
<1> HIDE DEF topics
<1> QED BY <1>1, <1>2, <1>3, <1>4, TopicsKeepInv

LEMMA ScanStutterKeepsInv == ASSUME ScanInv, UNCHANGED scanVars PROVE ScanInv'
<1>1. /\ UNCHANGED <<film, speech, windows, dense, found, segments>> /\ step' = step
  BY DEF scanVars
<1>2. CASE Labelled
  <2>1. step' \in ScanSteps /\ \A i \in DOMAIN segments : TopicsAfter(step', segments[i])
    BY <1>1, <1>2 DEF ScanInv
  <2> QED BY <1>1, <1>2, <2>1, SegmentsKeepInv
<1>3. CASE ~Labelled
  <2>1. ~Labelled'
    BY <1>1, <1>3 DEF Labelled
  <2>2. (found \in Seq(Confirmations))'
    BY <1>1, FilmStays DEF ScanInv
  <2>3. step' \notin {"transcribe", "broad"} => WindowsJudged'
    BY <1>1, JudgedStays DEF ScanInv
  <2> QED BY <1>1, <2>1, <2>2, <2>3 DEF ScanInv
<1> QED BY <1>2, <1>3

LEMMA ScanInvStep == ScanInv /\ [ScanNext]_scanVars => ScanInv'
<1> SUFFICES ASSUME ScanInv, [ScanNext]_scanVars PROVE ScanInv'
  OBVIOUS
<1>1. CASE Transcribe
  BY <1>1, TranscribeKeepsInv
<1>2. CASE BroadScan
  BY <1>2, BroadScanKeepsInv
<1>3. CASE ScanDenseWindow
  BY <1>3, DenseKeepsInv
<1>4. CASE BuildSegments
  BY <1>4, BuildKeepsInv
<1>5. CASE ClassifyTopics
  BY <1>5, ClassifyKeepsInv
<1>6. CASE ClassifyTopicsFails
  BY <1>6, ClassifyFailsKeepsInv
<1>7. CASE ScanVisualTopics
  BY <1>7, VisualKeepsInv
<1>8. CASE VisualScannerUnavailable
  BY <1>8, UnavailableKeepsInv
<1>9. CASE UNCHANGED scanVars
  BY <1>9, ScanStutterKeepsInv
<1> QED BY <1>1, <1>2, <1>3, <1>4, <1>5, <1>6, <1>7, <1>8, <1>9 DEF ScanNext

\* The findings are those of the windows of the film, the segments are its
\* buckets with their labels, and topics are what was heard and seen.
THEOREM ScanInvHolds == ScanSpec => []ScanInv
<1>1. ScanInit => ScanInv
  BY ScanInvInit
<1>2. ScanInv /\ [ScanNext]_scanVars => ScanInv'
  BY ScanInvStep
<1> QED BY <1>1, <1>2, PTL DEF ScanSpec

-----------------------------------------------------------------------------
(* The scan: what is labelled. *)

\* Every moment is in a segment that has the labels of its bucket.
LEMMA LabelledAt ==
    ASSUME ScanInv, Labelled, NEW a \in 0 .. Duration - 1
    PROVE  \E i \in DOMAIN segments, b \in 1 .. NumBuckets :
              /\ segments[i].start = BucketStart(b) /\ segments[i].end = BucketEnd(b)
              /\ segments[i].tags = Tags(b)
              /\ BucketStart(b) \in Nat /\ BucketEnd(b) \in Nat
              /\ BucketStart(b) <= a /\ a < BucketEnd(b) /\ a < b * FrameInterval
<1>1. PICK i \in DOMAIN MergeSegments, b \in 1 .. NumBuckets :
         /\ MergeSegments[i] = Bucket(b)
         /\ BucketStart(b) \in Nat /\ BucketEnd(b) \in Nat
         /\ BucketStart(b) <= a /\ a < BucketEnd(b) /\ a < b * FrameInterval
  BY MergeSegmentsFacts
<1>2. i \in DOMAIN segments /\ SameBut(segments[i], MergeSegments[i])
  BY DEF ScanInv
<1>3. /\ segments[i].start = BucketStart(b) /\ segments[i].end = BucketEnd(b)
      /\ segments[i].tags = Tags(b)
  BY <1>1, <1>2 DEF SameBut, Bucket
<1> QED BY <1>1, <1>2, <1>3

LEMMA InvTagsSwearWords == ScanInv => SwearWordIsTagged
<1> SUFFICES ASSUME ScanInv, Labelled, NEW w \in speech, w.profane, w.start < Duration
             PROVE  \E i \in DOMAIN segments :
                       /\ segments[i].start <= w.start /\ w.start < segments[i].end
                       /\ "language" \in segments[i].tags
  BY DEF SwearWordIsTagged, Carries
<1> DEFINE a == w.start
<1>1. a \in 0 .. Duration - 1
  BY LengthsAssumption DEF ScanInv
<1>2. PICK i \in DOMAIN segments, b \in 1 .. NumBuckets :
         /\ segments[i].start = BucketStart(b) /\ segments[i].end = BucketEnd(b)
         /\ segments[i].tags = Tags(b)
         /\ BucketStart(b) \in Nat /\ BucketEnd(b) \in Nat
         /\ BucketStart(b) <= a /\ a < BucketEnd(b) /\ a < b * FrameInterval
  BY <1>1, LabelledAt
<1>3. "language" \in Tags(b)
  BY <1>1, <1>2, TagFacts
<1> QED BY <1>2, <1>3

\* A swear word labels the segment it starts in, whatever else is found and
\* whether or not a classifier fails: for every film, every speech and every
\* length of the segments.
THEOREM SwearWordHolds == ScanSpec => []SwearWordIsTagged
BY ScanInvHolds, InvTagsSwearWords, PTL

\* The moments of a finding's span are in segments with its label.
LEMMA SpanIsTagged ==
    ASSUME ScanInv, Labelled, NEW k \in DOMAIN found,
           found[k].span.from \in Nat, found[k].span.to \in Nat, found[k].span.to <= Duration,
           NEW times \in SUBSET Nat,
           \A t \in times : found[k].span.from <= t /\ t < found[k].span.to
    PROVE  Carries(times, "nudity")
<1> SUFFICES ASSUME NEW a \in times
             PROVE  \E i \in DOMAIN segments :
                       /\ segments[i].start <= a /\ a < segments[i].end
                       /\ "nudity" \in segments[i].tags
  BY DEF Carries
<1>1. a \in 0 .. Duration - 1
  <2> DEFINE from == found[k].span.from
             to == found[k].span.to
  <2>1. from \in Nat /\ to \in Nat /\ to <= Duration /\ Duration \in Nat /\ a \in Nat /\ a < to
    BY LengthsAssumption
  <2> HIDE DEF from, to
  <2> QED BY <2>1
<1>2. PICK i \in DOMAIN segments, b \in 1 .. NumBuckets :
         /\ segments[i].start = BucketStart(b) /\ segments[i].end = BucketEnd(b)
         /\ segments[i].tags = Tags(b)
         /\ BucketStart(b) \in Nat /\ BucketEnd(b) \in Nat
         /\ BucketStart(b) <= a /\ a < BucketEnd(b) /\ a < b * FrameInterval
  BY <1>1, LabelledAt
<1>3. "nudity" \in Tags(b)
  BY <1>1, <1>2, TagFacts
<1> QED BY <1>2, <1>3

\* What every finding is.
LEMMA FoundFacts ==
    ASSUME ScanInv, PaddingFits, CandidatesPass, NEW k \in DOMAIN found
    PROVE  \E w, first, last, back, forth :
              /\ w \in Range(AllWindows)
              /\ Ended(w, first, last, back, forth)
              /\ found[k].positives = Positives(w)
              /\ found[k].span = [from |-> back.bad, to |-> forth.safe]
              /\ back.bad \in Nat /\ forth.safe \in Nat /\ forth.safe <= Duration
<1>1. FilmIsSound /\ found \in Seq(Confirmations)
  BY FilmSound DEF ScanInv
<1>2. found[k] \in Confirmations
  BY <1>1, ElementOfSeq, LenProperties
<1>3. PICK w \in Range(AllWindows) : Confirmed(w) /\ found[k] = DenseDetection(w)
  BY <1>2 DEF Confirmations
<1>4. PICK first, last, back, forth :
         /\ Ended(w, first, last, back, forth)
         /\ DenseDetection(w) =
               [positives |-> Positives(w), window |-> w,
                span |-> [from |-> back.bad, to |-> forth.safe]]
  BY <1>1, <1>3, DetectionFacts
<1>5. back.bad \in Nat /\ forth.safe \in Nat /\ forth.safe <= Duration
  BY <1>4, LengthsAssumption DEF Ended, Searched, Bounds, Time
<1> QED BY <1>3, <1>4, <1>5

LEMMA InvTagsPositives ==
    ASSUME PaddingFits, CandidatesPass PROVE ScanInv => PositiveFrameIsTagged
<1> SUFFICES ASSUME ScanInv, Labelled, NEW k \in DOMAIN found
             PROVE  Carries(found[k].positives, "nudity")
  BY DEF PositiveFrameIsTagged
<1>1. PICK w, first, last, back, forth :
         /\ w \in Range(AllWindows)
         /\ Ended(w, first, last, back, forth)
         /\ found[k].positives = Positives(w)
         /\ found[k].span = [from |-> back.bad, to |-> forth.safe]
         /\ back.bad \in Nat /\ forth.safe \in Nat /\ forth.safe <= Duration
  BY FoundFacts
<1>2. FilmIsSound
  BY FilmSound DEF ScanInv
<1>3. Positives(w) \in SUBSET Edges(w) /\ Edges(w) \in SUBSET (0 .. Duration - 1)
  BY <1>1, <1>2, EdgeFacts
<1>4. /\ first \in Nat /\ last \in Nat /\ back.bad <= first /\ last < forth.safe
      /\ \A t \in Edges(w) : t \in Nat /\ first <= t /\ t <= last
  BY <1>1, <1>3, LengthsAssumption DEF Ended, Searched
<1>5. ASSUME NEW t \in Positives(w)
      PROVE  t \in Nat /\ back.bad <= t /\ t < forth.safe
  BY <1>1, <1>3, <1>4
<1>6. found[k].span.from = back.bad /\ found[k].span.to = forth.safe
  BY <1>1
<1> QED BY <1>1, <1>5, <1>6, SpanIsTagged

\* Every frame that the dense scan of a confirmed window judged bad is in a
\* labelled segment, in any film, when windows end at frames of the broad scan
\* and what passes is a candidate, as with the analyzer's defaults.
THEOREM PositiveFrameHolds ==
    ASSUME PaddingFits, CandidatesPass PROVE ScanSpec => []PositiveFrameIsTagged
BY ScanInvHolds, InvTagsPositives, PTL

\* A bucket begins and ends at numbers.
LEMMA BucketBounds ==
    ASSUME NEW b \in 1 .. NumBuckets PROVE BucketStart(b) \in Nat /\ BucketEnd(b) \in Nat
<1>1. NumBuckets \in Int
  <2> DEFINE k == (Duration + FrameInterval - 1) \div FrameInterval
  <2>1. k \in Int /\ NumBuckets = Max({1, k})
    BY LengthsAssumption DEF NumBuckets
  <2> HIDE DEF k
  <2>2. Max({1, k}) = IF 1 >= k THEN 1 ELSE k
    BY <2>1, MaxOfTwo
  <2> QED BY <2>1, <2>2
<1>2. b \in Nat /\ b - 1 \in Nat /\ FrameInterval \in Nat /\ Duration \in Nat
  BY <1>1, LengthsAssumption
<1>3. (b - 1) * FrameInterval \in Nat /\ b * FrameInterval \in Nat
  BY <1>2
<1> DEFINE k == b * FrameInterval
<1>4. k \in Nat /\ BucketEnd(b) = Min({Duration, k})
  BY <1>3 DEF BucketEnd
<1> HIDE DEF k
<1>5. Min({Duration, k}) = IF Duration <= k THEN Duration ELSE k
  BY <1>2, <1>4, MinOfTwo
<1> QED BY <1>2, <1>3, <1>4, <1>5 DEF BucketStart

LEMMA InvTopicsExact == ScanInv => VisualTopicsAreExact
<1> DEFINE length == VisualInterval + 2 * ReuseWithin
           Seen(times) == UNION {film[t].visual : t \in {u \in times : u < Duration /\ Readable(u)}}
<1> SUFFICES ASSUME ScanInv, step = "done"
             PROVE  /\ \A i \in DOMAIN segments :
                          segments[i].topics \subseteq
                              Heard(segments[i]) \cup Seen(segments[i].start .. segments[i].end)
                    /\ \A from \in 0 .. Duration - length :
                          LET run == from .. from + length - 1
                          IN  \A topic \in Seen(run) :
                                  (\A t \in run : Readable(t) /\ topic \in film[t].visual) =>
                                      \E i \in DOMAIN segments :
                                          /\ topic \in segments[i].topics
                                          /\ segments[i].start < from + length
                                          /\ segments[i].end >= from
  BY DEF VisualTopicsAreExact
<1>1. Labelled /\ dense \in SUBSET (0 .. Duration - 1)
  BY DEF ScanInv, Labelled
<1>2. /\ VisualFrames \in SUBSET (0 .. Duration - 1) /\ \A u \in VisualFrames : Readable(u)
      /\ Duration \in Nat /\ length \in Nat /\ length > 0
  BY <1>1, VisualFrameFacts, LengthsAssumption
<1>3. \A i \in DOMAIN segments :
         \/ segments[i].topics = VisualTopicsOf(segments[i], VisualFrames)
         \/ segments[i].topics = Heard(segments[i]) \cup VisualTopicsOf(segments[i], VisualFrames)
  BY <1>1 DEF ScanInv, TopicsAfter
<1>4. ASSUME NEW i \in DOMAIN segments
      PROVE  segments[i].start \in Nat /\ segments[i].end \in Nat
  <2>1. SameBut(segments[i], MergeSegments[i]) /\ i \in DOMAIN MergeSegments
    BY <1>1, <1>4 DEF ScanInv
  <2>2. PICK b \in 1 .. NumBuckets : MergeSegments[i] = Bucket(b)
    BY <2>1, MergeSegmentsFacts
  <2>3. segments[i].start = BucketStart(b) /\ segments[i].end = BucketEnd(b)
    BY <2>1, <2>2 DEF SameBut, Bucket
  <2>4. BucketStart(b) \in Nat /\ BucketEnd(b) \in Nat
    BY BucketBounds
  <2> QED BY <2>3, <2>4
<1>5. ASSUME NEW i \in DOMAIN segments
      PROVE  VisualTopicsOf(segments[i], VisualFrames)
                \subseteq Seen(segments[i].start .. segments[i].end)
  <2> DEFINE a == segments[i].start
             e == segments[i].end
  <2>1. ASSUME NEW u \in VisualFrames, InSegment(u, segments[i])
        PROVE  u \in a .. e /\ u < Duration /\ Readable(u)
    <3>1. a <= u /\ u <= e
      BY <2>1 DEF InSegment
    <3>2. a \in Nat /\ e \in Nat /\ u \in 0 .. Duration - 1 /\ Readable(u)
      BY <1>2, <1>4
    <3> HIDE DEF a, e
    <3> QED BY <1>2, <3>1, <3>2
  <2> QED BY <2>1 DEF VisualTopicsOf
<1>6. ASSUME NEW i \in DOMAIN segments
      PROVE  segments[i].topics \subseteq
                Heard(segments[i]) \cup Seen(segments[i].start .. segments[i].end)
  BY <1>3, <1>5
<1>7. ASSUME NEW from \in 0 .. Duration - length, NEW topic,
             \A t \in from .. from + length - 1 : Readable(t) /\ topic \in film[t].visual
      PROVE  \E i \in DOMAIN segments : /\ topic \in segments[i].topics
                                        /\ segments[i].start < from + length
                                        /\ segments[i].end >= from
  <2>1. PICK u \in VisualFrames : u \in from .. from + length - 1 /\ topic \in film[u].visual
    BY <1>1, <1>7, SeenFacts
  <2>2. PICK i \in DOMAIN segments, b \in 1 .. NumBuckets :
           /\ segments[i].start = BucketStart(b) /\ segments[i].end = BucketEnd(b)
           /\ BucketStart(b) \in Nat /\ BucketEnd(b) \in Nat
           /\ BucketStart(b) <= u /\ u < BucketEnd(b)
    <3>1. u \in 0 .. Duration - 1
      BY <1>2
    <3> QED BY <1>1, <3>1, LabelledAt
  <2> DEFINE a == segments[i].start
             e == segments[i].end
  <2>3. a \in Nat /\ e \in Nat /\ a <= u /\ u < e /\ u \in Nat
    BY <1>2, <2>2
  <2>4. topic \in segments[i].topics
    <3>1. InSegment(u, segments[i])
      <4> HIDE DEF a, e
      <4>1. a <= u /\ u <= e
        BY <2>3
      <4> QED BY <4>1 DEF InSegment, a, e
    <3>2. topic \in VisualTopicsOf(segments[i], VisualFrames)
      BY <2>1, <3>1 DEF VisualTopicsOf
    <3> QED BY <1>3, <3>2
  <2>5. a < from + length /\ e >= from
    <3> HIDE DEF a, e, length
    <3> QED BY <1>2, <2>1, <2>3
  <2> QED BY <2>4, <2>5
<1> HIDE DEF Seen
<1> QED BY <1>6, <1>7

\* The visual scan labels a segment only with what is heard or seen in it, and
\* misses nothing that is seen for longer than two samples can lie apart: for
\* every film and every interval of the samples.
THEOREM VisualTopicsHold == ScanSpec => []VisualTopicsAreExact
BY ScanInvHolds, InvTopicsExact, PTL

\* A film that is read throughout and judged by one threshold is passed, at any
\* threshold of one of its frames, exactly where it is bad.
LEMMA PlainFacts ==
    ASSUME Plain, NEW t \in 0 .. Duration - 1, NEW u \in 0 .. Duration - 1
    PROVE  Readable(t) /\ (Passes(t, ThresholdOf(film[u])) <=> Verdict(t).passed)
<1>1. Readable(t) /\ film[t].cartoon = film[u].cartoon
  BY DEF Plain
<1>2. ThresholdOf(film[t]) = ThresholdOf(film[u])
  BY <1>1 DEF ThresholdOf
<1> QED BY <1>1, <1>2 DEF Passes, Verdict

LEMMA InvSpansEnd ==
    ASSUME PaddingFits, CandidatesPass PROVE ScanInv => SpanEndsOnEvidence
<1> SUFFICES ASSUME ScanInv, Plain, NEW k \in DOMAIN found
             PROVE  /\ found[k].span.from < found[k].span.to
                    /\ Verdict(found[k].span.from).boundary
                    /\ \E t \in 1 .. Precision :
                          t <= found[k].span.to /\ Verdict(found[k].span.to - t).boundary
  BY DEF SpanEndsOnEvidence
<1>1. PICK w, first, last, back, forth :
         /\ w \in Range(AllWindows)
         /\ Ended(w, first, last, back, forth)
         /\ found[k].span = [from |-> back.bad, to |-> forth.safe]
         /\ back.bad \in Nat /\ forth.safe \in Nat /\ forth.safe <= Duration
  BY FoundFacts
<1>2. FilmIsSound
  BY FilmSound DEF ScanInv
<1>3. /\ Edges(w) \in SUBSET (0 .. Duration - 1)
      /\ \A t \in Edges(w) : Verdict(t).boundary
  BY <1>1, <1>2, EdgeFacts
<1>4. \A t \in 0 .. Duration - 1 : Readable(t)
  BY DEF Plain
<1>5. /\ first \in 0 .. Duration - 1 /\ last \in 0 .. Duration - 1 /\ first <= last
      /\ Verdict(first).boundary /\ Verdict(last).boundary
      /\ back.bad <= first /\ last < forth.safe
      /\ SearchedTo(Duration, back, first, ThresholdOf(film[first]), w.from)
      /\ SearchedTo(Duration, forth, last, ThresholdOf(film[last]), w.to)
      /\ forth \in Bounds
  BY <1>1, <1>3 DEF Ended, Searched
<1>6. Duration \in Nat /\ Precision \in Nat /\ Precision > 0
  BY LengthsAssumption
<1>7. Verdict(back.bad).boundary
  <2>1. CASE back.bad = first
    BY <1>5, <2>1
  <2>2. CASE back.bad # first
    <3>1. back.bad \in 0 .. Duration - 1 /\ Passes(back.bad, ThresholdOf(film[first]))
      BY <1>5, <2>2 DEF SearchedTo
    <3>2. Verdict(back.bad).passed
      BY <1>5, <3>1, PlainFacts
    <3> QED BY <1>2, <1>4, <3>1, <3>2, VerdictFacts
  <2> QED BY <2>1, <2>2
<1>8. forth.bad \in 0 .. Duration - 1 /\ Verdict(forth.bad).boundary
  <2>1. CASE forth.bad = last
    BY <1>5, <2>1
  <2>2. CASE forth.bad # last
    <3>1. forth.bad \in 0 .. Duration - 1 /\ Passes(forth.bad, ThresholdOf(film[last]))
      BY <1>5, <2>2 DEF SearchedTo
    <3>2. Verdict(forth.bad).passed
      BY <1>5, <3>1, PlainFacts
    <3> QED BY <1>2, <1>4, <3>1, <3>2, VerdictFacts
  <2> QED BY <2>1, <2>2
<1> DEFINE s == forth.safe
           d == forth.bad
<1>9. s \in Nat /\ d \in Nat /\ s <= Duration
  BY <1>1, <1>8
<1>10. d < s
  <2>1. \/ w.to <= s /\ s <= d /\ d <= last
        \/ last <= d /\ d <= s
    BY <1>5 DEF SearchedTo
  <2>2. last # w.to => d # s
    BY <1>5 DEF SearchedTo
  <2>3. last < s /\ last \in Nat /\ s <= w.to /\ w.to \in Nat
    BY <1>1, <1>2, <1>5, AllWindowFacts DEF Ended, Searched
  <2> HIDE DEF s, d
  <2> QED BY <1>9, <2>1, <2>2, <2>3
<1>11. s - d \in 1 .. Precision
  <2>1. Gap(forth) <= Precision \/ Gap(forth) <= Duration - Duration
    BY <1>4, <1>5 DEF SearchedTo
  <2>2. Gap(forth) = IF s >= d THEN s - d ELSE d - s
    BY DEF Gap
  <2> HIDE DEF s, d
  <2> QED BY <1>6, <1>9, <1>10, <2>1, <2>2
<1>12. s - d <= s /\ s - (s - d) = d
  <2> HIDE DEF s, d
  <2> QED BY <1>9
<1>13. back.bad < s
  <2>1. /\ back.bad \in Nat /\ first \in Nat /\ last \in Nat
        /\ back.bad <= first /\ first <= last /\ last < s
    BY <1>1, <1>5, <1>6
  <2> HIDE DEF s
  <2> QED BY <1>9, <2>1
<1>14. found[k].span.from = back.bad /\ found[k].span.to = s
  BY <1>1
<1>15. \E t \in 1 .. Precision : t <= s /\ Verdict(s - t).boundary
  <2>1. Verdict(s - (s - d)).boundary
    BY <1>8, <1>12
  <2> HIDE DEF s, d
  <2> QED BY <1>11, <1>12, <2>1
<1> HIDE DEF s
<1> QED BY <1>7, <1>13, <1>14, <1>15

\* A finding is no wider than its evidence, for every film that one threshold
\* judges, every window and every precision of the search.
THEOREM SpansEndOnEvidence ==
    ASSUME PaddingFits, CandidatesPass PROVE ScanSpec => []SpanEndsOnEvidence
BY ScanInvHolds, InvSpansEnd, PTL

-----------------------------------------------------------------------------
(* The scan: what lasts long enough. *)

\* A run of bad frames, as LongRunIsTagged speaks of it, that begins at from.
RunLength == Max({ScanInterval, MinPositive * DenseStep})
Stretch(from) == from .. from + RunLength - 1
BadStretch(from) == from \in 0 .. Duration - RunLength /\ \A t \in Stretch(from) : Bad(t)

LEMMA RunLengthFacts ==
    /\ RunLength \in Nat /\ RunLength >= ScanInterval /\ RunLength >= MinPositive * DenseStep
    /\ ScanInterval \in Nat /\ ScanInterval > 0
<1> DEFINE k == MinPositive * DenseStep
<1>1. k \in Nat /\ ScanInterval \in Nat /\ ScanInterval > 0
  BY LengthsAssumption, ThresholdsAssumption
<1>2. RunLength = Max({ScanInterval, k})
  BY DEF RunLength
<1> HIDE DEF k
<1>3. Max({ScanInterval, k}) = IF ScanInterval >= k THEN ScanInterval ELSE k
  BY <1>1, MaxOfTwo
<1>4. RunLength \in Nat /\ RunLength >= ScanInterval /\ RunLength >= k
  BY <1>1, <1>2, <1>3
<1> QED BY <1>1, <1>4 DEF k

\* What a run is made of.
LEMMA RunFacts ==
    ASSUME FilmIsSound, NEW from, BadStretch(from)
    PROVE  /\ from \in Nat /\ from + RunLength <= Duration /\ Duration \in Nat
           /\ Stretch(from) \in SUBSET (0 .. Duration - 1)
           /\ \A t \in Stretch(from) : Readable(t) /\ Verdict(t).passed /\ Verdict(t).boundary
           /\ \A t \in Nat : from <= t /\ t < from + RunLength => t \in Stretch(from)
           /\ from \in Stretch(from)
<1>1. /\ Duration \in Nat /\ RunLength \in Nat /\ RunLength > 0
      /\ from \in Nat /\ from <= Duration - RunLength
  BY RunLengthFacts, LengthsAssumption DEF BadStretch
<1>2. /\ Stretch(from) \in SUBSET (0 .. Duration - 1)
      /\ \A t \in Nat : from <= t /\ t < from + RunLength => t \in Stretch(from)
      /\ from \in Stretch(from)
  BY <1>1 DEF Stretch
<1>3. \A t \in Stretch(from) : Readable(t) /\ Verdict(t).passed
  BY DEF BadStretch, Bad
<1>4. \A t \in Stretch(from) : Verdict(t).boundary
  BY <1>2, <1>3, VerdictFacts
<1> QED BY <1>1, <1>2, <1>3, <1>4

\* A frame of the broad scan that a run has lies within the padding of every
\* moment of the run's: one window has the moment.
LEMMA RunIsCovered ==
    ASSUME FilmIsSound, CandidatesPass, Padding >= ScanInterval,
           NEW from, BadStretch(from), NEW t \in Stretch(from)
    PROVE  \E j \in 1 .. Len(AllWindows) : AllWindows[j].from <= t /\ t < AllWindows[j].to
<1>1. /\ ScanInterval \in Nat /\ ScanInterval > 0 /\ RunLength >= ScanInterval
      /\ RunLength \in Nat /\ from \in Nat /\ from + RunLength <= Duration /\ Duration \in Nat
      /\ t \in Nat /\ from <= t /\ t < from + RunLength /\ t < Duration
  BY RunFacts, RunLengthFacts DEF Stretch
<1>2. Padding \in Nat /\ Padding >= ScanInterval
  BY LengthsAssumption
<1>3. PICK m \in 0 .. t : m % ScanInterval = 0 /\ t < m + ScanInterval
  BY <1>1, MultipleBelow, LengthsAssumption
<1>4. PICK c \in Stretch(from) : /\ c % ScanInterval = 0
                            /\ c <= t + Padding /\ t < c + Padding
  <2>1. CASE m >= from
    <3>1. m \in Stretch(from) /\ m <= t + Padding /\ t < m + Padding
      BY <1>1, <1>2, <1>3, <2>1, RunFacts
    <3> QED BY <1>3, <3>1
  <2>2. CASE m < from
    <3>1. /\ m + ScanInterval \in Stretch(from) /\ m + ScanInterval <= t + Padding
          /\ t < (m + ScanInterval) + Padding
      BY <1>1, <1>2, <1>3, <2>2, RunFacts
    <3>2. ScanInterval % ScanInterval = 0
      BY <1>1
    <3>3. (m + ScanInterval) % ScanInterval = 0
      BY <1>1, <1>3, <3>2, MultipleSum
    <3> QED BY <3>1, <3>3
  <2> QED BY <1>1, <1>3, <2>1, <2>2
<1>5. c \in 0 .. Duration - 1 /\ c \in CandidateTimes
  BY <1>4, RunFacts, CandidateFacts
<1> DEFINE a == Around(c).from
           e == Around(c).to
<1>6. a \in Nat /\ e \in Nat /\ a <= t /\ t < e
  <2>1. /\ a = IF c >= Padding THEN c - Padding ELSE 0
        /\ e = IF c + Padding <= Duration THEN c + Padding ELSE Duration
    BY <1>5, AroundFacts
  <2>2. c \in Nat
    BY <1>5
  <2> HIDE DEF a, e
  <2> QED BY <1>1, <1>2, <1>4, <2>1, <2>2
<1>7. Wide(c)
  <2>1. a < e
    <3> HIDE DEF a, e
    <3> QED BY <1>1, <1>6
  <2> QED BY <2>1 DEF Wide
<1>8. AllWindows \in Seq(Window) /\ WindowsOf(AllWindows, CandidateTimes)
  BY CandidateFacts
<1>9. PICK j \in 1 .. Len(AllWindows) : AllWindows[j].from <= a /\ e <= AllWindows[j].to
  BY <1>5, <1>7, <1>8 DEF WindowsOf
<1>10. AllWindows[j].from \in Nat /\ AllWindows[j].to \in Nat
  BY <1>8, ElementOfSeq, WindowFacts
<1>11. AllWindows[j].from <= t /\ t < AllWindows[j].to
  <2> DEFINE x == AllWindows[j].from
             y == AllWindows[j].to
  <2>1. x \in Nat /\ y \in Nat /\ x <= a /\ e <= y
    BY <1>9, <1>10
  <2> HIDE DEF x, y, a, e
  <2>2. x <= t /\ t < y
    BY <1>1, <1>6, <2>1
  <2> QED BY <2>2 DEF x, y
<1> QED BY <1>11

\* Windows lie apart, so that one window has the whole run.
LEMMA RunInWindow ==
    ASSUME FilmIsSound, CandidatesPass, Padding >= ScanInterval, NEW from, BadStretch(from)
    PROVE  \E w \in Range(AllWindows) : w.from <= from /\ from + RunLength <= w.to
<1> DEFINE ws == AllWindows
<1>1. /\ ws \in Seq(Window) /\ WindowsOf(ws, CandidateTimes)
  BY CandidateFacts
<1>2. \A j \in 1 .. Len(ws) : ws[j].from \in Nat /\ ws[j].to \in Nat
  BY <1>1, ElementOfSeq, WindowFacts
<1>3. \A j, k \in 1 .. Len(ws) : j < k => ws[j].to < ws[k].from
  BY <1>1 DEF WindowsOf
<1>4. from \in Stretch(from) /\ from \in Nat /\ RunLength \in Nat
  BY RunFacts, RunLengthFacts
<1>5. PICK i \in 1 .. Len(ws) : ws[i].from <= from /\ from < ws[i].to
  BY <1>4, RunIsCovered
<1>6. \A t \in Stretch(from) : \E j \in 1 .. Len(ws) : ws[j].from <= t /\ t < ws[j].to
  BY RunIsCovered
<1>7. Len(ws) \in Nat /\ DOMAIN ws = 1 .. Len(ws)
  BY <1>1, LenProperties
<1> HIDE DEF ws
<1>8. from + RunLength <= ws[i].to
  <2> SUFFICES ASSUME ~(from + RunLength <= ws[i].to) PROVE FALSE
    OBVIOUS
  <2> DEFINE e == ws[i].to
  <2>1. e \in Nat /\ from < e /\ e < from + RunLength
    BY <1>2, <1>4, <1>5
  <2>2. e \in Stretch(from)
    BY <2>1, <1>4, RunFacts
  <2>3. PICK j \in 1 .. Len(ws) : ws[j].from <= e /\ e < ws[j].to
    BY <1>6, <2>2
  <2>4. ws[i].from \in Nat /\ ws[j].from \in Nat /\ ws[j].to \in Nat
    BY <1>2
  <2>5. CASE j = i
    BY <2>1, <2>3, <2>5
  <2>6. CASE i < j
    <3>1. e < ws[j].from
      BY <1>3, <2>6
    <3> HIDE DEF e
    <3> QED BY <2>1, <2>3, <2>4, <3>1
  <2>7. CASE j < i
    <3>1. ws[j].to < ws[i].from
      BY <1>3, <2>7
    <3> HIDE DEF e
    <3> QED BY <1>4, <1>5, <2>1, <2>3, <2>4, <3>1
  <2>8. i \in Int /\ j \in Int
    BY <1>7
  <2> QED BY <2>5, <2>6, <2>7, <2>8
<1>9. ws[i] \in Range(ws)
  BY <1>7 DEF Range
<1> QED BY <1>5, <1>8, <1>9 DEF ws

\* A run has as many of its window's timestamps as a confirmation takes.
LEMMA RunIsConfirmed ==
    ASSUME FilmIsSound, NEW from, BadStretch(from), NEW w \in Range(AllWindows),
           w.from <= from, from + RunLength <= w.to
    PROVE  /\ Confirmed(w)
           /\ \E d \in Stretch(from) : d \in Edges(w)
<1>1. w \in Window /\ w.from < w.to /\ w.from \in Nat /\ w.to \in Nat /\ w.to <= Duration
  BY AllWindowFacts
<1> DEFINE a == w.from
           e == w.to
           n == DenseStep
           count == MinPositive
           D == DenseTimestamps(w)
           P == {t \in D : Readable(Clamped(t)) /\ Verdict(Clamped(t)).passed}
<1>2. /\ n \in Nat \ {0} /\ n > 0 /\ count \in Nat /\ count > 0 /\ Duration \in Nat
      /\ RunLength \in Nat
      /\ count * n <= RunLength /\ from \in Nat /\ from + RunLength <= Duration
  BY LengthsAssumption, ThresholdsAssumption, RunFacts, RunLengthFacts
<1>3. a \in Nat /\ e \in Nat /\ a <= from /\ from + RunLength <= e /\ e <= Duration
  BY <1>1
<1>4. /\ D \in SUBSET Time
      /\ \A t \in a .. e - 1 : (t - a) % n = 0 => t \in D
      /\ \A s \in D : Readable(Clamped(s)) => Clamped(s) \in DenseSamples(w)
  BY <1>1, DenseFacts
<1> HIDE DEF D, a, e, n, count
<1>5. PICK m \in from - a .. (from - a) + n - 1 : m % n = 0
  <2>1. from - a \in Nat
    BY <1>2, <1>3
  <2> QED BY <1>2, <2>1, MultipleWithin
<1> DEFINE f == [k \in 1 .. count |-> a + (m + (k - 1) * n)]
<1>6. ASSUME NEW k \in 1 .. count
      PROVE  /\ f[k] \in P /\ f[k] \in Nat /\ from <= f[k] /\ f[k] < from + RunLength
  <2> DEFINE j == (k - 1) * n
  <2>1. k - 1 \in Nat /\ k - 1 <= count - 1 /\ count - 1 \in Nat
    BY <1>2
  <2>2. j \in Nat /\ j % n = 0
    <3>1. \A b \in Nat : b * n \in Nat /\ (b * n) % n = 0
      BY <1>2
    <3> QED BY <2>1, <3>1
  <2>3. j <= count * n - n
    <3>1. n * (k - 1) <= n * (count - 1)
      BY <1>2, <2>1, ProductGrows
    <3>2. n * (count - 1) = count * n - n /\ n * (k - 1) = (k - 1) * n
      BY <1>2, <2>1
    <3> QED BY <3>1, <3>2
  <2>4. count * n \in Nat
    BY <1>2
  <2> DEFINE total == count * n
  <2>5. f[k] = a + (m + j)
    OBVIOUS
  <2>6. m \in Nat /\ m >= from - a /\ m <= (from - a) + n - 1
    BY <1>2, <1>3, <1>5
  <2> DEFINE t == f[k]
  <2>7. t = a + (m + j) /\ total \in Nat /\ total <= RunLength /\ j <= total - n
    BY <1>2, <2>3, <2>4, <2>5
  <2>8. (m + j) % n = 0
    BY <1>2, <1>5, <2>2, <2>6, MultipleSum
  <2> HIDE DEF f, j, total, t
  <2>9. t \in Nat /\ from <= t /\ t < from + RunLength
    BY <1>2, <1>3, <2>2, <2>6, <2>7
  <2>10. t \in a .. e - 1 /\ t - a = m + j /\ t < Duration
    BY <1>2, <1>3, <2>2, <2>6, <2>7, <2>9
  <2>11. t \in D
    BY <1>4, <2>8, <2>10
  <2>12. Clamped(t) = t
    <3>1. t \in Time /\ t # Duration
      BY <1>2, <2>9, <2>10 DEF Time
    <3> QED BY <3>1, ClampedFacts
  <2>13. Readable(t) /\ Verdict(t).passed
    BY <2>9, RunFacts
  <2>14. t \in P
    BY <2>11, <2>12, <2>13
  <2> HIDE DEF P
  <2> QED BY <2>9, <2>14 DEF t
<1>7. f \in Injection(1 .. count, P)
  <2>1. f \in [1 .. count -> P]
    <3> DEFINE v(k) == a + (m + (k - 1) * n)
    <3>1. \A k \in 1 .. count : v(k) \in P
      BY <1>6
    <3> HIDE DEF v, P
    <3>2. f = [k \in 1 .. count |-> v(k)]
      BY DEF v
    <3> HIDE DEF f
    <3> QED BY <3>1, <3>2
  <2>2. ASSUME NEW i \in 1 .. count, NEW j \in 1 .. count, f[i] = f[j] PROVE i = j
    <3> DEFINE x == (i - 1) * n
               y == (j - 1) * n
    <3>1. i \in Nat /\ j \in Nat /\ i - 1 \in Nat /\ j - 1 \in Nat /\ m \in Int
      BY <1>2, <1>3
    <3>2. x \in Nat /\ y \in Nat
      BY <1>2, <3>1
    <3>3. a + (m + x) = a + (m + y)
      BY <2>2
    <3>4. x = y
      <4> HIDE DEF x, y, f
      <4> QED BY <1>3, <3>1, <3>2, <3>3
    <3>5. (x \div n) = i - 1 /\ (y \div n) = j - 1
      BY <1>2, <3>1
    <3> HIDE DEF f, x, y
    <3> QED BY <3>1, <3>4, <3>5
  <2>3. DOMAIN f = 1 .. count
    OBVIOUS
  <2> HIDE DEF f, P
  <2>4. IsInjective(f)
    BY <2>2, <2>3 DEF IsInjective
  <2> QED BY <2>1, <2>4 DEF Injection
<1>8. IsFiniteSet(P)
  <2>1. P \in SUBSET Nat /\ \A t \in P : t <= Duration
    <3>1. \A t \in Time : t \in Nat /\ t <= Duration
      BY <1>2 DEF Time
    <3> QED BY <1>4, <3>1
  <2> HIDE DEF P
  <2> QED BY <1>2, <2>1, FS_BoundedSetOfNaturals
<1>9. Cardinality(1 .. count) = count /\ Cardinality(1 .. count) <= Cardinality(P)
  <2> HIDE DEF f, P
  <2>1. Cardinality(1 .. count) <= Cardinality(P)
    BY <1>7, <1>8, FS_Injection
  <2>2. Cardinality(1 .. count) = IF 1 > count THEN 0 ELSE count - 1 + 1
    BY <1>2, FS_Interval
  <2> QED BY <1>2, <2>1, <2>2
<1>10. Confirmed(w)
  <2>1. Cardinality(P) \in Nat
    <3> HIDE DEF P
    <3> QED BY <1>8, FS_CardinalityType
  <2>2. Cardinality(P) >= count
    <3> HIDE DEF P
    <3> QED BY <1>2, <1>9, <2>1
  <2> QED BY <2>2 DEF Confirmed, D, count
<1>11. \E d \in Stretch(from) : d \in Edges(w)
  <2> DEFINE d == f[1]
  <2>1. 1 \in 1 .. count
    BY <1>2
  <2>2. d \in P /\ d \in Nat /\ from <= d /\ d < from + RunLength
    BY <1>6, <2>1
  <2> HIDE DEF f, d
  <2>3. d \in Stretch(from) /\ d < Duration /\ d \in D
    BY <1>2, <2>2, RunFacts
  <2>4. Clamped(d) = d
    <3>1. d \in Time /\ d # Duration
      BY <1>2, <2>2, <2>3 DEF Time
    <3> QED BY <3>1, ClampedFacts
  <2>5. d \in DenseSamples(w)
    BY <1>4, <2>3, <2>4, RunFacts
  <2>6. d \in Edges(w)
    BY <2>3, <2>5, RunFacts DEF Edges
  <2> QED BY <2>3, <2>6
<1> QED BY <1>10, <1>11

\* The searches of the run's window pass over no part of the run.
LEMMA RunInSpan ==
    ASSUME FilmIsSound, Plain, Precision = 1, NEW from, BadStretch(from),
           NEW w \in Range(AllWindows), w.from <= from, from + RunLength <= w.to,
           NEW d \in Stretch(from), d \in Edges(w),
           NEW first, NEW last, NEW back, NEW forth, Searched(w, first, last, back, forth)
    PROVE  back.bad <= from /\ from + RunLength <= forth.safe
<1>1. w \in Window /\ w.from < w.to /\ w.from \in Nat /\ w.to \in Nat /\ w.to <= Duration
  BY AllWindowFacts
<1>2. /\ from \in Nat /\ RunLength \in Nat /\ Duration \in Nat
      /\ d \in Nat /\ from <= d /\ d < from + RunLength
      /\ \A t \in Nat : from <= t /\ t < from + RunLength => t \in Stretch(from)
      /\ \A t \in Stretch(from) : t \in 0 .. Duration - 1 /\ Readable(t) /\ Verdict(t).passed
                              /\ Verdict(t).boundary
  BY RunFacts, RunLengthFacts DEF Stretch
<1>3. /\ Edges(w) \in SUBSET (0 .. Duration - 1)
      /\ first \in Edges(w) /\ last \in Edges(w)
      /\ first <= d /\ d <= last
  BY EdgeFacts DEF Searched
<1>4. /\ first \in 0 .. Duration - 1 /\ last \in 0 .. Duration - 1
      /\ first \in Nat /\ last \in Nat
  BY <1>2, <1>3
<1>5. \A t \in Stretch(from) : /\ Passes(t, ThresholdOf(film[first]))
                          /\ Passes(t, ThresholdOf(film[last]))
  BY <1>2, <1>4, PlainFacts
<1>6. /\ back \in Bounds /\ forth \in Bounds
      /\ SearchedTo(Duration, back, first, ThresholdOf(film[first]), w.from)
      /\ SearchedTo(Duration, forth, last, ThresholdOf(film[last]), w.to)
      /\ w.from <= back.bad /\ back.bad <= first /\ last <= forth.safe /\ forth.safe <= w.to
  BY DEF Searched
<1>7. /\ back.safe \in Nat /\ back.bad \in Nat /\ forth.safe \in Nat /\ forth.bad \in Nat
  BY <1>2, <1>6 DEF Bounds, Time
<1>8. back.bad <= from
  <2> DEFINE s == back.safe
             b == back.bad
             a == w.from
  <2>1. /\ (a <= s /\ s <= b /\ b <= first) \/ (first <= b /\ b <= s /\ s <= a)
        /\ s # a => ~Passes(s, ThresholdOf(film[first]))
    BY <1>6 DEF SearchedTo
  <2>2. Gap(back) <= 1
    <3>1. \A t \in 0 .. Duration - 1 : Readable(t)
      BY DEF Plain
    <3>2. Gap(back) <= Precision \/ Gap(back) <= Duration - Duration
      BY <1>6, <3>1 DEF SearchedTo
    <3>3. Gap(back) \in Nat
      BY <1>7 DEF Gap
    <3> QED BY <1>2, <3>2, <3>3
  <2>3. Gap(back) = IF s >= b THEN s - b ELSE b - s
    BY DEF Gap
  <2>4. a \in Nat /\ a <= from /\ s \in Nat /\ b \in Nat
    BY <1>1, <1>7
  <2>5. s = a /\ a = from => first <= a
    <3> SUFFICES ASSUME a = from PROVE first <= a
      OBVIOUS
    <3>1. from \in DenseSamples(w)
      <4>1. from \in Stretch(from)
        BY RunFacts
      <4> QED BY <1>1, <1>2, <4>1, DenseFacts
    <3>2. from \in Edges(w)
      BY <3>1, RunFacts DEF Edges
    <3> QED BY <3>2 DEF Searched
  <2> HIDE DEF s, b, a
  <2>6. ASSUME b > from PROVE FALSE
    <3>1. s <= b /\ a <= s /\ b <= first /\ from <= s
      BY <1>2, <1>4, <2>1, <2>2, <2>3, <2>4, <2>6
    <3>2. s \in Stretch(from)
      <4>1. s < from + RunLength
        BY <1>2, <1>3, <1>4, <2>2, <2>3, <2>4, <2>6, <3>1
      <4> QED BY <1>2, <2>4, <3>1, <4>1
    <3>3. s = a
      BY <1>5, <2>1, <3>2
    <3>4. first <= a
      BY <1>2, <2>4, <2>5, <3>1, <3>3
    <3> QED BY <1>2, <1>4, <2>4, <2>6, <3>1, <3>4
  <2>7. b <= from
    BY <1>2, <2>4, <2>6
  <2> QED BY <2>7 DEF b
<1>9. from + RunLength <= forth.safe
  <2> DEFINE s == forth.safe
             b == forth.bad
             e == w.to
  <2>1. s # e => ~Passes(s, ThresholdOf(film[last]))
    BY <1>6 DEF SearchedTo
  <2>2. last <= s /\ e \in Nat /\ from + RunLength <= e /\ s \in Nat
    BY <1>1, <1>6, <1>7
  <2> HIDE DEF s, b, e
  <2>3. ASSUME s < from + RunLength PROVE FALSE
    <3>1. s \in Stretch(from) /\ s # e
      BY <1>2, <1>3, <1>4, <2>2, <2>3
    <3> QED BY <1>5, <2>1, <3>1
  <2>4. from + RunLength <= s
    BY <1>2, <2>2, <2>3
  <2> QED BY <2>4 DEF s
<1> QED BY <1>8, <1>9

LEMMA InvTagsLongRuns ==
    ASSUME CandidatesPass, Padding >= ScanInterval, Precision = 1
    PROVE  ScanInv => LongRunIsTagged
<1> SUFFICES ASSUME ScanInv, Labelled, Plain, NEW from, BadStretch(from)
             PROVE  Carries(Stretch(from), "nudity")
  BY DEF LongRunIsTagged, BadStretch, Stretch, RunLength
<1>1. FilmIsSound /\ windows = <<>> /\ WindowsJudged /\ found \in Seq(Confirmations)
  BY FilmSound DEF ScanInv, Labelled
<1>2. PICK w \in Range(AllWindows) : w.from <= from /\ from + RunLength <= w.to
  BY <1>1, RunInWindow
<1>3. Confirmed(w) /\ \E d \in Stretch(from) : d \in Edges(w)
  BY <1>1, <1>2, RunIsConfirmed
<1>4. DenseDetection(w) \in Range(found)
  <2>1. Range(windows) = {}
    BY <1>1 DEF Range
  <2> QED BY <1>1, <1>3, <2>1 DEF WindowsJudged
<1>5. PICK k \in DOMAIN found : found[k] = DenseDetection(w)
  BY <1>4 DEF Range
<1>6. PICK first, last, back, forth :
         /\ Searched(w, first, last, back, forth)
         /\ back.bad < forth.safe =>
               DenseDetection(w) =
                  [positives |-> Positives(w), window |-> w,
                   span |-> [from |-> back.bad, to |-> forth.safe]]
  BY <1>1, <1>3, SearchesFacts
<1>7. back.bad <= from /\ from + RunLength <= forth.safe
  BY <1>1, <1>2, <1>3, <1>6, RunInSpan
<1>8. back.bad \in Nat /\ forth.safe \in Nat /\ forth.safe <= Duration
  BY <1>6, LengthsAssumption DEF Searched, Bounds, Time
<1>9. found[k].span.from = back.bad /\ found[k].span.to = forth.safe
  <2> DEFINE b == back.bad
             s == forth.safe
  <2>1. /\ b \in Nat /\ s \in Nat /\ b <= from /\ from + RunLength <= s
        /\ from \in Nat /\ RunLength \in Nat /\ RunLength > 0
    BY <1>1, <1>7, <1>8, RunFacts, RunLengthFacts
  <2> HIDE DEF b, s
  <2>2. b < s
    BY <2>1
  <2> QED BY <1>5, <1>6, <2>2 DEF b, s
<1>10. Stretch(from) \in SUBSET Nat
       /\ \A t \in Stretch(from) : back.bad <= t /\ t < forth.safe
  <2>1. from \in Nat /\ RunLength \in Nat
    BY <1>1, RunFacts, RunLengthFacts
  <2>2. \A t \in Stretch(from) : t \in Nat /\ from <= t /\ t < from + RunLength
    BY <2>1 DEF Stretch
  <2> DEFINE b == back.bad
             s == forth.safe
  <2>3. b \in Nat /\ s \in Nat /\ b <= from /\ from + RunLength <= s
    BY <1>7, <1>8
  <2> HIDE DEF b, s
  <2>4. \A t \in Stretch(from) : t \in Nat /\ b <= t /\ t < s
    BY <2>1, <2>2, <2>3
  <2> QED BY <2>4 DEF b, s
<1> QED BY <1>8, <1>9, <1>10, SpanIsTagged

\* What lasts a scan interval, and long enough for the dense scan to see it as
\* often as it wants, is labelled in full, in every film that one threshold
\* judges: when windows are padded by a scan interval or more, what passes is a
\* candidate, and time is counted in units of the precision.
THEOREM LongRunsHold ==
    ASSUME CandidatesPass, Padding >= ScanInterval, Precision = 1
    PROVE  ScanSpec => []LongRunIsTagged
BY ScanInvHolds, InvTagsLongRuns, PTL

-----------------------------------------------------------------------------
(* From the labelled movie to a viewer.                                     *)

USE NumScenesAssumption, NoneAssumption, FillersAssumption, SceneIdsAssumption,
    DefaultKeysAssumption, OptionsAssumption, ViewersAssumption

-----------------------------------------------------------------------------
(* The inductive invariant: what each stage leaves to the next.            *)

\* The muxer bakes the profiles of the scene, by its labels.
LeftToMuxer(s) == s.profiles = None /\ ~s.risky

\* The movie before the replacements: a scene per bucket.
LabelledScenes(sc) ==
    /\ sc \in [SceneIds -> SceneType]
    /\ \A i \in SceneIds : /\ sc[i].id = i
                           /\ sc[i].target = None
                           /\ ~sc[i].filler
                           /\ sc[i].content = sc[i].labels
                           /\ LeftToMuxer(sc[i])

\* Whether the options o make fillers.
Makes(o) == o.mode = "swap" /\ ~o.dryRun /\ o.filterTopics # {}

\* The topics that the labels are right about after the replacements: merging
\* a run hands down only the filtered ones.
Trusted(o) == IF Makes(o) THEN o.filterTopics ELSE Topics

\* What a scene swaps to is in the movie, whoever made it.
Linked(sc) ==
    \A s \in Range(sc) : s.target # None => \E t \in Range(sc) : t.id = s.target

\* What the analyzer guarantees of a scene besides, under the options o.
ReplacedScene(s, sc, o) ==
    /\ LeftToMuxer(s)
    /\ s.labels \subseteq s.content
    /\ s.filler => s.content = {} /\ s.target = None
    /\ s.target # None => /\ s.target = Fillers[s.id]
                          /\ \E t \in Range(sc) : t.id = s.target /\ t.filler
                          /\ Makes(o)

\* What it guarantees when fillers are made for all that is filtered.
UniformScene(s, o) ==
    /\ s.content \cap Trusted(o) = s.labels \cap Trusted(o)
    /\ Makes(o) /\ s.labels \cap o.filterTopics # {} => s.target # None

ReplacedScenes(sc, o) ==
    /\ \A s, t \in Range(sc) : s.id = t.id => s = t
    /\ \A s \in Range(sc) : ReplacedScene(s, sc, o)
    /\ o \in UniformOptions => \A s \in Range(sc) : UniformScene(s, o)

LaterStages == {"replaced", "muxed", "resolved"}

PipelineInv ==
    /\ stage \in {"labelled", "marked"} \cup LaterStages
    /\ options # None => options \in Options
    /\ stage \in {"labelled", "marked"} => options # None /\ LabelledScenes(scenes)
    /\ stage \in LaterStages => scenes \in Seq(SceneType)
    /\ stage \in LaterStages /\ options # None =>
          /\ filters = ProfileFilters(scenes, options)
          /\ Linked(scenes)
          /\ ReplacedScenes(scenes, options)
    /\ stage \in {"muxed", "resolved"} => manifest = BakeManifest(scenes, filters)
    /\ stage = "resolved" =>
          /\ viewer \in Viewers
          /\ shown = Playlist(manifest, [s \in Segments |-> Server(s, Assets, viewer)])

-----------------------------------------------------------------------------
(* The replacements. *)

\* A labelled movie is a sequence of scenes, one per bucket.
LEMMA LabelledIsSeq ==
    ASSUME NEW sc, LabelledScenes(sc)
    PROVE  /\ sc \in Seq(SceneType) /\ Len(sc) = NumScenes /\ DOMAIN sc = SceneIds
           /\ Range(sc) = {sc[i] : i \in SceneIds}
<1>1. sc \in [1 .. NumScenes -> SceneType]
  BY DEF LabelledScenes, SceneIds
<1>2. sc \in Seq(SceneType)
  BY <1>1, SeqDef
<1>3. Len(sc) = NumScenes
  BY <1>1, <1>2, LenProperties
<1> QED BY <1>1, <1>2, <1>3 DEF SceneIds, Range

\* A filler shows nothing that could be filtered.
LEMMA FillerFacts ==
    ASSUME NEW id \in Ids
    PROVE  LET t == FillerScene(id)
           IN  /\ t \in SceneType /\ t.id = id /\ t.filler
               /\ t.labels = {} /\ t.content = {} /\ t.target = None /\ LeftToMuxer(t)
BY DEF FillerScene, Scene, SceneType, Actions, LeftToMuxer

\* The scene that stands for a run: it keeps its id, swaps to its own filler,
\* and its labels name every filtered topic of the run.
LEMMA SurvivorFacts ==
    ASSUME NEW sc, LabelledScenes(sc), NEW o \in OptionType,
           NEW i \in SceneIds, StartsRun(sc, o, i)
    PROVE  LET v == Survivor(sc, o, i)
           IN  /\ v \in SceneType /\ v.id = i /\ ~v.filler /\ v.target = Fillers[i]
               /\ v.content \cap FilterKeys(o) = v.labels \cap FilterKeys(o)
               /\ v.labels \subseteq v.content /\ LeftToMuxer(v)
<1> DEFINE run == Run(sc, o, i)
           s == sc[i]
           tags == UNION {sc[j].labels \cap FilterKeys(o) : j \in run}
           shows == UNION {sc[j].content : j \in run}
           f == Fillers[s.id]
           v == [s EXCEPT !.action = "swap", !.target = f, !.labels = @ \cup tags,
                          !.content = shows]
<1>1. Survivor(sc, o, i) = v
  BY DEF Survivor
<1>2. /\ s \in SceneType /\ s.id = i /\ ~s.filler /\ LeftToMuxer(s)
      /\ \A j \in SceneIds : sc[j] \in SceneType /\ sc[j].content = sc[j].labels
  BY DEF LabelledScenes
<1>3. run \subseteq SceneIds /\ i \in run
  <2>1. Len(sc) = NumScenes /\ NumScenes \in Nat
    BY LabelledIsSeq
  <2>2. run = {j \in i .. Len(sc) : \A k \in i .. j : InRun(sc[k], o)}
    BY DEF Run
  <2>3. InRun(sc[i], o)
    BY DEF StartsRun
  <2>4. i \in i .. Len(sc) /\ (i .. Len(sc)) \subseteq SceneIds
    BY <2>1 DEF SceneIds
  <2>5. \A k \in i .. i : k = i
    BY DEF SceneIds
  <2> HIDE DEF run
  <2> QED BY <2>2, <2>3, <2>4, <2>5
<1>4. f \in Ids /\ f = Fillers[i]
  BY <1>2
<1>5. tags \in SUBSET Topics /\ shows \in SUBSET Topics
  <2>1. \A j \in run : sc[j].labels \in SUBSET Topics /\ sc[j].content \in SUBSET Topics
    BY <1>2, <1>3 DEF SceneType
  <2> HIDE DEF run
  <2> QED BY <2>1
<1>6. /\ shows \cap FilterKeys(o) = (s.labels \cup tags) \cap FilterKeys(o)
      /\ s.labels \cup tags \subseteq shows
  <2>1. \A j \in run : sc[j].content = sc[j].labels
    BY <1>2, <1>3
  <2> HIDE DEF run
  <2> QED BY <1>3, <2>1
<1> HIDE DEF s, tags, shows, f
<1>7. v.labels = s.labels \cup tags /\ v.content = shows /\ v.target = f
      /\ v.id = s.id /\ v.filler = s.filler /\ LeftToMuxer(v) /\ v \in SceneType
  BY <1>2, <1>4, <1>5 DEF SceneType, Actions, LeftToMuxer
<1> QED BY <1>1, <1>2, <1>4, <1>6, <1>7

\* The scenes after the replacements: those outside the runs, those that
\* stand for a run, and a filler for each of the latter.
LEMMA ReplacedRange ==
    ASSUME NEW sc, LabelledScenes(sc), NEW o \in OptionType,
           o.mode = "swap", ~o.dryRun
    PROVE  LET r == WithWanReplacements(sc, o)
               starts == {i \in SceneIds : StartsRun(sc, o, i)}
               outside == {i \in SceneIds : ~InRun(sc[i], o)}
           IN  /\ r \in Seq(SceneType)
               /\ Range(r) = {Survivor(sc, o, i) : i \in starts}
                             \cup {sc[i] : i \in outside}
                             \cup {FillerScene(Fillers[i]) : i \in starts}
<1> DEFINE places == [i \in DOMAIN sc |-> i]
           starts == {i \in SceneIds : StartsRun(sc, o, i)}
           outside == {i \in SceneIds : ~InRun(sc[i], o)}
           new == [i \in DOMAIN sc |-> IF i \in starts THEN Survivor(sc, o, i) ELSE sc[i]]
           made == [i \in DOMAIN sc |-> FillerScene(Fillers[sc[i].id])]
           r == WithWanReplacements(sc, o)
<1>1. DOMAIN sc = SceneIds /\ Len(sc) = NumScenes
  BY LabelledIsSeq
<1>2. r = Each(Where(places, starts \cup outside), new) \o Each(Where(places, starts), made)
  BY <1>1 DEF WithWanReplacements
<1>3. places \in Seq(SceneIds) /\ Range(places) = SceneIds
  <2>1. places = [i \in 1 .. NumScenes |-> i]
    BY <1>1 DEF SceneIds
  <2>2. places \in [1 .. NumScenes -> SceneIds]
    BY <2>1 DEF SceneIds
  <2> QED BY <2>1, <2>2, SeqDef DEF SceneIds, Range
<1>4. \A i \in SceneIds : new[i] \in SceneType /\ made[i] \in SceneType
                          /\ made[i] = FillerScene(Fillers[i])
  <2> TAKE i \in SceneIds
  <2>1. sc[i] \in SceneType /\ sc[i].id = i /\ Fillers[i] \in Ids
    BY DEF LabelledScenes
  <2>2. i \in starts => Survivor(sc, o, i) \in SceneType
    BY SurvivorFacts
  <2>3. FillerScene(Fillers[i]) \in SceneType
    BY <2>1, FillerFacts
  <2> QED BY <1>1, <2>1, <2>2, <2>3
<1>5. \A i \in SceneIds : new[i] = IF i \in starts THEN Survivor(sc, o, i) ELSE sc[i]
  BY <1>1
<1> HIDE DEF places, new, made, r
<1> DEFINE kept == Where(places, starts \cup outside)
           firsts == Where(places, starts)
<1>6. kept \in Seq(SceneIds) /\ firsts \in Seq(SceneIds)
      /\ Range(kept) = starts \cup outside /\ Range(firsts) = starts
  <2>1. starts \cup outside \subseteq SceneIds /\ starts \subseteq SceneIds
    OBVIOUS
  <2> HIDE DEF starts, outside
  <2> QED BY <1>3, <2>1, WhereType, WhereRange
<1> HIDE DEF kept, firsts
<1>7. /\ Each(kept, new) \in Seq(SceneType) /\ Each(firsts, made) \in Seq(SceneType)
      /\ Range(Each(kept, new)) = {new[i] : i \in starts \cup outside}
      /\ Range(Each(firsts, made)) = {made[i] : i \in starts}
  <2>1. /\ Each(kept, new) \in Seq(Images(new, SceneIds))
        /\ Each(firsts, made) \in Seq(Images(made, SceneIds))
    BY <1>6, EachType
  <2>2. Images(new, SceneIds) \subseteq SceneType /\ Images(made, SceneIds) \subseteq SceneType
    BY <1>4 DEF Images
  <2>3. Each(kept, new) \in Seq(SceneType) /\ Each(firsts, made) \in Seq(SceneType)
    BY <2>1, <2>2, SeqMonotonic
  <2> QED BY <1>6, <2>3, EachRange
<1>8. /\ r \in Seq(SceneType)
      /\ Range(r) = {new[i] : i \in starts \cup outside} \cup {made[i] : i \in starts}
  <2> DEFINE a == Each(kept, new)
             b == Each(firsts, made)
  <2>1. r = a \o b
    BY <1>2 DEF kept, firsts
  <2> HIDE DEF a, b
  <2>2. a \in Seq(SceneType) /\ b \in Seq(SceneType)
    BY <1>7 DEF a, b
  <2>3. r \in Seq(SceneType) /\ Range(r) = Range(a) \cup Range(b)
    BY <2>1, <2>2, ConcatProperties, RangeConcatenation
  <2> QED BY <1>7, <2>3 DEF a, b
<1>9. {new[i] : i \in starts \cup outside}
        = {Survivor(sc, o, i) : i \in starts} \cup {sc[i] : i \in outside}
  <2>1. \A i \in outside : i \notin starts
    BY DEF StartsRun
  <2>2. starts \subseteq SceneIds /\ outside \subseteq SceneIds
    OBVIOUS
  <2> HIDE DEF starts, outside
  <2>3. /\ \A i \in starts : new[i] = Survivor(sc, o, i)
        /\ \A i \in outside : new[i] = sc[i]
    BY <1>5, <2>1, <2>2
  <2> QED BY <2>3
<1>10. {made[i] : i \in starts} = {FillerScene(Fillers[i]) : i \in starts}
  <2>1. \A i \in starts : made[i] = FillerScene(Fillers[i])
    BY <1>4
  <2> HIDE DEF starts
  <2> QED BY <2>1
<1>11. /\ r \in Seq(SceneType)
       /\ Range(r) = {Survivor(sc, o, i) : i \in starts}
                     \cup {sc[i] : i \in outside}
                     \cup {FillerScene(Fillers[i]) : i \in starts}
  <2> HIDE DEF starts, outside
  <2> QED BY <1>8, <1>9, <1>10
<1> QED BY <1>11 DEF r


\* What the analyzer hands to the muxer is well formed, whatever the options.
LEMMA ReplacedIsLinked ==
    ASSUME NEW sc, LabelledScenes(sc), NEW o \in OptionType
    PROVE  LET r == WithWanReplacements(sc, o) IN r \in Seq(SceneType) /\ Linked(r)
<1> DEFINE r == WithWanReplacements(sc, o)
<1>1. CASE o.mode # "swap" \/ o.dryRun
  <2>1. r = sc
    BY <1>1 DEF WithWanReplacements
  <2>2. \A s \in Range(sc) : s.target = None
    BY LabelledIsSeq DEF LabelledScenes
  <2> HIDE DEF r
  <2>3. r \in Seq(SceneType) /\ Linked(r)
    BY <2>1, <2>2, LabelledIsSeq DEF Linked
  <2> QED BY <2>3 DEF r
<1>2. CASE o.mode = "swap" /\ ~o.dryRun
  <2> DEFINE starts == {i \in SceneIds : StartsRun(sc, o, i)}
             outside == {i \in SceneIds : ~InRun(sc[i], o)}
  <2>1. /\ r \in Seq(SceneType)
        /\ Range(r) = {Survivor(sc, o, i) : i \in starts}
                      \cup {sc[i] : i \in outside}
                      \cup {FillerScene(Fillers[i]) : i \in starts}
    BY <1>2, ReplacedRange
  <2>2. ASSUME NEW s \in Range(r), s.target # None
        PROVE  \E t \in Range(r) : t.id = s.target
    <3>1. CASE \E i \in starts : s = Survivor(sc, o, i)
      <4>1. PICK i \in starts : s = Survivor(sc, o, i)
        BY <3>1
      <4>2. s.target = Fillers[i] /\ Fillers[i] \in Ids
        BY <4>1, SurvivorFacts
      <4>3. FillerScene(Fillers[i]) \in Range(r) /\ FillerScene(Fillers[i]).id = Fillers[i]
        <5>1. FillerScene(Fillers[i]).id = Fillers[i]
          BY <4>2, FillerFacts
        <5> HIDE DEF r, starts, outside
        <5> QED BY <2>1, <5>1
      <4> QED BY <4>2, <4>3
    <3>2. CASE \E i \in outside : s = sc[i]
      BY <2>2, <3>2 DEF LabelledScenes
    <3>3. CASE \E i \in starts : s = FillerScene(Fillers[i])
      BY <2>2, <3>3, FillerFacts
    <3> HIDE DEF r, starts, outside
    <3> QED BY <2>1, <2>2, <3>1, <3>2, <3>3
  <2> HIDE DEF r, starts, outside
  <2>3. r \in Seq(SceneType) /\ Linked(r)
    BY <2>1, <2>2 DEF Linked
  <2> QED BY <2>3 DEF r
<1> QED BY <1>1, <1>2 DEF OptionType

\* Ids are not shared, and labels, fillers and targets are what they should
\* be, and more so if the options make fillers for all that they filter.
LEMMA ReplacedIsRight ==
    ASSUME NEW sc, LabelledScenes(sc), NEW o \in OptionType
    PROVE  ReplacedScenes(WithWanReplacements(sc, o), o)
<1> DEFINE r == WithWanReplacements(sc, o)
<1>0. o \in UniformOptions /\ o.mode = "swap" /\ ~o.dryRun => o.wanTags = {} /\ o.wanSegments = {}
  BY DEF UniformOptions
<1>1. CASE o.mode # "swap" \/ o.dryRun
  <2>1. r = sc /\ ~Makes(o)
    BY <1>1 DEF WithWanReplacements, Makes
  <2>2. \A s \in Range(sc) : /\ s.target = None /\ ~s.filler /\ s.content = s.labels
                             /\ LeftToMuxer(s)
    BY LabelledIsSeq DEF LabelledScenes
  <2>3. \A s, t \in Range(sc) : s.id = t.id => s = t
    BY LabelledIsSeq DEF LabelledScenes
  <2> HIDE DEF r
  <2>4. ReplacedScenes(r, o)
    BY <2>1, <2>2, <2>3 DEF ReplacedScenes, ReplacedScene, UniformScene
  <2> QED BY <2>4 DEF r
<1>2. CASE o.mode = "swap" /\ ~o.dryRun
  <2> DEFINE starts == {i \in SceneIds : StartsRun(sc, o, i)}
             outside == {i \in SceneIds : ~InRun(sc[i], o)}
             uniform == o \in UniformOptions
  <2>1. Range(r) = {Survivor(sc, o, i) : i \in starts}
                   \cup {sc[i] : i \in outside}
                   \cup {FillerScene(Fillers[i]) : i \in starts}
    BY <1>2, ReplacedRange
  <2>2. /\ o.filterTopics \subseteq Topics
        /\ \A i \in SceneIds : InRun(sc[i], o) => sc[i].labels \cap o.filterTopics # {}
        /\ uniform => FilterKeys(o) = o.filterTopics
        /\ uniform => \A i \in SceneIds :
                         InRun(sc[i], o) <=> sc[i].labels \cap o.filterTopics # {}
    BY <1>0, <1>2 DEF FilterKeys, InRun, OptionType
  <2> HIDE DEF uniform
  <2>3. ASSUME NEW i \in starts
        PROVE  LET v == Survivor(sc, o, i)
               IN  /\ v.id = i /\ ~v.filler /\ v.target = Fillers[i] /\ Makes(o)
                   /\ v.labels \subseteq v.content /\ LeftToMuxer(v)
                   /\ uniform => v.content \cap Trusted(o) = v.labels \cap Trusted(o)
    <3>1. Makes(o)
      <4>1. InRun(sc[i], o)
        BY DEF StartsRun
      <4> QED BY <1>2, <2>2, <4>1 DEF Makes
    <3> QED BY <2>2, <3>1, SurvivorFacts DEF Trusted
  <2>4. ASSUME NEW i \in outside
        PROVE  /\ sc[i].id = i /\ ~sc[i].filler /\ sc[i].target = None
               /\ sc[i].content = sc[i].labels /\ LeftToMuxer(sc[i])
               /\ uniform => sc[i].labels \cap o.filterTopics = {}
    BY <2>2 DEF LabelledScenes
  <2>5. ASSUME NEW i \in starts
        PROVE  LET t == FillerScene(Fillers[i])
               IN  /\ t.id = Fillers[i] /\ t.filler /\ t.target = None
                   /\ t.labels = {} /\ t.content = {} /\ LeftToMuxer(t)
    BY FillerFacts
  <2>6. \A i \in starts \cup outside, j \in starts : i # Fillers[j]
    OBVIOUS
  <2>7. \A i \in starts : i \notin outside
    BY DEF StartsRun
  <2>8. \A i, j \in starts : Fillers[i] = Fillers[j] => i = j
    BY DEF IsInjective
  <2> HIDE DEF r, starts, outside
  <2>9. ASSUME NEW s \in Range(r), NEW t \in Range(r), s.id = t.id PROVE s = t
    <3>1. CASE \E i \in starts : s = Survivor(sc, o, i)
      BY <2>1, <2>3, <2>4, <2>5, <2>6, <2>7, <2>9, <3>1
    <3>2. CASE \E i \in outside : s = sc[i]
      BY <2>1, <2>3, <2>4, <2>5, <2>6, <2>7, <2>9, <3>2
    <3>3. CASE \E i \in starts : s = FillerScene(Fillers[i])
      BY <2>1, <2>3, <2>4, <2>5, <2>6, <2>8, <2>9, <3>3
    <3> QED BY <2>1, <3>1, <3>2, <3>3
  <2>10. ASSUME NEW s \in Range(r)
         PROVE  ReplacedScene(s, r, o) /\ (uniform => UniformScene(s, o))
    <3>1. CASE \E i \in starts : s = Survivor(sc, o, i)
      <4>1. PICK i \in starts : s = Survivor(sc, o, i)
        BY <3>1
      <4>2. FillerScene(Fillers[i]) \in Range(r)
        BY <2>1
      <4>3. FillerScene(Fillers[i]).id = Fillers[i] /\ FillerScene(Fillers[i]).filler
        BY <2>5
      <4>4. /\ s.id = i /\ ~s.filler /\ s.target = Fillers[i] /\ Makes(o)
            /\ s.labels \subseteq s.content /\ LeftToMuxer(s)
            /\ uniform => s.content \cap Trusted(o) = s.labels \cap Trusted(o)
        BY <2>3, <4>1
      <4>5. Fillers[i] # None /\ i \in SceneIds
        BY DEF starts
      <4> QED BY <4>2, <4>3, <4>4, <4>5 DEF ReplacedScene, UniformScene
    <3>2. CASE \E i \in outside : s = sc[i]
      BY <2>4, <3>2 DEF ReplacedScene, UniformScene
    <3>3. CASE \E i \in starts : s = FillerScene(Fillers[i])
      BY <2>5, <3>3 DEF ReplacedScene, UniformScene
    <3> QED BY <2>1, <3>1, <3>2, <3>3
  <2>11. ReplacedScenes(r, o)
    BY <2>9, <2>10 DEF ReplacedScenes, uniform
  <2> QED BY <2>11 DEF r
<1> QED BY <1>1, <1>2 DEF OptionType

-----------------------------------------------------------------------------
(* Baking, and the decision about one segment.                             *)

\* The most restrictive of the modes that the matching keys have, when all
\* keys have the same.
LEMMA OneMode ==
    ASSUME NEW s, NEW keys, NEW m \in {"skip", "swap"}
    PROVE  MostRestrictive({[n \in keys |-> m][k] : k \in s.labels \cap keys})
              = IF s.labels \cap keys = {} THEN "play" ELSE m
<1> DEFINE acts == {[n \in keys |-> m][k] : k \in s.labels \cap keys}
<1>1. CASE s.labels \cap keys = {}
  <2>1. acts = {}
    BY <1>1
  <2> QED BY <1>1, <2>1 DEF MostRestrictive
<1>2. CASE s.labels \cap keys # {}
  <2>1. acts = {m}
    BY <1>2
  <2> HIDE DEF acts
  <2>2. Priority[m] >= Priority[m]
    BY DEF Priority
  <2>3. MostRestrictive({m}) = CHOOSE a \in {m} : \A b \in {m} : Priority[a] >= Priority[b]
    BY DEF MostRestrictive
  <2>4. MostRestrictive({m}) = m
    BY <2>2, <2>3
  <2>5. MostRestrictive(acts) = m
    BY <2>1, <2>4
  <2> QED BY <1>2, <2>5 DEF acts
<1> QED BY <1>1, <1>2

\* Profiles that give all of their keys one mode.
Uniformly(keys, m) == [p \in Profiles |-> [k \in keys[p] |-> m]]

\* What such profiles say of a scene in the manifest.
LEMMA BakedFacts ==
    ASSUME NEW s, LeftToMuxer(s), NEW keys, NEW m \in {"skip", "swap"}
    PROVE  LET b == BakeSegment(s, Uniformly(keys, m))
           IN  /\ b.id = s.id /\ b.labels = s.labels /\ b.filler = s.filler
               /\ b.target = s.target /\ DOMAIN b.profiles = Profiles
               /\ \A p \in Profiles :
                     b.profiles[p] =
                        [action |-> IF s.labels \cap keys[p] = {} THEN "play" ELSE m,
                         target |-> IF s.labels \cap keys[p] # {} /\ m = "swap" /\ s.target # None
                                    THEN s.target ELSE s.id]
<1> DEFINE filt == Uniformly(keys, m)
           b == BakeSegment(s, filt)
<1>1. /\ b.id = s.id /\ b.labels = s.labels /\ b.filler = s.filler /\ b.target = s.target
      /\ b.profiles = [p \in Profiles |-> BakedAction(s, filt[p])]
  BY DEF BakeSegment, LeftToMuxer
<1>2. ASSUME NEW p \in Profiles
      PROVE  BakedAction(s, filt[p]) =
                [action |-> IF s.labels \cap keys[p] = {} THEN "play" ELSE m,
                 target |-> IF s.labels \cap keys[p] # {} /\ m = "swap" /\ s.target # None
                            THEN s.target ELSE s.id]
  <2> DEFINE fp == [k \in keys[p] |-> m]
  <2>1. filt[p] = fp /\ DOMAIN fp = keys[p]
    BY DEF Uniformly
  <2>2. MostRestrictive({fp[k] : k \in s.labels \cap DOMAIN fp})
          = IF s.labels \cap keys[p] = {} THEN "play" ELSE m
    <3> DEFINE K == keys[p]
    <3>1. fp = [k \in K |-> m] /\ DOMAIN fp = K
      OBVIOUS
    <3> HIDE DEF K, fp
    <3>2. MostRestrictive({[n \in K |-> m][k] : k \in s.labels \cap K})
            = IF s.labels \cap K = {} THEN "play" ELSE m
      BY OneMode, Zenon
    <3>3. MostRestrictive({fp[k] : k \in s.labels \cap DOMAIN fp})
            = IF s.labels \cap K = {} THEN "play" ELSE m
      BY <3>1, <3>2
    <3> QED BY <3>3 DEF K
  <2> DEFINE a == IF s.labels \cap keys[p] = {} THEN "play" ELSE m
  <2>3. MatchingActions(s, fp) = {fp[k] : k \in s.labels \cap DOMAIN fp}
    BY DEF MatchingActions, LeftToMuxer
  <2> HIDE DEF fp, filt
  <2>4. MostRestrictive(MatchingActions(s, fp)) = a
    BY <2>2, <2>3
  <2>5. BakedAction(s, filt[p]) =
           [action |-> a,
            target |-> IF a = "swap" /\ s.target # None THEN s.target ELSE s.id]
    <3> HIDE DEF a
    <3> QED BY <2>1, <2>4, Zenon DEF BakedAction
  <2>6. a = "swap" <=> s.labels \cap keys[p] # {} /\ m = "swap"
    OBVIOUS
  <2>7. (IF a = "swap" /\ s.target # None THEN s.target ELSE s.id)
           = IF s.labels \cap keys[p] # {} /\ m = "swap" /\ s.target # None
             THEN s.target ELSE s.id
    <3> HIDE DEF a
    <3> QED BY <2>6
  <2> QED BY <2>5, <2>7
<1> HIDE DEF b, filt
<1>3. /\ b.id = s.id /\ b.labels = s.labels /\ b.filler = s.filler /\ b.target = s.target
      /\ DOMAIN b.profiles = Profiles
      /\ \A p \in Profiles : b.profiles[p] = BakedAction(s, filt[p])
  BY <1>1
<1> QED BY <1>2, <1>3 DEF b, filt


\* What a viewer does not want to see: the topics they avoid, or else what
\* their profile filters.
HiddenFrom(v, keys) == IF AvoidsTopics(v) THEN v.avoided ELSE keys[v.profile]

\* What a filtered scene swaps to: its target, or itself.
SwapsTo(s) == IF s.target # None THEN s.target ELSE s.id

\* A scene of which the file has what it may swap to.
Swappable(s, m, assets) ==
    /\ LeftToMuxer(s)
    /\ s.id \in assets
    /\ s.target # None => s.target \in assets
    /\ m = "skip" => s.target = None

\* Whether a viewer who is filtered by keys finds a filler for what is filtered.
HasFiller(s, keys, m) ==
    m = "swap" => \A p \in Profiles : s.labels \cap keys[p] # {} => s.target # None

\* There is nothing to swap to but the target, or the scene itself.
LEMMA SwapTargetFacts ==
    ASSUME NEW s, NEW keys, NEW m \in {"skip", "swap"}, NEW assets,
           Swappable(s, m, assets)
    PROVE  LET b == BakeSegment(s, Uniformly(keys, m))
           IN  /\ SwapTargets(b) \subseteq {SwapsTo(s)}
               /\ m = "skip" \/ HasFiller(s, keys, m) =>
                     (HasSwapTarget(b) <=> s.target # None)
               /\ HasSwapTarget(b) => m = "swap"
<1> DEFINE b == BakeSegment(s, Uniformly(keys, m))
<1> HIDE DEF b
<1>1. /\ b.target = s.target /\ DOMAIN b.profiles = Profiles
      /\ \A p \in Profiles :
            b.profiles[p] =
               [action |-> IF s.labels \cap keys[p] = {} THEN "play" ELSE m,
                target |-> IF s.labels \cap keys[p] # {} /\ m = "swap" /\ s.target # None
                           THEN s.target ELSE s.id]
  BY BakedFacts DEF b, Swappable
<1>2. ASSUME NEW p \in Profiles, b.profiles[p].action = "swap"
      PROVE  /\ s.labels \cap keys[p] # {} /\ m = "swap"
             /\ b.profiles[p].target = SwapsTo(s)
  <2> DEFINE t == IF s.labels \cap keys[p] # {} /\ m = "swap" /\ s.target # None
                  THEN s.target ELSE s.id
             a == IF s.labels \cap keys[p] = {} THEN "play" ELSE m
  <2>1. b.profiles[p] = [action |-> a, target |-> t]
    BY <1>1
  <2> HIDE DEF a, t
  <2>2. a = "swap" /\ b.profiles[p].target = t
    BY <1>2, <2>1
  <2>3. s.labels \cap keys[p] # {} /\ m = "swap"
    BY <2>2 DEF a
  <2> QED BY <2>2, <2>3 DEF t, SwapsTo
<1>3. SwapTargets(b) \subseteq {SwapsTo(s)}
  BY <1>1, <1>2 DEF SwapTargets
<1>4. SwapTargets(b) # {} => m = "swap" /\ \E p \in Profiles : s.labels \cap keys[p] # {}
  BY <1>1, <1>2 DEF SwapTargets
<1>5. m = "skip" \/ HasFiller(s, keys, m) => (HasSwapTarget(b) <=> s.target # None)
  BY <1>1, <1>4 DEF HasSwapTarget, HasFiller
<1>6. HasSwapTarget(b) => m = "swap"
  BY <1>1, <1>4 DEF HasSwapTarget, Swappable
<1> QED BY <1>3, <1>5, <1>6 DEF b

\* One segment, one viewer: what has nothing to hide plays as itself; the
\* rest is left out, or swapped.
LEMMA ServerDecides ==
    ASSUME NEW s, NEW keys, NEW m \in {"skip", "swap"}, NEW v \in ViewerType,
           NEW assets, Swappable(s, m, assets)
    PROVE  LET b == BakeSegment(s, Uniformly(keys, m))
               d == Server(b, assets, v)
           IN  /\ s.labels \cap HiddenFrom(v, keys) = {} => d = Entry(s, s.id, "play")
               /\ s.labels \cap HiddenFrom(v, keys) # {} =>
                     \/ d = Omit
                     \/ /\ d = Entry(s, SwapsTo(s), "swap")
                        /\ HasFiller(s, keys, m) => s.target # None
<1> DEFINE b == BakeSegment(s, Uniformly(keys, m))
           d == Server(b, assets, v)
           hidden == HiddenFrom(v, keys)
<1>0. /\ b.id = s.id /\ b.labels = s.labels /\ b.target = s.target
      /\ DOMAIN b.profiles = Profiles
      /\ \A p \in Profiles :
            b.profiles[p] =
               [action |-> IF s.labels \cap keys[p] = {} THEN "play" ELSE m,
                target |-> IF s.labels \cap keys[p] # {} /\ m = "swap" /\ s.target # None
                           THEN s.target ELSE s.id]
      /\ SwapTargets(b) \subseteq {SwapsTo(s)}
      /\ HasFiller(s, keys, m) => (HasSwapTarget(b) <=> s.target # None)
      /\ HasSwapTarget(b) => m = "swap"
  BY BakedFacts, SwapTargetFacts DEF Swappable
<1>v. v.profile \in Profiles /\ v.hitAction \in {"skip", "swap"}
  BY DEF ViewerType
<1>a. s.id \in assets /\ SwapsTo(s) \in assets
  BY DEF Swappable, SwapsTo
<1> HIDE DEF b
<1> SUFFICES /\ s.labels \cap hidden = {} => d = Entry(s, s.id, "play")
             /\ s.labels \cap hidden # {} =>
                   \/ d = Omit
                   \/ /\ d = Entry(s, SwapsTo(s), "swap")
                      /\ HasFiller(s, keys, m) => s.target # None
  BY DEF b
<1>e. \A t, a : Entry(b, t, a) = Entry(s, t, a)
  BY <1>0 DEF Entry
<1>1. CASE AvoidsTopics(v)
  <2>1. d = ServerTopics(b, assets, v.avoided, v.hitAction) /\ hidden = v.avoided
    BY <1>1 DEF Server, AvoidsTopics, HiddenFrom
  <2> DEFINE action == ResolveAction(b, v.avoided, v.hitAction)
  <2>2. d = Decision(b, action, ResolveTargetId(b, action), assets,
                     IF action = "swap" THEN Failure ELSE Omit)
    BY <2>1 DEF ServerTopics
  <2>3. /\ s.labels \cap hidden = {} => action = "play"
        /\ s.labels \cap hidden # {} => action \in {"skip", "swap"}
        /\ action = "swap" => HasSwapTarget(b)
    BY <1>0, <2>1 DEF ResolveAction, Hits, RestrictHit
  <2> HIDE DEF action, d, hidden
  <2>4. CASE action = "play"
    <3>1. d = Entry(b, s.id, "play")
      BY <1>0, <1>a, <2>2, <2>4 DEF ResolveTargetId, Decision, RuntimeSupportedActions
    <3> QED BY <1>e, <2>3, <2>4, <3>1
  <2>5. CASE action = "skip"
    BY <2>2, <2>3, <2>5 DEF Decision, RuntimeSupportedActions
  <2>6. CASE action = "swap"
    <3>1. ResolveTargetId(b, action) = SwapsTo(s)
      <4>1. CASE s.target # None
        BY <1>0, <2>6, <4>1 DEF ResolveTargetId, SwapsTo
      <4>2. CASE s.target = None
        <5>1. SwapTargets(b) = {SwapsTo(s)}
          BY <1>0, <2>3, <2>6, <4>2 DEF HasSwapTarget
        <5>2. ResolveTargetId(b, action) = CHOOSE t \in SwapTargets(b) : TRUE
          BY <1>0, <2>6, <4>2 DEF ResolveTargetId
        <5> QED BY <5>1, <5>2
      <4> QED BY <4>1, <4>2
    <3>2. d = Entry(b, SwapsTo(s), "swap")
      BY <1>a, <2>2, <2>6, <3>1 DEF Decision, RuntimeSupportedActions
    <3> QED BY <1>0, <1>e, <2>3, <2>6, <3>2
  <2> QED BY <2>3, <2>4, <2>5, <2>6
<1>2. CASE ~AvoidsTopics(v)
  <2> DEFINE preferred == IF v.signedIn THEN v.hitAction ELSE None
             baked == b.profiles[v.profile]
             action == IF preferred = None THEN baked.action
                       ELSE ApplyPreferredAction(baked.action, preferred, HasSwapTarget(b))
             target == IF preferred # None /\ action # "swap" THEN b.id ELSE baked.target
  <2>1. d = Decision(b, action, target, assets, Omit) /\ hidden = keys[v.profile]
    <3>1. d = ServerProfile(b, assets, v.profile, preferred)
      BY <1>2 DEF Server, AvoidsTopics, ViewerType
    <3>2. Baked(b, v.profile) = baked
      BY <1>0, <1>v DEF Baked
    <3> QED BY <1>2, <3>1, <3>2 DEF ServerProfile, HiddenFrom
  <2>2. /\ baked.action = IF s.labels \cap hidden = {} THEN "play" ELSE m
        /\ baked.target = IF s.labels \cap hidden # {} /\ m = "swap" /\ s.target # None
                          THEN s.target ELSE s.id
    <3>1. b.profiles[v.profile] =
             [action |-> IF s.labels \cap keys[v.profile] = {} THEN "play" ELSE m,
              target |-> IF s.labels \cap keys[v.profile] # {} /\ m = "swap"
                            /\ s.target # None
                         THEN s.target ELSE s.id]
      BY <1>0, <1>v
    <3> HIDE DEF hidden
    <3> QED BY <2>1, <3>1
  <2> HIDE DEF d, hidden, baked
  <2>3. /\ s.labels \cap hidden = {} => action = "play"
        /\ s.labels \cap hidden # {} => action \in {"skip", "swap"}
        /\ action = "swap" => s.labels \cap hidden # {} /\ m = "swap"
    <3>1. CASE preferred = None
      BY <2>2, <3>1
    <3>2. CASE preferred # None
      <4>1. action = ApplyPreferredAction(baked.action, preferred, HasSwapTarget(b))
        BY <3>2
      <4> HIDE DEF action, preferred
      <4> QED BY <1>0, <2>2, <4>1 DEF ApplyPreferredAction, RestrictHit
    <3> QED BY <3>1, <3>2
  <2>4. target = IF preferred # None /\ action # "swap" THEN s.id ELSE baked.target
    BY <1>0
  <2>5. /\ action = "play" => baked.target = s.id
        /\ action = "swap" => baked.target = SwapsTo(s)
        /\ action = "swap" /\ HasFiller(s, keys, m) => s.target # None
    <3>1. action = "play" => s.labels \cap hidden = {}
      BY <2>3
    <3>2. action = "swap" /\ HasFiller(s, keys, m) => s.target # None
      <4> HIDE DEF action
      <4> QED BY <1>v, <2>1, <2>3 DEF HasFiller
    <3> HIDE DEF action
    <3> QED BY <2>2, <2>3, <3>1, <3>2 DEF SwapsTo
  <2> HIDE DEF action, target, preferred
  <2>6. CASE action = "play"
    <3>1. d = Entry(b, s.id, "play")
      BY <1>a, <2>1, <2>4, <2>5, <2>6 DEF Decision, RuntimeSupportedActions
    <3> QED BY <1>e, <2>3, <2>6, <3>1
  <2>7. CASE action = "skip"
    BY <2>1, <2>3, <2>7 DEF Decision, RuntimeSupportedActions
  <2>8. CASE action = "swap"
    <3>1. d = Entry(b, SwapsTo(s), "swap")
      BY <1>a, <2>1, <2>4, <2>5, <2>8 DEF Decision, RuntimeSupportedActions
    <3> QED BY <1>e, <2>3, <2>5, <2>8, <3>1
  <2> QED BY <2>3, <2>6, <2>7, <2>8
<1> QED BY <1>1, <1>2


-----------------------------------------------------------------------------
(* The movie of the analyzer.                                               *)

\* The keys that _profiles_for_manifest gives each profile, and their mode.
KeysOf(o) ==
    [p \in Profiles |-> IF DefaultKeys[p] = {} THEN {}
                        ELSE IF o.filterTopics # {} THEN o.filterTopics ELSE DefaultKeys[p]]
ModeOf(sc, o) ==
    IF o.mode = "swap" /\ (o.dryRun \/ ~Replaced(sc)) THEN "skip" ELSE o.mode

\* The profiles filter what the labels are right about, and swap only what
\* has something to swap to.
LEMMA FilterFacts ==
    ASSUME NEW sc, NEW o \in OptionType, ReplacedScenes(sc, o)
    PROVE  /\ ProfileFilters(sc, o) = Uniformly(KeysOf(o), ModeOf(sc, o))
           /\ KeysOf(o) \in [Profiles -> SUBSET Topics]
           /\ \A p \in Profiles : KeysOf(o)[p] \subseteq Trusted(o)
           /\ ModeOf(sc, o) \in {"skip", "swap"}
           /\ \A s \in Range(sc) :
                 /\ ModeOf(sc, o) = "skip" => s.target = None
                 /\ o \in UniformOptions => HasFiller(s, KeysOf(o), ModeOf(sc, o))
<1> DEFINE m == ModeOf(sc, o)
           keys == KeysOf(o)
<1>2. m \in {"skip", "swap"} /\ (m = "swap" => o.mode = "swap" /\ ~o.dryRun /\ Replaced(sc))
  BY DEF ModeOf, OptionType
<1>3. keys \in [Profiles -> SUBSET Topics]
  BY DEF KeysOf, OptionType
<1>4. ASSUME NEW p \in Profiles PROVE keys[p] \subseteq Trusted(o)
  <2>1. CASE Makes(o)
    <3>1. o.filterTopics # {}
      BY <2>1 DEF Makes
    <3>2. keys[p] = {} \/ keys[p] = o.filterTopics
      BY <3>1 DEF KeysOf
    <3> QED BY <2>1, <3>2 DEF Trusted
  <2>2. CASE ~Makes(o)
    BY <1>3, <2>2 DEF Trusted
  <2> QED BY <2>1, <2>2
<1>5. ASSUME NEW s \in Range(sc), m = "skip" PROVE s.target = None
  <2>1. CASE Makes(o)
    <3>1. ~Replaced(sc)
      BY <1>5, <2>1 DEF ModeOf, Makes
    <3> QED BY <3>1 DEF Replaced, Range
  <2>2. CASE ~Makes(o)
    BY <2>2 DEF ReplacedScenes, ReplacedScene
  <2> QED BY <2>1, <2>2
<1>6. ASSUME NEW s \in Range(sc), o \in UniformOptions, m = "swap", NEW p \in Profiles,
             s.labels \cap keys[p] # {}
      PROVE  s.target # None
  <2>1. PICK i \in DOMAIN sc : sc[i].target # None
    BY <1>2, <1>6 DEF Replaced
  <2>2. Makes(o)
    BY <2>1 DEF ReplacedScenes, ReplacedScene, Range
  <2>3. keys[p] \subseteq o.filterTopics
    BY <1>4, <2>2 DEF Trusted
  <2>4. s.labels \cap o.filterTopics # {}
    BY <1>6, <2>3
  <2> QED BY <1>6, <2>2, <2>4 DEF ReplacedScenes, UniformScene
<1>7. ProfileFilters(sc, o) = Uniformly(keys, m)
  <2>1. m = IF o.mode = "swap" /\ (o.dryRun \/ ~Replaced(sc)) THEN "skip" ELSE o.mode
    BY DEF ModeOf
  <2>2. ProfileFilters(sc, o) =
           [p \in Profiles |->
              [k \in IF DefaultKeys[p] = {} THEN {}
                     ELSE IF o.filterTopics # {} THEN o.filterTopics ELSE DefaultKeys[p]
                  |-> m]]
    BY <2>1, Zenon DEF ProfileFilters
  <2>3. \A p \in Profiles :
           keys[p] = IF DefaultKeys[p] = {} THEN {}
                     ELSE IF o.filterTopics # {} THEN o.filterTopics ELSE DefaultKeys[p]
    BY DEF KeysOf
  <2> HIDE DEF m, keys
  <2> QED BY <2>2, <2>3 DEF Uniformly
<1> HIDE DEF m, keys
<1>8. /\ ProfileFilters(sc, o) = Uniformly(keys, m)
      /\ keys \in [Profiles -> SUBSET Topics]
      /\ \A p \in Profiles : keys[p] \subseteq Trusted(o)
      /\ m \in {"skip", "swap"}
      /\ \A s \in Range(sc) :
            /\ m = "skip" => s.target = None
            /\ o \in UniformOptions => HasFiller(s, keys, m)
  BY <1>2, <1>3, <1>4, <1>5, <1>6, <1>7 DEF HasFiller
<1> QED BY <1>8 DEF m, keys

\* What the muxer makes of each scene, as a function.
Bakes(sc, filt) == [s \in Range(sc) |-> BakeSegment(s, filt)]

LEMMA ManifestIsEach ==
    ASSUME NEW S, NEW sc \in Seq(S), NEW filt
    PROVE  /\ BakeManifest(sc, filt) = Each(sc, Bakes(sc, filt))
           /\ Range(BakeManifest(sc, filt)) = {BakeSegment(s, filt) : s \in Range(sc)}
<1>1. \A i \in DOMAIN sc : Bakes(sc, filt)[sc[i]] = BakeSegment(sc[i], filt)
  BY DEF Bakes, Range
<1>2. BakeManifest(sc, filt) = Each(sc, Bakes(sc, filt))
  BY <1>1, Zenon DEF BakeManifest, Each
<1>3. \A s \in Range(sc) : Bakes(sc, filt)[s] = BakeSegment(s, filt)
  BY DEF Bakes
<1>4. Range(Each(sc, Bakes(sc, filt))) = {Bakes(sc, filt)[x] : x \in Range(sc)}
  BY EachRange
<1> QED BY <1>2, <1>3, <1>4

\* A playlist, from the scenes that the segments were made of.
LEMMA PlaylistOfScenes ==
    ASSUME NEW S, NEW sc \in Seq(S), NEW bake, NEW dec, S = Range(sc)
    PROVE  LET h == [s \in S |-> dec[bake[s]]]
               list == Playlist(Each(sc, bake), dec)
           IN  list.entries =
                  Each(Where(sc, {s \in S : ~bake[s].filler /\ h[s].kind = "entry"}), h)
<1> DEFINE h == [s \in S |-> dec[bake[s]]]
           M == Each(sc, bake)
           P == {s \in S : ~bake[s].filler}
           NF == {b \in Range(M) : ~b.filler}
           D == Each(Where(M, NF), dec)
           E == {d \in Range(D) : d.kind = "entry"}
           PE == {s \in S : ~bake[s].filler /\ h[s].kind = "entry"}
           Q == {x \in S : bake[x] \in NF}
           G == {x \in S : h[x] \in E}
           w == Where(sc, P)
<1>1. Playlist(M, dec).entries = Where(D, E)
  BY DEF Playlist
<1>2. \A x \in S : bake[x] \in Range(M)
  BY EachRange
<1>3. \A x \in S : x \in P <=> x \in Q
  <2> HIDE DEF M
  <2> QED BY <1>2
<1>4. Where(M, NF) = Each(Where(sc, Q), bake)
  <2> HIDE DEF NF
  <2> QED BY WhereEach
<1>5. Where(sc, Q) = w
  <2> HIDE DEF P, Q
  <2> QED BY <1>3, WhereSame
<1>6. w \in Seq(S) /\ Range(w) = P
  <2>1. P \subseteq S
    OBVIOUS
  <2> HIDE DEF P
  <2>2. Where(sc, P) \in Seq(S)
    BY WhereType
  <2>3. Range(Where(sc, P)) = Range(sc) \cap P
    BY WhereRange
  <2> QED BY <2>1, <2>2, <2>3
<1>7. \A x \in S : h[x] = dec[bake[x]]
  OBVIOUS
<1> HIDE DEF M, P, NF, Q, w, h
<1>8. D = Each(w, h)
  <2>1. \A x \in Range(w) : h[x] = dec[bake[x]]
    BY <1>6, <1>7 DEF P
  <2>2. Each(Each(w, bake), dec) = Each(w, h)
    BY <1>6, <2>1, EachTwice
  <2> QED BY <1>4, <1>5, <2>2
<1> HIDE DEF D
<1>9. Range(D) = {h[x] : x \in P}
  BY <1>6, <1>8, EachRange
<1>10. Where(D, E) = Each(Where(w, G), h)
  <2> HIDE DEF E
  <2> QED BY <1>6, <1>8, WhereEach
<1>11. Where(w, G) = Where(sc, P \cap G)
  <2> HIDE DEF G
  <2> QED BY WhereTwice DEF w
<1>12. Where(sc, P \cap G) = Where(sc, PE)
  <2>1. \A x \in S : x \in P \cap G <=> x \in PE
    BY <1>9 DEF P
  <2> HIDE DEF G, PE
  <2> QED BY <2>1, WhereSame
<1>13. Playlist(M, dec).entries = Each(Where(sc, PE), h)
  BY <1>1, <1>10, <1>11, <1>12
<1> QED BY <1>13 DEF M, h


-----------------------------------------------------------------------------
(* The invariant holds.                                                     *)

LEMMA AnalyzedInitInv == AnalyzedInit => PipelineInv
<1> SUFFICES ASSUME AnalyzedInit PROVE PipelineInv
  OBVIOUS
<1>1. PICK labels \in [SceneIds -> SUBSET Topics] :
         scenes = [i \in SceneIds |-> Scene(i, labels[i])]
  BY DEF AnalyzedInit
<1>2. ASSUME NEW i \in SceneIds
      PROVE  /\ scenes[i] \in SceneType /\ scenes[i].id = i /\ scenes[i].target = None
             /\ ~scenes[i].filler /\ scenes[i].content = scenes[i].labels
             /\ LeftToMuxer(scenes[i])
  <2>1. scenes[i] = Scene(i, labels[i]) /\ labels[i] \in SUBSET Topics /\ i \in Ids
    BY <1>1
  <2> QED BY <2>1 DEF Scene, SceneType, Actions, LeftToMuxer
<1>3. LabelledScenes(scenes)
  BY <1>1, <1>2 DEF LabelledScenes
<1> QED BY <1>3 DEF AnalyzedInit, PipelineInv, LaterStages

LEMMA AuthoredInitInv == AuthoredInit => PipelineInv
BY AuthoredAssumption DEF AuthoredInit, PipelineInv, LaterStages

LEMMA MarkInv == PipelineInv /\ Mark => PipelineInv'
<1> SUFFICES ASSUME PipelineInv, Mark PROVE PipelineInv'
  OBVIOUS
<1>1. options \in OptionType /\ LabelledScenes(scenes)
  BY DEF PipelineInv, Mark
<1>2. DOMAIN scenes = SceneIds
  BY <1>1, LabelledIsSeq
<1> DEFINE act(i) == IF scenes[i].labels \cap FilterKeys(options) # {}
                     THEN options.mode ELSE "play"
<1>3. scenes' = [i \in SceneIds |-> [scenes[i] EXCEPT !.action = act(i)]]
  BY <1>2 DEF Mark, WithReplaceMode
<1>4. ASSUME NEW i \in SceneIds
      PROVE  /\ scenes'[i] \in SceneType /\ scenes'[i].id = i /\ scenes'[i].target = None
             /\ ~scenes'[i].filler /\ scenes'[i].content = scenes'[i].labels
             /\ LeftToMuxer(scenes'[i])
  <2> DEFINE s == scenes[i]
             a == act(i)
  <2>1. a \in Actions
    BY <1>1 DEF OptionType, Actions
  <2>2. /\ s \in SceneType /\ s.id = i /\ s.target = None /\ ~s.filler
        /\ s.content = s.labels /\ LeftToMuxer(s)
    BY <1>1 DEF LabelledScenes
  <2>3. scenes'[i] = [s EXCEPT !.action = a]
    BY <1>3
  <2> HIDE DEF s, a
  <2> QED BY <2>1, <2>2, <2>3 DEF SceneType, LeftToMuxer
<1>5. LabelledScenes(scenes')
  BY <1>3, <1>4 DEF LabelledScenes
<1> QED BY <1>5 DEF PipelineInv, Mark, LaterStages

LEMMA ReplaceInv == PipelineInv /\ Replace => PipelineInv'
<1> SUFFICES ASSUME PipelineInv, Replace PROVE PipelineInv'
  OBVIOUS
<1>1. options \in OptionType /\ LabelledScenes(scenes) /\ options # None
  BY DEF PipelineInv, Replace
<1>2. scenes' \in Seq(SceneType) /\ Linked(scenes')
  BY <1>1, ReplacedIsLinked DEF Replace
<1>3. ReplacedScenes(scenes', options)
  BY <1>1, ReplacedIsRight DEF Replace
<1> QED BY <1>1, <1>2, <1>3 DEF PipelineInv, Replace, LaterStages

LEMMA MuxInv == PipelineInv /\ Mux => PipelineInv'
BY DEF PipelineInv, Mux, LaterStages

LEMMA ResolveInv ==
    ASSUME NEW v \in Viewers, PipelineInv, Resolve(v) PROVE PipelineInv'
BY DEF PipelineInv, Resolve, LaterStages, Segments, Assets

LEMMA PipelineInvHolds == Spec => []PipelineInv
<1>1. Init => PipelineInv
  BY AnalyzedInitInv, AuthoredInitInv DEF Init
<1>2. PipelineInv /\ [Next]_vars => PipelineInv'
  <2> SUFFICES ASSUME PipelineInv, [Next]_vars PROVE PipelineInv'
    OBVIOUS
  <2>1. CASE Mark
    BY <2>1, MarkInv
  <2>2. CASE Replace
    BY <2>2, ReplaceInv
  <2>3. CASE Mux
    BY <2>3, MuxInv
  <2>4. ASSUME NEW v \in Viewers, Resolve(v) PROVE PipelineInv'
    BY <2>4, ResolveInv
  <2>5. CASE UNCHANGED vars
    BY <2>5 DEF vars, PipelineInv, Segments, Assets
  <2> QED BY <2>1, <2>2, <2>3, <2>4, <2>5 DEF Next
<1> QED BY <1>1, <1>2, PTL DEF Spec


-----------------------------------------------------------------------------
(* What is shown of the analyzer's movie.                                   *)

Decided(s) == Server(BakeSegment(s, filters), Assets, viewer)
Decisions == [s \in Range(scenes) |-> Decided(s)]
Hidden == IF AvoidsTopics(viewer) THEN viewer.avoided ELSE Filtered(viewer)

\* The playlist holds the decisions about the narrative scenes.
LEMMA ShownFromScenes ==
    ASSUME PipelineInv, ByAnalyzer
    PROVE  /\ scenes \in Seq(SceneType)
           /\ shown.entries =
                 Each(Where(scenes, {s \in Range(scenes) :
                                        ~s.filler /\ Decisions[s].kind = "entry"}),
                      Decisions)
           /\ Assets = {s.id : s \in Range(scenes)}
<1> DEFINE S == Range(scenes)
           bake == Bakes(scenes, filters)
           dec == [b \in Segments |-> Server(b, Assets, viewer)]
           h == [s \in S |-> dec[bake[s]]]
<1>1. /\ scenes \in Seq(SceneType) /\ manifest = BakeManifest(scenes, filters)
      /\ shown = Playlist(manifest, dec)
  BY DEF PipelineInv, ByAnalyzer, Resolved, LaterStages
<1>2. scenes \in Seq(S)
  <2>1. DOMAIN scenes = 1 .. Len(scenes) /\ Len(scenes) \in Nat
        /\ scenes = [i \in 1 .. Len(scenes) |-> scenes[i]]
    BY <1>1, LenProperties
  <2>2. scenes \in [1 .. Len(scenes) -> S]
    BY <2>1 DEF Range
  <2> QED BY <2>1, <2>2, SeqDef
<1>3. manifest = Each(scenes, bake) /\ Segments = {BakeSegment(s, filters) : s \in S}
  BY <1>1, ManifestIsEach DEF Segments
<1>4. \A s \in S : bake[s] = BakeSegment(s, filters)
  BY DEF Bakes
<1>5. \A s \in S : bake[s] \in Segments /\ bake[s].filler = s.filler /\ bake[s].id = s.id
  <2> TAKE s \in S
  <2>1. BakeSegment(s, filters).filler = s.filler /\ BakeSegment(s, filters).id = s.id
    BY DEF BakeSegment
  <2>2. BakeSegment(s, filters) \in Segments
    BY <1>3
  <2> QED BY <1>4, <2>1, <2>2
<1>6. h = Decisions
  <2>1. \A s \in S : dec[bake[s]] = Decided(s)
    BY <1>4, <1>5 DEF Decided
  <2> HIDE DEF dec, bake
  <2> QED BY <2>1 DEF Decisions
<1>7. shown.entries =
         Each(Where(scenes, {s \in S : ~bake[s].filler /\ h[s].kind = "entry"}), h)
  <2> HIDE DEF S, bake, dec
  <2> QED BY <1>1, <1>2, <1>3, PlaylistOfScenes DEF S
<1>8. {s \in S : ~bake[s].filler /\ h[s].kind = "entry"}
        = {s \in S : ~s.filler /\ Decisions[s].kind = "entry"}
  <2> HIDE DEF h, bake
  <2> QED BY <1>5, <1>6
<1>9. Assets = {s.id : s \in S}
  <2>1. \A s \in S : BakeSegment(s, filters).id = s.id
    BY DEF BakeSegment
  <2> HIDE DEF S
  <2> QED BY <1>3, <2>1 DEF Assets
<1> QED BY <1>1, <1>6, <1>7, <1>8, <1>9

\* The decision about each scene.
LEMMA DecisionFacts ==
    ASSUME PipelineInv, ByAnalyzer, NEW s \in Range(scenes)
    PROVE  /\ s.labels \cap Hidden = {} => Decided(s) = Entry(s, s.id, "play")
           /\ s.labels \cap Hidden # {} =>
                 \/ Decided(s) = Omit
                 \/ /\ Decided(s) = Entry(s, SwapsTo(s), "swap")
                    /\ options \in UniformOptions => s.target # None
<1> DEFINE keys == KeysOf(options)
           m == ModeOf(scenes, options)
<1>1. /\ ReplacedScenes(scenes, options) /\ filters = ProfileFilters(scenes, options)
      /\ viewer \in ViewerType /\ Linked(scenes) /\ options \in OptionType
      /\ LeftToMuxer(s)
  BY DEF PipelineInv, ByAnalyzer, Resolved, LaterStages, ReplacedScenes, ReplacedScene
<1>2. /\ filters = Uniformly(keys, m) /\ m \in {"skip", "swap"}
      /\ m = "skip" => s.target = None
      /\ options \in UniformOptions => HasFiller(s, keys, m)
  BY <1>1, FilterFacts
<1>3. s.id \in Assets /\ (s.target # None => s.target \in Assets)
  BY <1>1, ShownFromScenes DEF Linked
<1> HIDE DEF keys, m
<1>4. Swappable(s, m, Assets)
  BY <1>1, <1>2, <1>3 DEF Swappable
<1>5. Hidden = HiddenFrom(viewer, keys)
  <2>1. viewer.profile \in Profiles
    BY <1>1 DEF ViewerType
  <2>2. DOMAIN filters[viewer.profile] = keys[viewer.profile]
    BY <1>2, <2>1 DEF Uniformly
  <2> QED BY <2>2 DEF Hidden, HiddenFrom, Filtered
<1>6. LET d == Server(BakeSegment(s, Uniformly(keys, m)), Assets, viewer)
      IN  /\ s.labels \cap HiddenFrom(viewer, keys) = {} => d = Entry(s, s.id, "play")
          /\ s.labels \cap HiddenFrom(viewer, keys) # {} =>
                \/ d = Omit
                \/ d = Entry(s, SwapsTo(s), "swap") /\ (HasFiller(s, keys, m) => s.target # None)
  BY <1>1, <1>2, <1>4, ServerDecides
<1> QED BY <1>2, <1>5, <1>6 DEF Decided

\* Where an entry comes from.
LEMMA EntryFacts ==
    ASSUME PipelineInv, ByAnalyzer, NEW e \in Entries
    PROVE  \E s \in Range(scenes) :
              /\ ~s.filler /\ e.source = s.id
              /\ \/ s.labels \cap Hidden = {} /\ e.action = "play" /\ e.target = s.id
                 \/ /\ e.action = "swap" /\ e.target = SwapsTo(s)
                    /\ options \in UniformOptions => s.target # None
<1> DEFINE P == {s \in Range(scenes) : ~s.filler /\ Decisions[s].kind = "entry"}
           w == Where(scenes, P)
<1>1. scenes \in Seq(SceneType) /\ shown.entries = Each(w, Decisions)
  BY ShownFromScenes
<1>2. w \in Seq(SceneType) /\ Range(w) = P
  <2>1. P \subseteq Range(scenes)
    OBVIOUS
  <2> HIDE DEF P
  <2>2. Where(scenes, P) \in Seq(SceneType)
    BY <1>1, WhereType
  <2>3. Range(Where(scenes, P)) = Range(scenes) \cap P
    BY <1>1, WhereRange
  <2> QED BY <2>1, <2>2, <2>3
<1>3. Entries = {Decisions[s] : s \in Range(w)}
  <2> HIDE DEF w
  <2> QED BY <1>1, <1>2, EachRange DEF Entries
<1>4. PICK s \in P : e = Decisions[s]
  <2> HIDE DEF P, w
  <2> QED BY <1>2, <1>3
<1>5. s \in Range(scenes) /\ ~s.filler /\ e.kind = "entry" /\ e = Decided(s)
  BY <1>4 DEF Decisions
<1>6. CASE s.labels \cap Hidden = {}
  <2>1. e = Entry(s, s.id, "play")
    BY <1>5, <1>6, DecisionFacts
  <2> HIDE DEF P
  <2> QED BY <1>5, <1>6, <2>1 DEF Entry
<1>7. CASE s.labels \cap Hidden # {}
  <2>1. e # Omit
    BY <1>5 DEF Omit
  <2>2. e = Entry(s, SwapsTo(s), "swap") /\ (options \in UniformOptions => s.target # None)
    BY <1>5, <1>7, <2>1, DecisionFacts
  <2> HIDE DEF P
  <2> QED BY <1>5, <2>2 DEF Entry
<1> QED BY <1>6, <1>7

\* A scene is known by its id.
LEMMA SceneOfItsId ==
    ASSUME NEW o, ReplacedScenes(scenes, o), NEW s \in Range(scenes)
    PROVE  SceneOf(s.id) = s
BY DEF ReplacedScenes, SceneOf

\* What an entry shows has nothing in it that is hidden from the viewer, as
\* far as the labels are right about it.
LEMMA NothingHiddenIsShown ==
    ASSUME PipelineInv, ByAnalyzer, options \in UniformOptions, NEW e \in Entries,
           Hidden \subseteq Trusted(options)
    PROVE  SceneOf(e.target).content \cap Hidden = {}
<1>1. ReplacedScenes(scenes, options)
  BY DEF PipelineInv, ByAnalyzer, Resolved, LaterStages
<1>2. PICK s \in Range(scenes) :
         /\ ~s.filler /\ e.source = s.id
         /\ \/ s.labels \cap Hidden = {} /\ e.action = "play" /\ e.target = s.id
            \/ s.target # None /\ e.action = "swap" /\ e.target = s.target
  BY EntryFacts DEF SwapsTo
<1>3. CASE s.labels \cap Hidden = {} /\ e.target = s.id
  <2>1. SceneOf(e.target) = s
    BY <1>1, <1>3, SceneOfItsId
  <2>2. s.content \cap Trusted(options) = s.labels \cap Trusted(options)
    BY <1>1 DEF ReplacedScenes, UniformScene
  <2> QED BY <1>3, <2>1, <2>2
<1>4. CASE s.target # None /\ e.target = s.target
  <2>1. PICK t \in Range(scenes) : t.id = s.target /\ t.filler
    BY <1>1, <1>4 DEF ReplacedScenes, ReplacedScene
  <2>2. SceneOf(e.target) = t /\ t.content = {}
    BY <1>1, <1>4, <2>1, SceneOfItsId DEF ReplacedScenes, ReplacedScene
  <2> QED BY <2>2
<1> QED BY <1>2, <1>3, <1>4

\* A profile filters only what the labels are right about.
LEMMA FilteredIsTrusted ==
    ASSUME PipelineInv, ByAnalyzer
    PROVE  Filtered(viewer) \subseteq Trusted(options)
<1>1. /\ ReplacedScenes(scenes, options) /\ filters = ProfileFilters(scenes, options)
      /\ viewer \in ViewerType /\ options \in OptionType
  BY DEF PipelineInv, ByAnalyzer, Resolved, LaterStages
<1> DEFINE keys == KeysOf(options)
           m == ModeOf(scenes, options)
<1>2. /\ filters = Uniformly(keys, m)
      /\ \A p \in Profiles : keys[p] \subseteq Trusted(options)
  BY <1>1, FilterFacts
<1>3. viewer.profile \in Profiles
  BY <1>1 DEF ViewerType
<1> HIDE DEF keys, m
<1>4. Filtered(viewer) = keys[viewer.profile]
  BY <1>2, <1>3 DEF Filtered, Uniformly
<1> QED BY <1>2, <1>3, <1>4

\* What a viewer avoids is what the labels are right about, when all topics
\* are filtered.
LEMMA AvoidedIsTrusted ==
    ASSUME PipelineInv, ByAnalyzer, options \in ThoroughOptions
    PROVE  options \in UniformOptions /\ viewer.avoided \subseteq Trusted(options)
<1>1. viewer \in ViewerType
  BY DEF PipelineInv, ByAnalyzer, Resolved
<1>2. Trusted(options) = Topics
  BY DEF ThoroughOptions, Trusted, Makes
<1> QED BY <1>1, <1>2 DEF ThoroughOptions, ViewerType


\* The targets that are ids of innocent scenes are those of all of them, in the
\* movie's order.
LEMMA InnocentTargets ==
    ASSUME PipelineInv, ByAnalyzer
    PROVE  LET innocent == {s \in Range(scenes) : ~s.filler /\ s.content \cap Hidden = {}}
           IN  Where(Targets(shown), {s.id : s \in innocent})
                 = Each(Where(scenes, innocent), [s \in innocent |-> s.id])
<1> DEFINE innocent == {s \in Range(scenes) : ~s.filler /\ s.content \cap Hidden = {}}
           P == {s \in Range(scenes) : ~s.filler /\ Decisions[s].kind = "entry"}
           w == Where(scenes, P)
           g == [s \in Range(scenes) |-> Decided(s).target]
           tgt == [e \in Range(shown.entries) |-> e.target]
           TT == Each(w, g)
           R == {s.id : s \in innocent}
           G == {x \in SceneType : g[x] \in R}
           id == [s \in innocent |-> s.id]
<1>1. scenes \in Seq(SceneType) /\ shown.entries = Each(w, Decisions)
  BY ShownFromScenes
<1>2. ReplacedScenes(scenes, options)
  BY DEF PipelineInv, ByAnalyzer, Resolved, LaterStages
<1>3. w \in Seq(SceneType) /\ Range(w) = P
  <2>1. P \subseteq Range(scenes)
    OBVIOUS
  <2> HIDE DEF P
  <2>2. Where(scenes, P) \in Seq(SceneType)
    BY <1>1, WhereType
  <2>3. Range(Where(scenes, P)) = Range(scenes) \cap P
    BY <1>1, WhereRange
  <2> QED BY <2>1, <2>2, <2>3
<1>4. Targets(shown) = TT
  <2>1. Range(shown.entries) = {Decisions[x] : x \in Range(w)}
    <3> HIDE DEF w
    <3> QED BY <1>1, <1>3, EachRange
  <2>2. \A x \in Range(w) : g[x] = tgt[Decisions[x]]
    <3> SUFFICES ASSUME NEW x \in Range(w) PROVE g[x] = tgt[Decisions[x]]
      OBVIOUS
    <3>1. Decisions[x] \in Range(shown.entries)
      BY <2>1
    <3>2. x \in Range(scenes)
      BY <1>3
    <3> HIDE DEF w, P
    <3> QED BY <3>1, <3>2 DEF Decisions
  <2> HIDE DEF w, g, tgt
  <2>3. Each(Each(w, Decisions), tgt) = Each(w, g)
    BY <1>3, <2>2, EachTwice
  <2> QED BY <1>1, <2>3 DEF Targets, tgt, Entries
<1>5. ASSUME NEW s \in Range(scenes)
      PROVE  /\ s \in P /\ g[s] \in R <=> s \in innocent
             /\ s \in innocent => g[s] = s.id
  <2>1. g[s] = Decided(s).target /\ Decisions[s] = Decided(s)
    BY DEF Decisions
  <2>2. s.labels \subseteq s.content
    BY <1>2 DEF ReplacedScenes, ReplacedScene
  <2>3. g[s] \in R <=> \E t \in innocent : g[s] = t.id
    <3> HIDE DEF g, innocent
    <3> QED OBVIOUS
  <2>4. \A t \in innocent : t.id = s.id => t = s
    BY <1>2 DEF ReplacedScenes
  <2>5. CASE s.labels \cap Hidden = {}
    <3>1. Decided(s) = Entry(s, s.id, "play")
      BY <2>5, DecisionFacts
    <3>2. g[s] = s.id /\ (s \in P <=> ~s.filler)
      BY <2>1, <3>1 DEF Entry
    <3>3. s \in innocent => s \in P
      BY <3>2
    <3> HIDE DEF P, g, innocent, R
    <3> QED BY <2>3, <2>4, <3>2, <3>3
  <2>6. CASE s.labels \cap Hidden # {}
    <3>1. s \notin innocent
      BY <2>2, <2>6
    <3>2. ASSUME s \in P PROVE g[s] \notin R
      <4>1. Decided(s) # Omit
        BY <2>1, <3>2 DEF Omit
      <4>2. g[s] = SwapsTo(s)
        <5>1. Decided(s) = Entry(s, SwapsTo(s), "swap")
          BY <2>6, <4>1, DecisionFacts
        <5> QED BY <2>1, <5>1 DEF Entry
      <4>3. CASE s.target = None
        <5> HIDE DEF g, innocent, R
        <5> QED BY <2>3, <2>4, <3>1, <4>2, <4>3 DEF SwapsTo
      <4>4. CASE s.target # None
        <5>1. PICK t \in Range(scenes) : t.id = s.target /\ t.filler
          BY <1>2, <4>4 DEF ReplacedScenes, ReplacedScene
        <5>2. \A u \in innocent : u.id = t.id => u = t
          BY <1>2, <5>1 DEF ReplacedScenes
        <5>3. t \notin innocent
          BY <5>1
        <5> HIDE DEF g, innocent, R
        <5> QED BY <2>3, <4>2, <4>4, <5>1, <5>2, <5>3 DEF SwapsTo
      <4> QED BY <4>3, <4>4
    <3> HIDE DEF P, g, innocent, R
    <3> QED BY <3>1, <3>2
  <2> QED BY <2>5, <2>6
<1>6. Where(TT, R) = Each(Where(w, G), g)
  <2> HIDE DEF w, g, R
  <2> QED BY <1>3, WhereEach
<1>7. Where(w, G) = Where(scenes, innocent)
  <2>1. Where(w, G) = Where(scenes, P \cap G)
    <3> HIDE DEF P, G
    <3> QED BY <1>1, WhereTwice
  <2>2. \A x \in Range(scenes) : x \in P \cap G <=> x \in innocent
    <3>1. Range(scenes) \subseteq SceneType
      BY <1>1, LenProperties DEF Range
    <3> HIDE DEF P, R, innocent, g
    <3> QED BY <1>5, <3>1
  <2> HIDE DEF P, G, innocent, w
  <2>3. Where(scenes, P \cap G) = Where(scenes, innocent)
    BY <1>1, <2>2, WhereSame
  <2> QED BY <2>1, <2>3
<1>8. Each(Where(scenes, innocent), g) = Each(Where(scenes, innocent), id)
  <2> DEFINE u == Where(scenes, innocent)
  <2>1. u \in Seq(SceneType) /\ Range(u) = Range(scenes) \cap innocent
    <3> HIDE DEF innocent
    <3> QED BY <1>1, WhereType, WhereRange
  <2>2. \A x \in Range(u) : g[x] = id[x]
    <3> SUFFICES ASSUME NEW x \in Range(u) PROVE g[x] = id[x]
      OBVIOUS
    <3>1. x \in innocent /\ x \in Range(scenes)
      BY <2>1
    <3>2. id[x] = x.id
      BY <3>1
    <3> HIDE DEF innocent, g, id
    <3> QED BY <1>5, <3>1, <3>2
  <2> HIDE DEF u, g, id
  <2>3. Each(u, g) = Each(u, id)
    BY <2>1, <2>2, EachSame
  <2> QED BY <2>3 DEF u
<1>9. Where(TT, R) = Each(Where(scenes, innocent), id)
  BY <1>6, <1>7, <1>8
<1> HIDE DEF TT
<1> QED BY <1>4, <1>9

-----------------------------------------------------------------------------
(* Playlists of a whole manifest.                                           *)

\* A playlist fails by a decision about a narrative segment.
LEMMA PlaylistFails ==
    ASSUME NEW S, NEW M \in Seq(S), NEW dec
    PROVE  Playlist(M, dec).failed
              <=> \E b \in Range(M) : ~b.filler /\ dec[b].kind = "fail"
<1> DEFINE NF == {b \in Range(M) : ~b.filler}
           w == Where(M, NF)
           D == Each(w, dec)
<1>1. Playlist(M, dec).failed <=> \E d \in Range(D) : d.kind = "fail"
  BY DEF Playlist
<1>2. w \in Seq(S) /\ Range(w) = NF
  <2>1. NF \subseteq Range(M)
    OBVIOUS
  <2> HIDE DEF NF
  <2>2. Where(M, NF) \in Seq(S) /\ Range(Where(M, NF)) = Range(M) \cap NF
    BY WhereType, WhereRange
  <2> QED BY <2>1, <2>2
<1>3. Range(D) = {dec[b] : b \in NF}
  <2> HIDE DEF NF, w
  <2> QED BY <1>2, EachRange
<1> HIDE DEF D
<1> QED BY <1>1, <1>3

\* It depends on the decisions about the narrative segments only.
LEMMA PlaylistSame ==
    ASSUME NEW S, NEW M \in Seq(S), NEW f, NEW g,
           \A b \in Range(M) : ~b.filler => f[b] = g[b]
    PROVE  Playlist(M, f) = Playlist(M, g)
<1> DEFINE NF == {b \in Range(M) : ~b.filler}
           w == Where(M, NF)
<1>1. w \in Seq(S) /\ Range(w) \subseteq NF
  <2>1. NF \subseteq Range(M)
    OBVIOUS
  <2> HIDE DEF NF
  <2>2. Where(M, NF) \in Seq(S) /\ Range(Where(M, NF)) = Range(M) \cap NF
    BY WhereType, WhereRange
  <2> QED BY <2>1, <2>2
<1>2. \A b \in Range(w) : f[b] = g[b]
  <2> HIDE DEF w
  <2> QED BY <1>1
<1> HIDE DEF w
<1>3. Each(w, f) = Each(w, g)
  BY <1>1, <1>2, EachSame
<1> QED BY <1>3 DEF Playlist, w

\* The server never refuses a movie of the analyzer.
LEMMA NothingFails ==
    ASSUME PipelineInv, ByAnalyzer PROVE ~shown.failed
<1> DEFINE dec == [b \in Segments |-> Server(b, Assets, viewer)]
<1>1. /\ scenes \in Seq(SceneType) /\ manifest = BakeManifest(scenes, filters)
      /\ shown = Playlist(manifest, dec)
  BY DEF PipelineInv, ByAnalyzer, Resolved, LaterStages
<1>2. Segments = {BakeSegment(s, filters) : s \in Range(scenes)}
  BY <1>1, ManifestIsEach DEF Segments
<1>3. manifest \in Seq(Segments)
  <2>1. manifest = Each(scenes, Bakes(scenes, filters))
    BY <1>1, ManifestIsEach
  <2>2. Len(scenes) \in Nat /\ DOMAIN scenes = 1 .. Len(scenes)
    BY <1>1, LenProperties
  <2>3. manifest \in [1 .. Len(scenes) -> Segments]
    BY <2>1, <2>2 DEF Each, Segments, Range
  <2> QED BY <2>2, <2>3, SeqDef
<1>4. ASSUME NEW b \in Segments PROVE dec[b].kind # "fail"
  <2>1. PICK s \in Range(scenes) : b = BakeSegment(s, filters)
    BY <1>2
  <2>2. dec[b] = Decided(s)
    BY <2>1 DEF Decided
  <2>3. \/ Decided(s) = Entry(s, s.id, "play")
        \/ Decided(s) = Omit
        \/ Decided(s) = Entry(s, SwapsTo(s), "swap")
    BY DecisionFacts
  <2> QED BY <2>2, <2>3 DEF Entry, Omit
<1> HIDE DEF dec
<1> QED BY <1>1, <1>3, <1>4, PlaylistFails DEF Segments

\* What two runtimes make of one decision: they differ in what becomes of a
\* missing target, and the reader looks at the target of a swap only.
LEMMA DecisionCases ==
    ASSUME NEW b, NEW p, NEW assets, b.id \in assets
    PROVE  LET baked == Baked(b, p)
               server == ServerProfile(b, assets, p, None)
               reader == Reader(b, assets, p)
               lacking == baked.action = "swap" /\ baked.target \notin assets
               astray == baked.action = "play" /\ baked.target # b.id
           IN  /\ Player(b, assets, p) = server
               /\ reader.kind = "fail" <=> server.kind = "fail" \/ lacking
               /\ ~lacking /\ ~astray => reader = server
<1> DEFINE baked == Baked(b, p)
           own == IF baked.action = "swap" THEN baked.target ELSE b.id
           none == IF baked.action = "swap" THEN Failure ELSE Omit
<1>1. /\ ServerProfile(b, assets, p, None) = Decision(b, baked.action, baked.target, assets, Omit)
      /\ Player(b, assets, p) = Decision(b, baked.action, baked.target, assets, Omit)
      /\ Reader(b, assets, p) = Decision(b, baked.action, own, assets, none)
  BY DEF ServerProfile, Player, Reader
<1>2. Omit.kind = "omit" /\ Failure.kind = "fail" /\ \A t, a : Entry(b, t, a).kind = "entry"
  BY DEF Omit, Failure, Entry
<1> HIDE DEF baked
<1>3. CASE baked.action \notin RuntimeSupportedActions
  BY <1>1, <1>3 DEF Decision, RuntimeSupportedActions, baked
<1>4. CASE baked.action = "skip"
  BY <1>1, <1>2, <1>4 DEF Decision, RuntimeSupportedActions, baked
<1>5. CASE baked.action = "play"
  <2>1. /\ Reader(b, assets, p) = Entry(b, b.id, "play")
        /\ ServerProfile(b, assets, p, None)
              = IF baked.target \in assets THEN Entry(b, baked.target, "play") ELSE Omit
    BY <1>1, <1>5 DEF Decision, RuntimeSupportedActions
  <2> QED BY <1>1, <1>2, <1>5, <2>1 DEF baked
<1>6. CASE baked.action = "swap"
  <2>1. /\ Reader(b, assets, p)
              = IF baked.target \in assets THEN Entry(b, baked.target, "swap") ELSE Failure
        /\ ServerProfile(b, assets, p, None)
              = IF baked.target \in assets THEN Entry(b, baked.target, "swap") ELSE Omit
    BY <1>1, <1>6 DEF Decision, RuntimeSupportedActions
  <2> QED BY <1>1, <1>2, <1>6, <2>1 DEF baked
<1> QED BY <1>3, <1>4, <1>5, <1>6 DEF RuntimeSupportedActions

\* A movie of the analyzer holds what it swaps to, and plays scenes as
\* themselves.
LEMMA AnalyzedIsLinked ==
    ASSUME PipelineInv, stage = "muxed", options # None, NEW p \in Profiles,
           NEW b \in Segments
    PROVE  /\ Baked(b, p).action = "swap" => Baked(b, p).target \in Assets
           /\ Baked(b, p).action = "play" => Baked(b, p).target = b.id
<1>1. /\ manifest = BakeManifest(scenes, filters) /\ scenes \in Seq(SceneType)
      /\ Linked(scenes) /\ ReplacedScenes(scenes, options)
  BY DEF PipelineInv, LaterStages
<1>2. PICK s \in Range(scenes) : b = BakeSegment(s, filters)
  BY <1>1, ManifestIsEach DEF Segments
<1>3. b.id = s.id /\ Baked(b, p) = BakedAction(s, filters[p])
  <2>1. s.profiles = None
    BY <1>1 DEF ReplacedScenes, ReplacedScene, LeftToMuxer
  <2> QED BY <1>2, <2>1 DEF BakeSegment, Baked
<1>4. ASSUME NEW t \in Range(scenes) PROVE t.id \in Assets
  <2>1. BakeSegment(t, filters) \in Segments /\ BakeSegment(t, filters).id = t.id
    BY <1>1, ManifestIsEach DEF Segments, BakeSegment
  <2> QED BY <2>1 DEF Assets
<1>5. s.id \in Assets /\ (s.target # None => s.target \in Assets)
  BY <1>1, <1>4 DEF Linked
<1> QED BY <1>3, <1>5 DEF BakedAction

-----------------------------------------------------------------------------
(* Theorems. *)

\* A viewer who avoids topics is never shown media with one of them in it, in
\* a movie for which the analyzer made fillers for every topic, or for none
\* (TopicPlayback.cs L87-109 on top of what analyze.py and BvfMuxer put into
\* the manifest).
THEOREM AvoidedTopicHolds == Spec => []AvoidedTopicNeverPlays
<1>1. PipelineInv => AvoidedTopicNeverPlays
  <2> SUFFICES ASSUME PipelineInv, ByAnalyzer, AvoidsTopics(viewer),
                      options \in ThoroughOptions, NEW e \in Entries
               PROVE  SceneOf(e.target).content \cap viewer.avoided = {}
    BY DEF AvoidedTopicNeverPlays, AvoidedTopicIsHidden
  <2>1. Hidden = viewer.avoided
    BY DEF Hidden
  <2> QED BY <2>1, AvoidedIsTrusted, NothingHiddenIsShown
<1> QED BY <1>1, PipelineInvHolds, PTL

\* A viewer of a profile who names no topics is not shown media with anything
\* in it that the profile filters, whatever topics the command line names, if
\* fillers are made for all that it filters (SegmentServer.cs L441-516).
THEOREM FilteredLabelHolds == Spec => []FilteredLabelNeverPlays
<1>1. PipelineInv => FilteredLabelNeverPlays
  <2> SUFFICES ASSUME PipelineInv, ByAnalyzer, ~AvoidsTopics(viewer),
                      options \in UniformOptions, NEW e \in Entries
               PROVE  SceneOf(e.target).content \cap Filtered(viewer) = {}
    BY DEF FilteredLabelNeverPlays
  <2>1. Hidden = Filtered(viewer)
    BY DEF Hidden
  <2> QED BY <2>1, FilteredIsTrusted, NothingHiddenIsShown
<1> QED BY <1>1, PipelineInvHolds, PTL

\* Under every command line of the analyzer, a swap shows the filler made for
\* the run of the scene that is left out; only where --wan-tags or
\* --wan-segments left a scene without one is it shown itself.
THEOREM SwapShowsOwnFillerHolds == Spec => []SwapShowsOwnFiller
<1>1. PipelineInv => SwapShowsOwnFiller
  <2> SUFFICES ASSUME PipelineInv, ByAnalyzer, NEW e \in Entries, e.action = "swap"
               PROVE  \/ e.target = Fillers[e.source]
                      \/ /\ e.target = e.source
                         /\ SceneOf(e.source).target = None
                         /\ options.wanTags # {} \/ options.wanSegments # {}
    BY DEF SwapShowsOwnFiller
  <2>1. options \in OptionType /\ ReplacedScenes(scenes, options)
    BY DEF PipelineInv, ByAnalyzer, Resolved, LaterStages
  <2>2. PICK s \in Range(scenes) :
           /\ ~s.filler /\ e.source = s.id
           /\ \/ s.labels \cap Hidden = {} /\ e.action = "play" /\ e.target = s.id
              \/ /\ e.action = "swap" /\ e.target = SwapsTo(s)
                 /\ options \in UniformOptions => s.target # None
    BY EntryFacts
  <2>3. e.target = SwapsTo(s) /\ (options \in UniformOptions => s.target # None)
    BY <2>2
  <2>4. CASE s.target # None
    BY <2>1, <2>2, <2>3, <2>4 DEF ReplacedScenes, ReplacedScene, SwapsTo
  <2>5. CASE s.target = None
    <3>1. SceneOf(s.id) = s
      BY <2>1, SceneOfItsId
    <3>2. options.wanTags # {} \/ options.wanSegments # {}
      BY <2>1, <2>3, <2>5 DEF UniformOptions
    <3> QED BY <2>2, <2>3, <2>5, <3>1, <3>2 DEF SwapsTo
  <2> QED BY <2>4, <2>5
<1> QED BY <1>1, PipelineInvHolds, PTL

\* Under every command line of the analyzer, no movie is refused, and each
\* narrative scene with nothing to hide from the viewer is shown once, as
\* itself and in the movie's order.
THEOREM InnocentScenesHold == Spec => []InnocentScenesPlay
<1>1. PipelineInv => InnocentScenesPlay
  <2> SUFFICES ASSUME PipelineInv, ByAnalyzer PROVE InnocentScenesPlay
    BY DEF InnocentScenesPlay
  <2> QED BY InnocentTargets, NothingFails DEF InnocentScenesPlay, Hidden
<1> QED BY <1>1, PipelineInvHolds, PTL

\* How far three programs written apart resolve one file alike, whoever wrote
\* the file and whatever its profiles say: the plugin for an anonymous request
\* and the Python player always; the C# reader but for a swap whose target the
\* file lacks, and for a play of another segment.  The analyzer writes neither.
THEOREM RuntimesAgreeHolds == Spec => []RuntimesAgree
<1>1. PipelineInv => RuntimesAgree
  <2> SUFFICES ASSUME PipelineInv, stage = "muxed" PROVE RuntimesAgree
    BY DEF RuntimesAgree
  <2>1. manifest \in Seq(Segments)
    <3>1. manifest = BakeManifest(scenes, filters) /\ scenes \in Seq(SceneType)
      BY DEF PipelineInv, LaterStages
    <3>2. manifest = Each(scenes, Bakes(scenes, filters))
      BY <3>1, ManifestIsEach
    <3>3. Len(scenes) \in Nat /\ DOMAIN scenes = 1 .. Len(scenes)
      BY <3>1, LenProperties
    <3>4. manifest \in [1 .. Len(scenes) -> Segments]
      BY <3>2, <3>3 DEF Each, Segments, Range
    <3> QED BY <3>3, <3>4, SeqDef
  <2> SUFFICES ASSUME NEW p \in Profiles
               PROVE
        LET f == [s \in Segments |-> ServerProfile(s, Assets, p, None)]
            g == [s \in Segments |-> Reader(s, Assets, p)]
            h == [s \in Segments |-> Player(s, Assets, p)]
            narrative == {s \in Segments : ~s.filler}
            lacking == \E s \in narrative : /\ Baked(s, p).action = "swap"
                                            /\ Baked(s, p).target \notin Assets
            astray == \E s \in narrative : /\ Baked(s, p).action = "play"
                                           /\ Baked(s, p).target # s.id
        IN  /\ Playlist(manifest, f) = Playlist(manifest, h)
            /\ Playlist(manifest, g).failed <=> Playlist(manifest, f).failed \/ lacking
            /\ ~lacking /\ ~astray => Playlist(manifest, g) = Playlist(manifest, f)
            /\ options # None => ~lacking /\ ~astray
    BY DEF RuntimesAgree
  <2> DEFINE f == [s \in Segments |-> ServerProfile(s, Assets, p, None)]
             g == [s \in Segments |-> Reader(s, Assets, p)]
             h == [s \in Segments |-> Player(s, Assets, p)]
             Lacks(s) == Baked(s, p).action = "swap" /\ Baked(s, p).target \notin Assets
             Strays(s) == Baked(s, p).action = "play" /\ Baked(s, p).target # s.id
             narrative == {s \in Segments : ~s.filler}
             lacking == \E s \in narrative : Lacks(s)
             astray == \E s \in narrative : Strays(s)
  <2>2. ASSUME NEW b \in Segments
        PROVE  /\ f[b] = h[b]
               /\ g[b].kind = "fail" <=> f[b].kind = "fail" \/ Lacks(b)
               /\ ~Lacks(b) /\ ~Strays(b) => g[b] = f[b]
    <3>1. b.id \in Assets
      BY DEF Assets
    <3>2. /\ Player(b, Assets, p) = ServerProfile(b, Assets, p, None)
          /\ Reader(b, Assets, p).kind = "fail"
                <=> ServerProfile(b, Assets, p, None).kind = "fail" \/ Lacks(b)
          /\ ~Lacks(b) /\ ~Strays(b) => Reader(b, Assets, p) = ServerProfile(b, Assets, p, None)
      BY <3>1, DecisionCases
    <3>3. /\ f[b] = ServerProfile(b, Assets, p, None) /\ g[b] = Reader(b, Assets, p)
          /\ h[b] = Player(b, Assets, p)
      OBVIOUS
    <3> HIDE DEF f, g, h, Lacks, Strays
    <3> QED BY <3>2, <3>3
  <2>3. options # None => ~lacking /\ ~astray
    BY AnalyzedIsLinked
  <2> HIDE DEF f, g, h, Lacks, Strays
  <2>4. Playlist(manifest, f) = Playlist(manifest, h)
    BY <2>1, <2>2, PlaylistSame DEF Segments
  <2>5. /\ Playlist(manifest, f).failed <=> \E b \in Segments : ~b.filler /\ f[b].kind = "fail"
        /\ Playlist(manifest, g).failed <=> \E b \in Segments : ~b.filler /\ g[b].kind = "fail"
    BY <2>1, PlaylistFails DEF Segments
  <2>6. Playlist(manifest, g).failed <=> Playlist(manifest, f).failed \/ lacking
    BY <2>2, <2>5
  <2>7. ASSUME ~lacking, ~astray PROVE Playlist(manifest, g) = Playlist(manifest, f)
    <3>1. \A b \in Range(manifest) : ~b.filler => g[b] = f[b]
      BY <2>2, <2>7 DEF Segments
    <3> QED BY <2>1, <3>1, PlaylistSame
  <2> QED BY <2>3, <2>4, <2>6, <2>7 DEF f, g, h, Lacks, Strays
<1> QED BY <1>1, PipelineInvHolds, PTL

=============================================================================
