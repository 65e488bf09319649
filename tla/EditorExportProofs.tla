------------------------- MODULE EditorExportProofs -------------------------
(* Theorems about EditorExport for every film, every set of flags, of clips *)
(* and of edits: what is suggested, what is exported and how it looks.      *)
EXTENDS EditorExport, SequenceLemmas

USE LengthAssumption, LimitAssumption, FlagsAssumption, ClipsAssumption

-----------------------------------------------------------------------------
(* Segments. *)

SegmentType ==
    [id : Nat \X Nat \X (Topics \cup {None}), start : Nat, end : Nat,
     topic : Topics \cup {None}, by : {"suggested", "manual"}, do : Treatments]

\* What a project has is typed and validated.
SegmentsAreSound ==
    /\ segments \in SUBSET SegmentType
    /\ IsFiniteSet(segments)
    /\ \A s \in segments : Valid(s)

\* What is done to a segment is one of the editor's actions, and a clip is
\* there to replace it.
LEMMA TreatmentFacts ==
    ASSUME NEW d \in Treatments
    PROVE  /\ d.action \in {"none", "cut", "blur", "black", "mute", "replace"}
           /\ d.action = "replace" => d.clip \in DOMAIN Clips /\ d.mode \in {"trim", "loop"}
BY DEF Treatments

-----------------------------------------------------------------------------
(* Effects. *)

\* Nothing of the source is left in a frame that s hides or silences.
Gone(frame, s) ==
    /\ s.do.action \in {"black", "replace"} => frame.seen # "source"
    /\ s.do.action = "blur" => frame.seen # "source" \/ frame.blurred
    /\ s.do.action \in {"mute", "replace"} => "source" \notin frame.heard

\* The actions that are effects.
EffectActions == {"blur", "black", "mute", "replace"}

\* The cases of Effect.
LEMMA EffectCases ==
    ASSUME NEW s, s.do.action \in EffectActions, NEW frame, NEW t
    PROVE  \/ /\ ~Enabled(s, t)
              /\ Effect(frame, s, t) = frame
           \/ /\ s.do.action = "blur"
              /\ Effect(frame, s, t) = [frame EXCEPT !.blurred = TRUE]
           \/ /\ s.do.action = "black"
              /\ Effect(frame, s, t) = [frame EXCEPT !.seen = "black", !.blurred = FALSE]
           \/ /\ s.do.action = "mute" \/ (s.do.action = "replace" /\ ~ClipShown(s, t))
              /\ Effect(frame, s, t) = [frame EXCEPT !.heard = {}]
           \/ /\ s.do.action = "replace"
              /\ Effect(frame, s, t) =
                    [frame EXCEPT !.seen = s.do.clip, !.blurred = FALSE,
                                  !.heard = IF Clips[s.do.clip].audio THEN {s.do.clip}
                                            ELSE {}]
<1>1. CASE ~Enabled(s, t)
  BY <1>1 DEF Effect
<1>2. CASE Enabled(s, t) /\ s.do.action = "blur"
  BY <1>2 DEF Effect
<1>3. CASE Enabled(s, t) /\ s.do.action = "black"
  BY <1>3 DEF Effect
<1>4. CASE Enabled(s, t) /\ s.do.action = "mute"
  BY <1>4 DEF Effect
<1>5. CASE Enabled(s, t) /\ s.do.action = "replace" /\ ~ClipShown(s, t)
  BY <1>5 DEF Effect
<1>6. CASE Enabled(s, t) /\ s.do.action = "replace" /\ ClipShown(s, t)
  BY <1>6 DEF Effect
<1> QED BY <1>1, <1>2, <1>3, <1>4, <1>5, <1>6 DEF EffectActions

\* An effect makes a frame of a frame and brings nothing back.
LEMMA EffectFacts ==
    ASSUME NEW s \in SegmentType, s.do.action \in EffectActions, NEW frame \in Frame, NEW t
    PROVE  /\ Effect(frame, s, t) \in Frame
           /\ Effect(frame, s, t).at = frame.at
           /\ \A u : Gone(frame, u) => Gone(Effect(frame, s, t), u)
<1> DEFINE after == Effect(frame, s, t)
           heard == IF Clips[s.do.clip].audio THEN {s.do.clip} ELSE {}
<1>0. \/ after = frame
      \/ after = [frame EXCEPT !.blurred = TRUE]
      \/ after = [frame EXCEPT !.seen = "black", !.blurred = FALSE]
      \/ after = [frame EXCEPT !.heard = {}]
      \/ /\ s.do.action = "replace"
         /\ after = [frame EXCEPT !.seen = s.do.clip, !.blurred = FALSE, !.heard = heard]
  BY EffectCases
<1>1. s.do.action = "replace" =>
         /\ s.do.clip \in DOMAIN Clips /\ s.do.clip # "source"
         /\ heard \in SUBSET DOMAIN Clips /\ "source" \notin heard
  BY TreatmentFacts DEF SegmentType
<1> HIDE DEF heard, after
<1>2. CASE after = frame
  BY <1>2 DEF after
<1>3. CASE after = [frame EXCEPT !.blurred = TRUE]
  BY <1>3 DEF Frame, Gone, after
<1>4. CASE after = [frame EXCEPT !.seen = "black", !.blurred = FALSE]
  BY <1>4 DEF Frame, Gone, after
<1>5. CASE after = [frame EXCEPT !.heard = {}]
  BY <1>5 DEF Frame, Gone, after
<1>6. CASE /\ s.do.action = "replace"
           /\ after = [frame EXCEPT !.seen = s.do.clip, !.blurred = FALSE, !.heard = heard]
  <2>1. /\ after \in Frame /\ after.at = frame.at
        /\ after.seen # "source" /\ "source" \notin after.heard
    BY <1>1, <1>6 DEF Frame
  <2> QED BY <2>1 DEF Gone, after
<1> QED BY <1>0, <1>2, <1>3, <1>4, <1>5, <1>6

\* A clip is shown as long as what it replaces, however short it is.
LEMMA ClipFills ==
    ASSUME NEW s \in SegmentType, s.do.action = "replace", NEW t \in Nat,
           s.start <= t, t < s.end
    PROVE  ClipShown(s, t)
<1> DEFINE wanted == s.end - s.start
           own == Clips[s.do.clip].duration
           padding == Max({0, wanted - own})
<1>1. s.start \in Nat /\ s.end \in Nat /\ own \in Nat
  BY TreatmentFacts DEF SegmentType
<1>2. padding = IF 0 >= wanted - own THEN 0 ELSE wanted - own
  BY <1>1, MaxOfTwo
<1>3. Min({wanted, own + padding}) = wanted
  <2>1. wanted \in Int /\ own + padding \in Int /\ wanted <= own + padding
    BY <1>1, <1>2
  <2> HIDE DEF wanted, own, padding
  <2> QED BY <2>1, MinOfTwo
<1>4. (IF s.do.mode = "loop" THEN wanted ELSE Min({wanted, own + padding})) = wanted
  BY <1>3
<1>5. s.start <= t /\ t < s.start + wanted
  BY <1>1
<1> QED BY <1>4, <1>5 DEF ClipShown

\* A frame that an effect is for has nothing left of the source.
LEMMA EffectActs ==
    ASSUME NEW s \in SegmentType, s.do.action \in EffectActions, NEW frame \in Frame,
           NEW t \in Nat, s.start <= t, t < s.end
    PROVE  Gone(Effect(frame, s, t), s)
<1>1. /\ s.do.action = "replace" => ClipShown(s, t)
      /\ Enabled(s, t)
      /\ s.do.action = "replace" => s.do.clip \in DOMAIN Clips
      /\ s.do.action \in EffectActions
  BY ClipFills, TreatmentFacts DEF Enabled, SegmentType
<1>2. CASE s.do.action = "blur"
  <2>1. Effect(frame, s, t) = [frame EXCEPT !.blurred = TRUE]
    BY <1>1, <1>2, EffectCases
  <2> QED BY <1>2, <2>1 DEF Gone, Frame
<1>3. CASE s.do.action = "black"
  <2>1. Effect(frame, s, t) = [frame EXCEPT !.seen = "black", !.blurred = FALSE]
    BY <1>1, <1>3, EffectCases
  <2> QED BY <1>3, <2>1 DEF Gone, Frame
<1>4. CASE s.do.action = "mute"
  <2>1. Effect(frame, s, t) = [frame EXCEPT !.heard = {}]
    BY <1>1, <1>4, EffectCases
  <2> QED BY <1>4, <2>1 DEF Gone, Frame
<1>5. CASE s.do.action = "replace"
  <2> DEFINE heard == IF Clips[s.do.clip].audio THEN {s.do.clip} ELSE {}
  <2>1. Effect(frame, s, t) =
           [frame EXCEPT !.seen = s.do.clip, !.blurred = FALSE, !.heard = heard]
    BY <1>1, <1>5, EffectCases
  <2>2. s.do.clip # "source" /\ "source" \notin heard
    BY <1>1, <1>5
  <2> HIDE DEF heard
  <2> QED BY <1>5, <2>1, <2>2 DEF Gone, Frame
<1> QED BY <1>2, <1>3, <1>4, <1>5 DEF EffectActions

\* The segments with an effect, and their order.
Chosen == {s \in Applied : s.do.action # "cut"}
EffectOrder == {p \in Chosen \X Chosen : Before(p[1], p[2])}

LEMMA ChosenFacts ==
    ASSUME SegmentsAreSound
    PROVE  /\ Chosen \in SUBSET SegmentType /\ IsFiniteSet(Chosen)
           /\ \A s \in Chosen : s.do.action \in EffectActions
           /\ Effects = InOrder(Chosen, EffectOrder)
<1>1. Chosen \subseteq segments /\ Chosen \in SUBSET SegmentType
  BY DEF Chosen, Applied, SegmentsAreSound
<1>2. IsFiniteSet(Chosen)
  BY <1>1, FS_Subset DEF SegmentsAreSound
<1>3. ASSUME NEW s \in Chosen PROVE s.do.action \in EffectActions
  BY <1>1, TreatmentFacts DEF Chosen, Applied, SegmentType, EffectActions
<1>4. Effects = InOrder(Chosen, EffectOrder)
  BY DEF Effects, Chosen, EffectOrder
<1> QED BY <1>1, <1>2, <1>3, <1>4

\* Of any segments one is the first: one of the shortest of the earliest.
LEMMA EffectsHaveFirsts ==
    ASSUME SegmentsAreSound PROVE HasFirsts(Chosen, EffectOrder)
<1> SUFFICES ASSUME NEW T \in SUBSET Chosen, T # {}
             PROVE  \E a \in T : Leads(a, T, EffectOrder)
  BY Zenon DEF HasFirsts
<1>1. \A s \in T : s.start \in Nat /\ s.end \in Nat /\ s.id[1] \in Nat
  BY ChosenFacts DEF SegmentType
<1>2. PICK a \in T : \A b \in T : a.start <= b.start
  <2> DEFINE K == {s.start : s \in T}
  <2>1. K \in SUBSET Nat /\ K # {}
    BY <1>1
  <2>2. PICK m \in K : \A k \in K : m <= k
    <3> HIDE DEF K
    <3> QED BY <2>1, LeastNatural
  <2> QED BY <2>2
<1>3. PICK c \in T : c.start = a.start /\ \A b \in T : b.start = a.start => c.end <= b.end
  <2> DEFINE K == {s.end : s \in {b \in T : b.start = a.start}}
  <2>1. K \in SUBSET Nat /\ K # {}
    BY <1>1
  <2>2. PICK m \in K : \A k \in K : m <= k
    <3> HIDE DEF K
    <3> QED BY <2>1, LeastNatural
  <2> QED BY <2>2
<1>4. PICK d \in T : /\ d.start = a.start /\ d.end = c.end
                     /\ \A b \in T : b.start = a.start /\ b.end = c.end => d.id[1] <= b.id[1]
  <2> DEFINE K == {s.id[1] : s \in {b \in T : b.start = a.start /\ b.end = c.end}}
  <2>1. K \in SUBSET Nat /\ K # {}
    BY <1>1, <1>3
  <2>2. PICK m \in K : \A k \in K : m <= k
    <3> HIDE DEF K
    <3> QED BY <2>1, LeastNatural
  <2> QED BY <2>2
<1>5. ASSUME NEW b \in T PROVE ~Before(b, d)
  BY <1>1, <1>2, <1>3, <1>4 DEF Before
<1> QED BY <1>5 DEF Leads, EffectOrder

\* Whatever the order of the effects, each of them leaves nothing of the
\* source in the frames it is for.
LEMMA RenderedFacts ==
    ASSUME SegmentsAreSound, NEW t \in Frames
    PROVE  /\ Rendered(t) \in Frame /\ Rendered(t).at = t
           /\ \A s \in Applied : s.start <= t /\ t < s.end => Gone(Rendered(t), s)
<1> DEFINE base == [at |-> t, seen |-> "source", blurred |-> FALSE, heard |-> {"source"}]
           act == [s \in Applied |-> [frame \in Frame |-> Effect(frame, s, t)]]
           e == Effects
           For(s) == s.start <= t /\ t < s.end
           T == {p \in Nat \X Frame :
                    /\ p[2].at = t
                    /\ \A k \in 1 .. p[1] : k \in 1 .. Len(e) /\ For(e[k]) => Gone(p[2], e[k])}
<1>1. base \in Frame /\ base.at = t /\ t \in Nat
  BY DEF Frame, Frames
<1>2. /\ e \in Seq(Chosen) /\ Range(e) = Chosen
      /\ Len(e) \in Nat /\ \A i \in 1 .. Len(e) : e[i] \in Chosen
  <2>1. e \in Seq(Chosen) /\ Range(e) = Chosen
    BY ChosenFacts, EffectsHaveFirsts, InOrderFacts
  <2> HIDE DEF e
  <2> QED BY <2>1, LenProperties, ElementOfSeq
<1>3. ASSUME NEW s \in Chosen, NEW frame \in Frame
      PROVE  /\ act[s][frame] = Effect(frame, s, t)
             /\ act[s][frame] \in Frame /\ act[s][frame].at = frame.at
             /\ For(s) => Gone(act[s][frame], s)
             /\ \A u : Gone(frame, u) => Gone(act[s][frame], u)
  <2>1. act[s][frame] = Effect(frame, s, t)
    BY DEF Chosen
  <2>2. s \in SegmentType /\ s.do.action \in EffectActions
    BY ChosenFacts
  <2> HIDE DEF act
  <2> QED BY <1>1, <2>1, <2>2, EffectFacts, EffectActs
<1>4. Rendered(t) = Folded(e, base, act)
  BY DEF Rendered
<1> HIDE DEF base, act, e, For
<1>5. StepsIn(act, Chosen, Frame)
  BY <1>3 DEF StepsIn
<1>6. <<0, base>> \in T
  BY <1>1
<1>7. ASSUME NEW i \in 1 .. Len(e), NEW frame \in Frame, <<i - 1, frame>> \in T
      PROVE  <<i, act[e[i]][frame]>> \in T
  <2>1. /\ i \in Nat /\ i - 1 \in Nat /\ e[i] \in Chosen /\ frame.at = t
        /\ \A k \in 1 .. i - 1 : k \in 1 .. Len(e) /\ For(e[k]) => Gone(frame, e[k])
    BY <1>2, <1>7
  <2>2. ASSUME NEW k \in 1 .. i, k \in 1 .. Len(e), For(e[k])
        PROVE  Gone(act[e[i]][frame], e[k])
    <3>1. CASE k = i
      BY <1>3, <2>1, <2>2, <3>1
    <3>2. CASE k # i
      BY <1>3, <2>1, <2>2, <3>2
    <3> QED BY <3>1, <3>2
  <2>3. act[e[i]][frame] \in Frame /\ act[e[i]][frame].at = t
    BY <1>3, <2>1
  <2> QED BY <2>1, <2>2, <2>3
<1>8. Rendered(t) \in Frame /\ <<Len(e), Rendered(t)>> \in T
  <2>1. FoldKeeps(T, e, Frame, act)
    BY <1>7 DEF FoldKeeps
  <2>2. Folded(e, base, act) \in Frame /\ <<Len(e), Folded(e, base, act)>> \in T
    <3>1. e \in Seq(Chosen) /\ base \in Frame
      BY <1>1, <1>2
    <3> HIDE DEF T
    <3> QED BY <1>5, <1>6, <2>1, <3>1, FoldedInduction
  <2> QED BY <1>4, <2>2
<1>9. ASSUME NEW s \in Applied, For(s) PROVE Gone(Rendered(t), s)
  <2>1. CASE s.do.action = "cut"
    BY <2>1 DEF Gone
  <2>2. CASE s.do.action # "cut"
    <3>1. PICK k \in 1 .. Len(e) : e[k] = s
      <4>1. s \in Range(e)
        BY <1>2, <2>2 DEF Chosen
      <4> QED BY <1>2, <4>1 DEF Range
    <3> QED BY <1>2, <1>8, <1>9, <3>1
  <2> QED BY <2>1, <2>2
<1> QED BY <1>8, <1>9 DEF For

-----------------------------------------------------------------------------
(* Cuts. *)

Inside(t, iv) == iv[1] <= t /\ t < iv[2]

\* What the cuts of valid segments are.
ValidSpans == {iv \in Spans : iv[1] < iv[2] /\ iv[2] <= Duration}

LEMMA CutsAreValid ==
    ASSUME SegmentsAreSound PROVE Cuts \in SUBSET ValidSpans /\ IsFiniteSet(Cuts)
<1> DEFINE bounds == 0 .. Duration
           square == bounds \X bounds
<1>1. ASSUME NEW s \in segments PROVE <<s.start, s.end>> \in ValidSpans
  BY DEF SegmentsAreSound, SegmentType, Valid, ValidSpans, Spans
<1>2. Cuts \subseteq {<<s.start, s.end>> : s \in segments}
  BY DEF Cuts, Applied
<1>3. Cuts \in SUBSET ValidSpans
  BY <1>1, <1>2
<1>4. ValidSpans \in SUBSET square
  BY DEF ValidSpans, Spans
<1>5. IsFiniteSet(square)
  <2>1. IsFiniteSet(bounds)
    BY FS_Interval
  <2> HIDE DEF bounds
  <2> QED BY <2>1, FS_Product
<1> HIDE DEF square
<1>6. IsFiniteSet(Cuts)
  <2>1. Cuts \in SUBSET square
    BY <1>3, <1>4
  <2> QED BY <1>5, <2>1, FS_Subset
<1> QED BY <1>3, <1>6

\* The intervals of m are apart, one after the other, and cover what those of
\* old cover.
Merged(m, old) ==
    /\ \A j, k \in 1 .. Len(m) : j < k => m[j][2] < m[k][1]
    /\ \A j \in 1 .. Len(m) : \E iv \in old : m[j][1] = iv[1]
    /\ \A t \in Nat : (\E j \in 1 .. Len(m) : Inside(t, m[j])) <=> \E iv \in old : Inside(t, iv)

LEMMA SpanFacts ==
    ASSUME NEW iv \in ValidSpans
    PROVE  /\ iv \in Spans /\ iv[1] \in Nat /\ iv[2] \in Nat /\ iv = <<iv[1], iv[2]>>
           /\ iv[1] < iv[2] /\ iv[2] <= Duration
BY DEF ValidSpans, Spans

\* The interval is joined to the last one or appended.
LEMMA MergeCases ==
    ASSUME NEW m \in Seq(ValidSpans), NEW iv \in ValidSpans
    PROVE  /\ Merge[iv][m] \in Seq(ValidSpans)
           /\ \/ /\ Len(m) \in 1 .. Len(m) /\ iv[1] <= m[Len(m)][2]
                 /\ Len(Merge[iv][m]) = Len(m)
                 /\ \A j \in 1 .. Len(m) : j # Len(m) => Merge[iv][m][j] = m[j]
                 /\ Merge[iv][m][Len(m)] =
                      <<m[Len(m)][1],
                        IF m[Len(m)][2] >= iv[2] THEN m[Len(m)][2] ELSE iv[2]>>
              \/ /\ Len(m) \in 1 .. Len(m) => m[Len(m)][2] < iv[1]
                 /\ Merge[iv][m] = Append(m, iv)
<1> DEFINE n == Len(m)
           top == IF m[n][2] >= iv[2] THEN m[n][2] ELSE iv[2]
           joined == <<m[n][1], Max({m[n][2], iv[2]})>>
           joins == m # <<>> /\ iv[1] <= m[n][2]
<1>1. /\ n \in Nat /\ m # <<>> <=> n \in 1 .. n
      /\ \A j \in 1 .. n : m[j] \in ValidSpans
  BY LenProperties, ElementOfSeq, EmptySeq
<1>2. \A j \in 1 .. n : /\ m[j][1] \in Nat /\ m[j][2] \in Nat
                        /\ m[j][1] < m[j][2] /\ m[j][2] <= Duration
  BY <1>1, SpanFacts
<1>3. iv \in Spans /\ iv[1] \in Nat /\ iv[2] \in Nat /\ iv[1] < iv[2] /\ iv[2] <= Duration
  BY SpanFacts
<1>4. Merge[iv][m] = IF joins THEN [m EXCEPT ![n] = joined] ELSE Append(m, iv)
  <2>1. m \in Seq(Spans)
    <3>1. ValidSpans \subseteq Spans
      BY DEF ValidSpans
    <3> QED BY <3>1, SeqMonotonic
  <2> QED BY <1>3, <2>1 DEF Merge
<1>5. CASE joins
  <2>1. n \in 1 .. n
    BY <1>1, <1>5
  <2>2. joined = <<m[n][1], top>> /\ top \in Nat /\ top <= Duration /\ m[n][1] < top
    <3>1. /\ m[n][2] \in Nat /\ m[n][1] < m[n][2] /\ m[n][2] <= Duration
          /\ iv[2] \in Nat /\ iv[2] <= Duration
      BY <1>2, <1>3, <2>1
    <3>2. Max({m[n][2], iv[2]}) = top
      BY <3>1, MaxOfTwo
    <3> QED BY <1>2, <2>1, <3>1, <3>2
  <2>3. joined \in ValidSpans
    BY <1>2, <2>1, <2>2 DEF ValidSpans, Spans
  <2> HIDE DEF joined
  <2>4. /\ [m EXCEPT ![n] = joined] \in Seq(ValidSpans)
        /\ Len([m EXCEPT ![n] = joined]) = n
        /\ \A j \in 1 .. n : [m EXCEPT ![n] = joined][j] = IF j = n THEN joined ELSE m[j]
    BY <2>1, <2>3, ExceptSeq
  <2> QED BY <1>4, <1>5, <2>1, <2>2, <2>4
<1>6. CASE ~joins
  <2>1. Append(m, iv) \in Seq(ValidSpans)
    BY AppendProperties
  <2>2. n \in 1 .. n => m[n][2] < iv[1]
    BY <1>1, <1>2, <1>3, <1>6
  <2> QED BY <1>4, <1>6, <2>1, <2>2
<1> QED BY <1>5, <1>6

\* Joining or appending an interval that begins no earlier than the others
\* keeps that.
LEMMA MergeFacts ==
    ASSUME NEW m \in Seq(ValidSpans), NEW old \in SUBSET ValidSpans, Merged(m, old),
           NEW iv \in ValidSpans, \A b \in old : b[1] <= iv[1]
    PROVE  Merged(Merge[iv][m], old \cup {iv})
<1> DEFINE n == Len(m)
           r == Merge[iv][m]
           top == IF m[n][2] >= iv[2] THEN m[n][2] ELSE iv[2]
<1>0. Duration \in Nat
  OBVIOUS
<1>1. n \in Nat /\ \A j \in 1 .. n : m[j] \in ValidSpans
  BY LenProperties, ElementOfSeq, EmptySeq
<1>2. \A j \in 1 .. n : /\ m[j][1] \in Nat /\ m[j][2] \in Nat
                        /\ m[j][1] < m[j][2] /\ m[j][2] <= Duration
  BY <1>1, SpanFacts
<1>3. iv \in Spans /\ iv[1] \in Nat /\ iv[2] \in Nat /\ iv[1] < iv[2] /\ iv[2] <= Duration
  BY SpanFacts
<1>4. \/ /\ n \in 1 .. n /\ iv[1] <= m[n][2] /\ Len(r) = n
         /\ \A j \in 1 .. n : j # n => r[j] = m[j]
         /\ r[n] = <<m[n][1], top>>
      \/ (n \in 1 .. n => m[n][2] < iv[1]) /\ r = Append(m, iv)
  BY MergeCases
<1> HIDE DEF r
<1>5. CASE /\ n \in 1 .. n /\ iv[1] <= m[n][2] /\ Len(r) = n
           /\ \A j \in 1 .. n : j # n => r[j] = m[j]
           /\ r[n] = <<m[n][1], top>>
  <2> DEFINE joined == r[n]
  <2>1. n \in 1 .. n
    BY <1>5
  <2>3. joined[1] = m[n][1] /\ joined[2] = top /\ top \in Nat
    BY <1>2, <1>3, <1>5
  <2>4. Len(r) = n /\ \A j \in 1 .. n : r[j] = IF j = n THEN joined ELSE m[j]
    BY <1>5
  <2> HIDE DEF joined
  <2>5. ASSUME NEW j \in 1 .. n, NEW k \in 1 .. n, j < k PROVE r[j][2] < r[k][1]
    <3>1. m[j][2] < m[k][1] /\ j # n /\ r[j] = m[j]
      BY <1>1, <2>4, <2>5 DEF Merged
    <3>2. r[k][1] = m[k][1]
      BY <2>3, <2>4
    <3> QED BY <3>1, <3>2
  <2>6. ASSUME NEW j \in 1 .. n PROVE \E b \in old \cup {iv} : r[j][1] = b[1]
    <3>1. r[j][1] = m[j][1]
      BY <2>3, <2>4
    <3> QED BY <3>1 DEF Merged
  <2>7. m[n][1] <= iv[1] /\ iv[1] <= m[n][2]
    <3>1. PICK b \in old : m[n][1] = b[1]
      BY <2>1 DEF Merged
    <3> QED BY <1>5, <3>1
  <2>8. ASSUME NEW t \in Nat
        PROVE  Inside(t, joined) <=> Inside(t, m[n]) \/ Inside(t, iv)
    BY <1>2, <1>3, <2>1, <2>3, <2>7 DEF Inside
  <2>9. ASSUME NEW t \in Nat
        PROVE  (\E j \in 1 .. n : Inside(t, r[j])) <=> \E b \in old \cup {iv} : Inside(t, b)
    <3>1. (\E j \in 1 .. n : Inside(t, m[j])) <=> \E b \in old : Inside(t, b)
      BY DEF Merged
    <3>2. (\E j \in 1 .. n : Inside(t, r[j]))
             <=> (\E j \in 1 .. n : Inside(t, m[j])) \/ Inside(t, iv)
      BY <2>1, <2>4, <2>8
    <3> QED BY <3>1, <3>2
  <2>10. Merged(r, old \cup {iv})
    BY <2>4, <2>5, <2>6, <2>9 DEF Merged
  <2> QED BY <2>10 DEF r
<1>6. CASE (n \in 1 .. n => m[n][2] < iv[1]) /\ r = Append(m, iv)
  <2>1. /\ Len(r) = n + 1 /\ r[n + 1] = iv
        /\ \A j \in 1 .. n : r[j] = m[j]
    BY <1>6, AppendProperties
  <2>2. ASSUME NEW j \in 1 .. n PROVE m[j][2] < iv[1]
    <3>1. n \in 1 .. n /\ m[n][2] < iv[1]
      BY <1>1, <1>6
    <3>2. CASE j = n
      BY <3>1, <3>2
    <3>3. CASE j # n
      <4>1. m[j][2] < m[n][1] /\ m[n][1] < m[n][2]
        BY <1>1, <1>2, <3>1, <3>3 DEF Merged
      <4> QED BY <1>2, <1>3, <3>1, <4>1
    <3> QED BY <3>2, <3>3
  <2>3. ASSUME NEW j \in 1 .. n + 1, NEW k \in 1 .. n + 1, j < k PROVE r[j][2] < r[k][1]
    <3>1. j \in 1 .. n /\ r[j] = m[j]
      BY <1>1, <2>1, <2>3
    <3>2. CASE k = n + 1
      BY <2>1, <2>2, <3>1, <3>2
    <3>3. CASE k # n + 1
      <4>1. k \in 1 .. n /\ r[k] = m[k]
        BY <1>1, <2>1, <3>3
      <4> QED BY <2>3, <3>1, <4>1 DEF Merged
    <3> QED BY <3>2, <3>3
  <2>4. ASSUME NEW j \in 1 .. n + 1 PROVE \E b \in old \cup {iv} : r[j][1] = b[1]
    <3>1. CASE j = n + 1
      BY <2>1, <3>1
    <3>2. CASE j # n + 1
      <4>1. j \in 1 .. n /\ r[j] = m[j]
        BY <1>1, <2>1, <3>2
      <4> QED BY <4>1 DEF Merged
    <3> QED BY <3>1, <3>2
  <2>5. ASSUME NEW t \in Nat
        PROVE  (\E j \in 1 .. n + 1 : Inside(t, r[j])) <=> \E b \in old \cup {iv} : Inside(t, b)
    <3>1. (\E j \in 1 .. n : Inside(t, m[j])) <=> \E b \in old : Inside(t, b)
      BY DEF Merged
    <3>2. \A j \in 1 .. n + 1 : (j \in 1 .. n /\ r[j] = m[j]) \/ (j = n + 1 /\ r[j] = iv)
      BY <1>1, <2>1
    <3>3. \A j \in 1 .. n : j \in 1 .. n + 1 /\ r[j] = m[j]
      BY <1>1, <2>1
    <3>4. n + 1 \in 1 .. n + 1 /\ r[n + 1] = iv
      BY <1>1, <2>1
    <3> QED BY <3>1, <3>2, <3>3, <3>4
  <2>6. Merged(r, old \cup {iv})
    BY <2>1, <2>3, <2>4, <2>5 DEF Merged
  <2> QED BY <2>6 DEF r
<1> QED BY <1>4, <1>5, <1>6

\* merge_intervals: the merged cuts are apart and cover what the cuts cover.
LEMMA MergeIntervalsFacts ==
    ASSUME SegmentsAreSound
    PROVE  MergeIntervals(Cuts) \in Seq(ValidSpans) /\ Merged(MergeIntervals(Cuts), Cuts)
<1> DEFINE order == {p \in Cuts \X Cuts : p[1][1] < p[2][1]}
           c == InOrder(Cuts, order)
           Seen(i) == {c[k] : k \in 1 .. i}
           A == Seq(ValidSpans)
           T == {p \in Nat \X A : p[1] \in 0 .. Len(c) => Merged(p[2], Seen(p[1]))}
<1>1. \A iv \in Cuts : iv \in ValidSpans /\ iv[1] \in Nat
  BY CutsAreValid, SpanFacts
<1>2. HasFirsts(Cuts, order)
  <2> SUFFICES ASSUME NEW R \in SUBSET Cuts, R # {} PROVE \E a \in R : Leads(a, R, order)
    BY Zenon DEF HasFirsts
  <2> DEFINE K == {iv[1] : iv \in R}
  <2>1. K \in SUBSET Nat /\ K # {}
    BY <1>1
  <2>2. PICK m \in K : \A k \in K : m <= k
    <3> HIDE DEF K
    <3> QED BY <2>1, LeastNatural
  <2>3. PICK a \in R : a[1] = m
    BY <2>2
  <2>4. ASSUME NEW b \in R PROVE <<b, a>> \notin order
    BY <1>1, <2>2, <2>3
  <2> QED BY <2>3, <2>4 DEF Leads
<1>3. /\ c \in Seq(Cuts) /\ Range(c) = Cuts
      /\ \A i, j \in 1 .. Len(c) : i < j => <<c[j], c[i]>> \notin order
  <2>1. IsFiniteSet(Cuts)
    BY CutsAreValid
  <2> HIDE DEF order
  <2> QED BY <1>2, <2>1, InOrderFacts
<1>4. MergeIntervals(Cuts) = Folded(c, <<>>, Merge)
  BY DEF MergeIntervals
<1> HIDE DEF c
<1>5. Len(c) \in Nat /\ \A i \in 1 .. Len(c) : c[i] \in Cuts
  BY <1>3, LenProperties, ElementOfSeq
<1>6. \A i, j \in 1 .. Len(c) : i <= j => c[i][1] <= c[j][1]
  <2> SUFFICES ASSUME NEW i \in 1 .. Len(c), NEW j \in 1 .. Len(c), i <= j
               PROVE  c[i][1] <= c[j][1]
    OBVIOUS
  <2>1. c[i] \in Cuts /\ c[j] \in Cuts /\ c[i][1] \in Nat /\ c[j][1] \in Nat
    BY <1>1, <1>5
  <2>2. i < j => ~(c[j][1] < c[i][1])
    BY <1>3, <2>1
  <2> QED BY <2>1, <2>2
<1>7. <<>> \in A /\ <<0, <<>>>> \in T
  <2>1. <<>> \in A /\ Len(<<>>) = 0
    BY EmptySeq
  <2>2. Merged(<<>>, Seen(0))
    BY <2>1 DEF Merged
  <2> HIDE DEF Seen, A
  <2> QED BY <2>1, <2>2
<1>8. ASSUME NEW i \in 1 .. Len(c), NEW m \in A, Merged(m, Seen(i - 1))
      PROVE  Merged(Merge[c[i]][m], Seen(i))
  <2>1. c[i] \in ValidSpans
    BY <1>1, <1>5
  <2>2. \A k \in 1 .. i - 1 : k \in 1 .. Len(c) /\ k <= i
    BY <1>5
  <2>3. Seen(i - 1) \in SUBSET ValidSpans /\ \A b \in Seen(i - 1) : b[1] <= c[i][1]
    BY <1>1, <1>5, <1>6, <2>2
  <2>4. Seen(i) = Seen(i - 1) \cup {c[i]}
    <3>1. i \in Nat /\ 1 .. i = (1 .. i - 1) \cup {i}
      OBVIOUS
    <3> QED BY <3>1
  <2> HIDE DEF Seen
  <2> QED BY <1>8, <2>1, <2>3, <2>4, MergeFacts
<1>9. ASSUME NEW iv \in Cuts, NEW m \in A PROVE Merge[iv][m] \in A
  BY <1>1, MergeCases
<1> HIDE DEF A, Seen
<1>10. FoldKeeps(T, c, A, Merge)
  <2> SUFFICES ASSUME NEW i \in 1 .. Len(c), NEW m \in A, <<i - 1, m>> \in T
               PROVE  <<i, Merge[c[i]][m]>> \in T
    BY DEF FoldKeeps
  <2>1. i - 1 \in 0 .. Len(c) /\ i \in Nat /\ c[i] \in Cuts
    BY <1>5
  <2>2. Merged(m, Seen(i - 1))
    BY <2>1
  <2> QED BY <1>8, <1>9, <2>1, <2>2
<1>11. Folded(c, <<>>, Merge) \in A /\ <<Len(c), Folded(c, <<>>, Merge)>> \in T
  <2>1. StepsIn(Merge, Cuts, A)
    BY <1>9 DEF StepsIn
  <2> HIDE DEF T
  <2> QED BY <1>3, <1>7, <1>10, <2>1, FoldedInduction
<1>12. Seen(Len(c)) = Cuts
  BY <1>3, <1>5 DEF Range, Seen
<1>13. Merged(Folded(c, <<>>, Merge), Seen(Len(c)))
  BY <1>5, <1>11
<1> QED BY <1>4, <1>11, <1>12, <1>13 DEF A

-----------------------------------------------------------------------------
(* What is kept. *)

\* The intervals of k follow each other.
Successive(k) == \A j, l \in 1 .. Len(k) : j < l => k[j][2] <= k[l][1]
Covers(k, t) == \E j \in 1 .. Len(k) : Inside(t, k[j])

LEMMA AppendSpan ==
    ASSUME NEW k \in Seq(ValidSpans), Successive(k), NEW v \in ValidSpans,
           \A j \in 1 .. Len(k) : k[j][2] <= v[1]
    PROVE  /\ Append(k, v) \in Seq(ValidSpans) /\ Successive(Append(k, v))
           /\ \A j \in 1 .. Len(Append(k, v)) : Append(k, v)[j][2] <= v[2]
           /\ \A t \in Nat : Covers(Append(k, v), t) <=> Covers(k, t) \/ Inside(t, v)
<1> DEFINE r == Append(k, v)
           n == Len(k)
<1>1. /\ r \in Seq(ValidSpans) /\ Len(r) = n + 1 /\ r[n + 1] = v
      /\ \A j \in 1 .. n : r[j] = k[j]
  BY AppendProperties
<1>2. n \in Nat /\ \A j \in 1 .. n : k[j] \in ValidSpans
  BY LenProperties, ElementOfSeq
<1> HIDE DEF r
<1>3. \A j \in 1 .. n + 1 : (j \in 1 .. n /\ r[j] = k[j]) \/ (j = n + 1 /\ r[j] = v)
  BY <1>1, <1>2
<1>4. v[1] \in Nat /\ v[2] \in Nat /\ v[1] < v[2]
  BY SpanFacts
<1>5. \A j \in 1 .. n : k[j][1] \in Nat /\ k[j][2] \in Nat
  BY <1>2, SpanFacts
<1>6. Successive(r)
  <2> SUFFICES ASSUME NEW j \in 1 .. n + 1, NEW l \in 1 .. n + 1, j < l
               PROVE  r[j][2] <= r[l][1]
    BY <1>1 DEF Successive
  <2>1. j \in 1 .. n /\ r[j] = k[j]
    BY <1>2, <1>3
  <2>2. CASE l = n + 1
    BY <1>1, <2>1, <2>2
  <2>3. CASE l # n + 1
    <3>1. l \in 1 .. n /\ r[l] = k[l]
      BY <1>3, <2>3
    <3> QED BY <2>1, <3>1 DEF Successive
  <2> QED BY <2>2, <2>3
<1>7. \A j \in 1 .. n + 1 : r[j][2] <= v[2]
  BY <1>3, <1>4, <1>5
<1>8. ASSUME NEW t \in Nat PROVE Covers(r, t) <=> Covers(k, t) \/ Inside(t, v)
  <2>1. \A j \in 1 .. n : j \in 1 .. n + 1 /\ r[j] = k[j]
    BY <1>1, <1>2
  <2>2. n + 1 \in 1 .. n + 1
    BY <1>2
  <2> QED BY <1>1, <1>3, <2>1, <2>2 DEF Covers
<1> QED BY <1>1, <1>6, <1>7, <1>8 DEF r

PassType == [keep : Seq(ValidSpans), pos : 0 .. Duration]

\* After i of the merged cuts m: everything up to pos that they do not cover.
Passed(d, m, i) ==
    /\ Successive(d.keep)
    /\ \A j \in 1 .. Len(d.keep) : d.keep[j][2] <= d.pos
    /\ d.pos = IF i = 0 THEN 0 ELSE m[i][2]
    /\ \A t \in Nat : Covers(d.keep, t) <=> t < d.pos /\ ~\E l \in 1 .. i : Inside(t, m[l])

\* One more cut, with or without something to keep before it.
LEMMA PassCases ==
    ASSUME NEW iv \in ValidSpans, NEW d \in PassType
    PROVE  /\ Pass[iv][d] \in PassType
           /\ Pass[iv][d].pos = IF d.pos >= iv[2] THEN d.pos ELSE iv[2]
           /\ IF iv[1] > d.pos
              THEN /\ <<d.pos, iv[1]>> \in ValidSpans
                   /\ Pass[iv][d].keep = Append(d.keep, <<d.pos, iv[1]>>)
              ELSE Pass[iv][d].keep = d.keep
<1>1. /\ iv \in Spans /\ iv[1] \in Nat /\ iv[2] \in Nat /\ iv[1] < iv[2] /\ iv[2] <= Duration
      /\ d.keep \in Seq(ValidSpans) /\ d.pos \in 0 .. Duration /\ Duration \in Nat
  BY SpanFacts DEF PassType
<1> DEFINE before == <<d.pos, iv[1]>>
           keep == IF iv[1] > d.pos THEN Append(d.keep, before) ELSE d.keep
           pos == IF d.pos >= iv[2] THEN d.pos ELSE iv[2]
<1>2. Pass[iv][d] = [keep |-> keep, pos |-> Max({d.pos, iv[2]})]
  <2>1. d \in [keep : Seq(Spans), pos : Nat]
    <3>1. ValidSpans \subseteq Spans
      BY DEF ValidSpans
    <3>2. Seq(ValidSpans) \subseteq Seq(Spans)
      BY <3>1, SeqMonotonic
    <3> QED BY <1>1, <3>2 DEF PassType
  <2> QED BY <1>1, <2>1 DEF Pass
<1>3. Max({d.pos, iv[2]}) = pos /\ pos \in 0 .. Duration
  BY <1>1, MaxOfTwo
<1>4. iv[1] > d.pos => before \in ValidSpans
  BY <1>1 DEF ValidSpans, Spans
<1>5. keep \in Seq(ValidSpans)
  <2> HIDE DEF before
  <2> QED BY <1>1, <1>4, AppendProperties
<1> HIDE DEF keep, pos
<1>6. /\ Pass[iv][d] \in PassType /\ Pass[iv][d].pos = pos /\ Pass[iv][d].keep = keep
  BY <1>2, <1>3, <1>5 DEF PassType
<1> QED BY <1>4, <1>6 DEF keep, pos

LEMMA PassFacts ==
    ASSUME NEW m \in Seq(ValidSpans), \A j, k \in 1 .. Len(m) : j < k => m[j][2] < m[k][1],
           NEW i \in 1 .. Len(m), NEW d \in PassType, Passed(d, m, i - 1)
    PROVE  Passed(Pass[m[i]][d], m, i)
<1> DEFINE iv == m[i]
           r == Pass[iv][d]
           before == <<d.pos, iv[1]>>
<1>0. Len(m) \in Nat /\ i \in Nat /\ \A j \in 1 .. Len(m) : m[j] \in ValidSpans
  BY LenProperties, ElementOfSeq
<1>1. /\ iv \in ValidSpans /\ iv[1] \in Nat /\ iv[2] \in Nat /\ iv[1] < iv[2]
      /\ d.keep \in Seq(ValidSpans) /\ d.pos \in Nat
  BY <1>0, SpanFacts DEF PassType
<1>2. \A j \in 1 .. Len(m) : m[j][1] \in Nat /\ m[j][2] \in Nat /\ m[j][1] < m[j][2]
  BY <1>0, SpanFacts
<1>3. d.pos <= iv[1] /\ \A l \in 1 .. i - 1 : m[l][2] <= d.pos
  <2>1. CASE i = 1
    BY <1>1, <2>1 DEF Passed
  <2>2. CASE i # 1
    <3>1. i - 1 \in 1 .. Len(m) /\ i - 1 < i /\ i - 1 # 0
      BY <1>0, <2>2
    <3>2. d.pos = m[i - 1][2] /\ m[i - 1][2] < iv[1]
      BY <3>1 DEF Passed
    <3>3. ASSUME NEW l \in 1 .. i - 1 PROVE m[l][2] <= d.pos
      <4>1. CASE l = i - 1
        BY <1>2, <3>1, <3>2, <4>1
      <4>2. CASE l # i - 1
        <5>1. l \in 1 .. Len(m) /\ l < i - 1
          BY <1>0, <4>2
        <5>2. m[l][2] < m[i - 1][1] /\ m[i - 1][1] < m[i - 1][2]
          BY <1>2, <3>1, <5>1
        <5> QED BY <1>2, <3>1, <3>2, <5>1, <5>2
      <4> QED BY <4>1, <4>2
    <3> QED BY <1>1, <3>2, <3>3
  <2> QED BY <2>1, <2>2
<1>4. /\ r.pos = iv[2]
      /\ IF iv[1] > d.pos
         THEN before \in ValidSpans /\ r.keep = Append(d.keep, before)
         ELSE r.keep = d.keep
  <2>1. /\ r.pos = IF d.pos >= iv[2] THEN d.pos ELSE iv[2]
        /\ IF iv[1] > d.pos
           THEN before \in ValidSpans /\ r.keep = Append(d.keep, before)
           ELSE r.keep = d.keep
    <3> HIDE DEF iv
    <3> QED BY <1>1, PassCases
  <2> HIDE DEF r, iv, before
  <2> QED BY <1>1, <1>3, <2>1
<1>5. /\ Successive(r.keep) /\ \A j \in 1 .. Len(r.keep) : r.keep[j][2] <= r.pos
      /\ \A t \in Nat : Covers(r.keep, t) <=> Covers(d.keep, t) \/ Inside(t, before)
  <2> HIDE DEF r, iv
  <2>1. \A j \in 1 .. Len(d.keep) : d.keep[j][2] \in Nat
    BY <1>1, ElementOfSeq, SpanFacts
  <2>2. CASE iv[1] > d.pos
    <3>1. before \in ValidSpans /\ r.keep = Append(d.keep, before)
      BY <1>4, <2>2
    <3>2. \A j \in 1 .. Len(d.keep) : d.keep[j][2] <= before[1]
      BY DEF Passed
    <3>3. Successive(d.keep)
      BY DEF Passed
    <3>4. /\ r.keep \in Seq(ValidSpans) /\ Successive(r.keep)
          /\ \A j \in 1 .. Len(r.keep) : r.keep[j][2] <= before[2]
          /\ \A t \in Nat : Covers(r.keep, t) <=> Covers(d.keep, t) \/ Inside(t, before)
      <4> DEFINE more == Append(d.keep, before)
      <4> HIDE DEF before
      <4>1. /\ more \in Seq(ValidSpans) /\ Successive(more)
            /\ \A j \in 1 .. Len(more) : more[j][2] <= before[2]
            /\ \A t \in Nat : Covers(more, t) <=> Covers(d.keep, t) \/ Inside(t, before)
        BY <1>1, <3>1, <3>2, <3>3, AppendSpan
      <4> HIDE DEF more
      <4> QED BY <3>1, <4>1 DEF more
    <3>5. \A j \in 1 .. Len(r.keep) : r.keep[j][2] \in Nat
      BY <3>4, ElementOfSeq, SpanFacts
    <3>6. before[2] <= r.pos /\ before[2] \in Nat /\ r.pos \in Nat
      BY <1>1, <1>4
    <3>7. \A j \in 1 .. Len(r.keep) : r.keep[j][2] <= r.pos
      <4> HIDE DEF before
      <4> QED BY <3>4, <3>5, <3>6
    <3> QED BY <3>4, <3>7
  <2>3. CASE ~(iv[1] > d.pos)
    <3>1. r.keep = d.keep /\ d.pos <= r.pos
      BY <1>1, <1>3, <1>4, <2>3
    <3>2. \A t \in Nat : ~Inside(t, before)
      BY <1>1, <2>3 DEF Inside
    <3>3. \A j \in 1 .. Len(d.keep) : d.keep[j][2] <= r.pos
      BY <1>1, <1>4, <2>1, <3>1 DEF Passed
    <3> QED BY <3>1, <3>2, <3>3 DEF Passed
  <2> QED BY <2>2, <2>3
<1>6. ASSUME NEW t \in Nat
      PROVE  Covers(r.keep, t) <=> t < r.pos /\ ~\E l \in 1 .. i : Inside(t, m[l])
  <2> HIDE DEF r
  <2>1. Covers(r.keep, t) <=>
           \/ t < d.pos /\ ~\E l \in 1 .. i - 1 : Inside(t, m[l])
           \/ d.pos <= t /\ t < iv[1]
    BY <1>5 DEF Passed, Inside
  <2>2. (\E l \in 1 .. i : Inside(t, m[l]))
           <=> (\E l \in 1 .. i - 1 : Inside(t, m[l])) \/ Inside(t, iv)
    <3>1. 1 .. i = (1 .. i - 1) \cup {i}
      BY <1>0
    <3> QED BY <3>1
  <2>3. (\E l \in 1 .. i - 1 : Inside(t, m[l])) => t < d.pos
    <3> SUFFICES ASSUME NEW l \in 1 .. i - 1, Inside(t, m[l]) PROVE t < d.pos
      OBVIOUS
    <3>1. m[l][2] <= d.pos /\ m[l][2] \in Nat
      BY <1>0, <1>2, <1>3
    <3> QED BY <1>1, <3>1 DEF Inside
  <2>4. Inside(t, iv) <=> iv[1] <= t /\ t < iv[2]
    BY DEF Inside
  <2> QED BY <1>1, <1>3, <1>4, <2>1, <2>2, <2>3, <2>4
<1>7. r.pos = IF i = 0 THEN 0 ELSE m[i][2]
  BY <1>0, <1>4
<1> QED BY <1>5, <1>6, <1>7 DEF Passed

\* complement_intervals: what is kept is what no cut covers.
LEMMA KeepFacts ==
    ASSUME SegmentsAreSound
    PROVE  /\ Keep \in Seq(ValidSpans) /\ Successive(Keep)
           /\ \A t \in Frames : Covers(Keep, t) <=> ~\E c \in Cuts : Inside(t, c)
<1> DEFINE m == MergeIntervals(Cuts)
           base == [keep |-> <<>>, pos |-> 0]
           T == {p \in Nat \X PassType : p[1] \in 0 .. Len(m) => Passed(p[2], m, p[1])}
           end == Folded(m, base, Pass)
           rest == <<end.pos, Duration>>
<1>1. /\ m \in Seq(ValidSpans) /\ \A j, k \in 1 .. Len(m) : j < k => m[j][2] < m[k][1]
      /\ \A t \in Nat : (\E j \in 1 .. Len(m) : Inside(t, m[j])) <=> \E c \in Cuts : Inside(t, c)
  BY MergeIntervalsFacts DEF Merged
<1>2. Keep = IF end.pos < Duration THEN Append(end.keep, rest) ELSE end.keep
  BY DEF Keep, ComplementIntervals
<1> HIDE DEF m
<1>3. Len(m) \in Nat /\ \A j \in 1 .. Len(m) : m[j] \in ValidSpans
  BY <1>1, LenProperties, ElementOfSeq
<1>4. base \in PassType /\ Passed(base, m, 0)
  <2>1. <<>> \in Seq(ValidSpans) /\ Len(<<>>) = 0
    BY EmptySeq
  <2>2. base \in PassType
    BY <2>1 DEF PassType
  <2>3. Passed(base, m, 0)
    BY <2>1 DEF Passed, Successive, Covers
  <2> QED BY <2>2, <2>3
<1> HIDE DEF base
<1>5. <<0, base>> \in T
  BY <1>4
<1>6. FoldKeeps(T, m, PassType, Pass)
  <2> SUFFICES ASSUME NEW i \in 1 .. Len(m), NEW d \in PassType, <<i - 1, d>> \in T
               PROVE  <<i, Pass[m[i]][d]>> \in T
    BY DEF FoldKeeps
  <2>1. i - 1 \in 0 .. Len(m) /\ i \in Nat /\ m[i] \in ValidSpans
    BY <1>3
  <2>2. Passed(d, m, i - 1)
    BY <2>1
  <2>3. Pass[m[i]][d] \in PassType
    BY <2>1, PassCases
  <2>4. Passed(Pass[m[i]][d], m, i)
    BY <1>1, <2>2, PassFacts
  <2> QED BY <2>1, <2>3, <2>4
<1>7. end \in PassType /\ <<Len(m), end>> \in T
  <2>1. StepsIn(Pass, ValidSpans, PassType)
    BY PassCases DEF StepsIn
  <2> HIDE DEF T
  <2> QED BY <1>1, <1>4, <1>5, <1>6, <2>1, FoldedInduction
<1> HIDE DEF end
<1>8. Passed(end, m, Len(m))
  BY <1>3, <1>7
<1>9. end.keep \in Seq(ValidSpans) /\ end.pos \in 0 .. Duration /\ Duration \in Nat
  BY <1>7 DEF PassType
<1>10. ASSUME NEW t \in Nat
       PROVE  Covers(end.keep, t) <=> t < end.pos /\ ~\E c \in Cuts : Inside(t, c)
  BY <1>1, <1>8 DEF Passed
<1>11. ASSUME NEW t \in Nat, NEW c \in Cuts, Inside(t, c) PROVE t < end.pos
  <2>1. PICK j \in 1 .. Len(m) : Inside(t, m[j])
    BY <1>1, <1>11
  <2>2. Len(m) \in 1 .. Len(m) /\ end.pos = m[Len(m)][2]
    BY <1>3, <1>8 DEF Passed
  <2>3. /\ m[j][2] \in Nat /\ m[Len(m)][1] \in Nat /\ m[Len(m)][2] \in Nat
        /\ m[Len(m)][1] < m[Len(m)][2]
    BY <1>3, <2>2, SpanFacts
  <2>4. m[j][2] <= end.pos
    <3>1. CASE j = Len(m)
      BY <2>2, <2>3, <3>1
    <3>2. CASE j # Len(m)
      <4>1. m[j][2] < m[Len(m)][1]
        BY <1>1, <1>3, <2>2, <3>2
      <4> QED BY <2>2, <2>3, <4>1
    <3> QED BY <3>1, <3>2
  <2> QED BY <1>9, <2>1, <2>3, <2>4 DEF Inside
<1>12. CASE end.pos < Duration
  <2>1. rest \in ValidSpans /\ rest[1] = end.pos /\ rest[2] = Duration
    BY <1>9, <1>12 DEF ValidSpans, Spans
  <2>2. Successive(end.keep) /\ \A j \in 1 .. Len(end.keep) : end.keep[j][2] <= rest[1]
    BY <1>8, <2>1 DEF Passed
  <2> DEFINE k == Append(end.keep, rest)
  <2>3. /\ k \in Seq(ValidSpans) /\ Successive(k)
        /\ \A t \in Nat : Covers(k, t) <=> Covers(end.keep, t) \/ Inside(t, rest)
    <3> HIDE DEF rest
    <3> QED BY <1>9, <2>1, <2>2, AppendSpan
  <2> HIDE DEF k, rest
  <2>4. ASSUME NEW t \in Frames PROVE Covers(k, t) <=> ~\E c \in Cuts : Inside(t, c)
    <3>1. t \in Nat /\ t < Duration
      BY DEF Frames
    <3>2. Covers(k, t) <=> Covers(end.keep, t) \/ Inside(t, rest)
      BY <2>3, <3>1
    <3>3. Inside(t, rest) <=> end.pos <= t
      BY <2>1, <3>1 DEF Inside
    <3>4. (\E c \in Cuts : Inside(t, c)) => t < end.pos
      BY <1>11, <3>1
    <3>5. Covers(end.keep, t) <=> t < end.pos /\ ~\E c \in Cuts : Inside(t, c)
      BY <1>10, <3>1
    <3>6. end.pos <= t <=> ~(t < end.pos)
      BY <1>9, <3>1
    <3> QED BY <3>2, <3>3, <3>4, <3>5, <3>6
  <2> QED BY <1>2, <1>12, <2>3, <2>4 DEF k
<1>13. CASE ~(end.pos < Duration)
  <2>1. ASSUME NEW t \in Frames PROVE Covers(end.keep, t) <=> ~\E c \in Cuts : Inside(t, c)
    <3>1. t \in Nat /\ t < end.pos
      BY <1>9, <1>13 DEF Frames
    <3> QED BY <1>10, <3>1
  <2> QED BY <1>2, <1>8, <1>9, <1>13, <2>1 DEF Passed
<1> QED BY <1>12, <1>13

-----------------------------------------------------------------------------
(* The exported frames. *)

\* The frames of out are those of the first i intervals of Keep, rendered.
Joined(out, i) ==
    /\ \A x \in 1 .. Len(out) : out[x].at \in Frames /\ out[x] = Rendered(out[x].at)
    /\ \A x, y \in 1 .. Len(out) : x < y => out[x].at < out[y].at
    /\ \A x \in 1 .. Len(out) : \E l \in 1 .. i : Inside(out[x].at, Keep[l])
    /\ \A t \in Frames : (\E l \in 1 .. i : Inside(t, Keep[l]))
                            => \E x \in 1 .. Len(out) : out[x].at = t

\* The frames of one interval.
PartOf(iv) == [n \in 1 .. iv[2] - iv[1] |-> [t \in Frames |-> Rendered(t)][iv[1] + n - 1]]

LEMMA PartFacts ==
    ASSUME SegmentsAreSound, NEW iv \in ValidSpans
    PROVE  /\ PartOf(iv) \in Seq(Frame) /\ Len(PartOf(iv)) = iv[2] - iv[1]
           /\ \A n \in 1 .. iv[2] - iv[1] :
                 /\ iv[1] + n - 1 \in Frames
                 /\ PartOf(iv)[n] = Rendered(iv[1] + n - 1)
                 /\ PartOf(iv)[n].at = iv[1] + n - 1
<1> DEFINE len == iv[2] - iv[1]
<1>1. iv[1] \in Nat /\ iv[2] \in Nat /\ iv[1] < iv[2] /\ iv[2] <= Duration /\ Duration \in Nat
  BY SpanFacts
<1>2. ASSUME NEW n \in 1 .. len
      PROVE  /\ iv[1] + n - 1 \in Frames
             /\ PartOf(iv)[n] = Rendered(iv[1] + n - 1)
             /\ PartOf(iv)[n] \in Frame
             /\ PartOf(iv)[n].at = iv[1] + n - 1
  <2>1. iv[1] + n - 1 \in Frames
    BY <1>1 DEF Frames
  <2>2. PartOf(iv)[n] = Rendered(iv[1] + n - 1)
    BY <2>1 DEF PartOf
  <2> QED BY <2>1, <2>2, RenderedFacts
<1>3. len \in Nat /\ DOMAIN PartOf(iv) = 1 .. len /\ PartOf(iv) = [n \in 1 .. len |-> PartOf(iv)[n]]
  BY <1>1 DEF PartOf
<1>4. PartOf(iv) \in [1 .. len -> Frame]
  BY <1>2, <1>3
<1>5. PartOf(iv) \in Seq(Frame) /\ Len(PartOf(iv)) = len
  BY <1>3, <1>4
<1> QED BY <1>2, <1>5

\* Joining the frames of the next interval.
LEMMA JoinFacts ==
    ASSUME SegmentsAreSound, NEW i \in 1 .. Len(Keep), NEW out \in Seq(Frame), Joined(out, i - 1)
    PROVE  out \o PartOf(Keep[i]) \in Seq(Frame) /\ Joined(out \o PartOf(Keep[i]), i)
<1> DEFINE iv == Keep[i]
           part == PartOf(iv)
           r == out \o part
           n == Len(out)
           len == iv[2] - iv[1]
<1>1. /\ Keep \in Seq(ValidSpans) /\ Successive(Keep) /\ Len(Keep) \in Nat
      /\ \A l \in 1 .. Len(Keep) : Keep[l] \in ValidSpans
  BY KeepFacts, LenProperties, ElementOfSeq
<1>2. iv \in ValidSpans /\ iv[1] \in Nat /\ iv[2] \in Nat /\ iv[1] < iv[2]
  BY <1>1, SpanFacts
<1>3. /\ part \in Seq(Frame) /\ Len(part) = len
      /\ \A x \in 1 .. len : /\ iv[1] + x - 1 \in Frames
                             /\ part[x] = Rendered(iv[1] + x - 1)
                             /\ part[x].at = iv[1] + x - 1
  BY <1>2, PartFacts
<1>4. n \in Nat /\ len \in Nat
  BY <1>2, LenProperties
<1> HIDE DEF iv
<1>5. /\ r \in Seq(Frame) /\ Len(r) = n + len
      /\ \A x \in 1 .. n + len : r[x] = IF x <= n THEN out[x] ELSE part[x - n]
  <2> HIDE DEF part
  <2>1. /\ r \in Seq(Frame) /\ Len(r) = n + Len(part)
        /\ \A x \in 1 .. n + Len(part) : r[x] = IF x <= n THEN out[x] ELSE part[x - n]
    BY <1>3, ConcatProperties
  <2> HIDE DEF r, len
  <2> QED BY <1>3, <2>1
<1> HIDE DEF part, r
<1>6. ASSUME NEW x \in 1 .. n
      PROVE  /\ r[x] = out[x] /\ x \in 1 .. n + len /\ out[x].at \in Frames
             /\ out[x].at < iv[1]
  <2>1. r[x] = out[x] /\ x \in 1 .. n + len
    BY <1>4, <1>5
  <2>2. out[x].at \in Frames
    BY DEF Joined
  <2>3. PICK l \in 1 .. i - 1 : Inside(out[x].at, Keep[l])
    BY DEF Joined
  <2>4. l \in 1 .. Len(Keep) /\ l < i
    BY <1>1
  <2>5. Keep[l][2] <= iv[1] /\ Keep[l][2] \in Nat
    BY <1>1, <2>4, SpanFacts DEF Successive, iv
  <2>6. out[x].at < Keep[l][2]
    BY <2>3 DEF Inside
  <2>7. out[x].at \in Nat
    BY <2>2 DEF Frames
  <2>8. out[x].at < iv[1]
    BY <1>2, <2>5, <2>6, <2>7
  <2> QED BY <2>1, <2>2, <2>8
<1>7. ASSUME NEW x \in 1 .. len
      PROVE  /\ r[n + x] = part[x] /\ n + x \in 1 .. n + len
             /\ r[n + x].at = iv[1] + x - 1
  BY <1>3, <1>4, <1>5
<1>8. \A x \in 1 .. n + len : x \in 1 .. n \/ (x - n \in 1 .. len /\ n + (x - n) = x)
  BY <1>4
<1>9. ASSUME NEW x \in 1 .. n + len
      PROVE  /\ r[x].at \in Frames /\ r[x] = Rendered(r[x].at)
             /\ \E l \in 1 .. i : Inside(r[x].at, Keep[l])
  <2>1. CASE x \in 1 .. n
    <3>1. /\ r[x] = out[x] /\ out[x].at \in Frames /\ out[x] = Rendered(out[x].at)
          /\ \E l \in 1 .. i - 1 : Inside(out[x].at, Keep[l])
      BY <1>6, <2>1 DEF Joined
    <3>2. 1 .. i - 1 \subseteq 1 .. i
      BY <1>1
    <3> QED BY <3>1, <3>2
  <2>2. CASE x - n \in 1 .. len /\ n + (x - n) = x
    <3> DEFINE y == x - n
    <3>1. /\ r[x] = part[y] /\ part[y].at = iv[1] + y - 1 /\ iv[1] + y - 1 \in Frames
          /\ part[y] = Rendered(iv[1] + y - 1) /\ y \in 1 .. len
      BY <1>3, <1>7, <2>2
    <3> HIDE DEF y
    <3>2. Inside(iv[1] + y - 1, iv)
      BY <1>2, <3>1 DEF Inside
    <3>3. i \in 1 .. i
      BY <1>1
    <3> QED BY <3>1, <3>2, <3>3 DEF iv
  <2> QED BY <1>8, <2>1, <2>2
<1>10. ASSUME NEW x \in 1 .. n + len, NEW y \in 1 .. n + len, x < y PROVE r[x].at < r[y].at
  <2>1. CASE x \in 1 .. n /\ y \in 1 .. n
    BY <1>6, <1>10, <2>1 DEF Joined
  <2>2. CASE x \in 1 .. n /\ y - n \in 1 .. len /\ n + (y - n) = y
    <3>1. r[x].at < iv[1] /\ r[x].at \in Frames
      BY <1>6, <2>2
    <3>2. r[y].at = iv[1] + (y - n) - 1
      BY <1>7, <2>2
    <3> DEFINE z == y - n
    <3>3. z \in 1 .. len /\ r[y].at = iv[1] + z - 1 /\ r[x].at \in Nat
      BY <2>2, <3>1, <3>2 DEF Frames
    <3> HIDE DEF z
    <3> QED BY <1>2, <3>1, <3>3
  <2>3. CASE x - n \in 1 .. len /\ n + (x - n) = x /\ y - n \in 1 .. len /\ n + (y - n) = y
    <3>1. r[x].at = iv[1] + (x - n) - 1 /\ r[y].at = iv[1] + (y - n) - 1
      BY <1>7, <2>3
    <3> DEFINE z == y - n
               w == x - n
    <3>2. /\ z \in 1 .. len /\ r[y].at = iv[1] + z - 1
          /\ w \in 1 .. len /\ r[x].at = iv[1] + w - 1
      BY <2>3, <3>1
    <3>3. w < z
      BY <1>4, <1>10
    <3> HIDE DEF z, w
    <3> QED BY <1>2, <3>2, <3>3
  <2>4. ~(y \in 1 .. n /\ x - n \in 1 .. len)
    BY <1>4, <1>10
  <2> QED BY <1>8, <2>1, <2>2, <2>3, <2>4
<1>11. ASSUME NEW t \in Frames, NEW l \in 1 .. i, Inside(t, Keep[l])
       PROVE  \E x \in 1 .. n + len : r[x].at = t
  <2>1. CASE l \in 1 .. i - 1
    <3>1. PICK x \in 1 .. n : out[x].at = t
      BY <1>11, <2>1 DEF Joined
    <3> QED BY <1>6, <3>1
  <2>2. CASE l = i
    <3> DEFINE x == t - iv[1] + 1
    <3>1. x \in 1 .. len /\ iv[1] + x - 1 = t
      BY <1>2, <1>11, <2>2 DEF Inside, Frames, iv
    <3> HIDE DEF x
    <3> QED BY <1>7, <3>1
  <2>3. l \in 1 .. i - 1 \/ l = i
    OBVIOUS
  <2> QED BY <2>1, <2>2, <2>3
<1>12. Joined(r, i)
  BY <1>5, <1>9, <1>10, <1>11 DEF Joined
<1> QED BY <1>5, <1>12 DEF r, part, iv

\* trim and concat: all frames of all intervals that are kept.
LEMMA ExportedFacts ==
    ASSUME SegmentsAreSound
    PROVE  ExportedFrames \in Seq(Frame) /\ Joined(ExportedFrames, Len(Keep))
<1> DEFINE join == [iv \in Spans |-> [out \in Seq(Frame) |-> out \o PartOf(iv)]]
           A == Seq(Frame)
           T == {p \in Nat \X A : p[1] \in 0 .. Len(Keep) => Joined(p[2], p[1])}
<1>1. ExportedFrames = Folded(Keep, <<>>, join)
  BY DEF ExportedFrames, PartOf
<1>2. /\ Keep \in Seq(ValidSpans) /\ Len(Keep) \in Nat
      /\ \A l \in 1 .. Len(Keep) : Keep[l] \in ValidSpans
  BY KeepFacts, LenProperties, ElementOfSeq
<1>3. ASSUME NEW iv \in ValidSpans, NEW out \in A
      PROVE  join[iv][out] = out \o PartOf(iv) /\ join[iv][out] \in A
  <2>1. iv \in Spans /\ PartOf(iv) \in Seq(Frame)
    BY SpanFacts, PartFacts
  <2>2. join[iv][out] = out \o PartOf(iv)
    BY <2>1
  <2> HIDE DEF join
  <2> QED BY <2>1, <2>2, ConcatProperties
<1> HIDE DEF join
<1>4. <<>> \in A /\ <<0, <<>>>> \in T
  <2>1. <<>> \in A /\ Len(<<>>) = 0
    BY EmptySeq
  <2>2. Joined(<<>>, 0)
    BY <2>1 DEF Joined
  <2> HIDE DEF A
  <2> QED BY <2>1, <2>2
<1>5. FoldKeeps(T, Keep, A, join)
  <2> SUFFICES ASSUME NEW i \in 1 .. Len(Keep), NEW out \in A, <<i - 1, out>> \in T
               PROVE  <<i, join[Keep[i]][out]>> \in T
    BY DEF FoldKeeps
  <2>1. i - 1 \in 0 .. Len(Keep) /\ i \in Nat /\ Keep[i] \in ValidSpans
    BY <1>2
  <2>2. Joined(out, i - 1)
    BY <2>1
  <2>3. Joined(out \o PartOf(Keep[i]), i)
    BY <2>2, JoinFacts
  <2> HIDE DEF A
  <2> QED BY <1>3, <2>1, <2>3
<1>6. Folded(Keep, <<>>, join) \in A /\ <<Len(Keep), Folded(Keep, <<>>, join)>> \in T
  <2>1. StepsIn(join, ValidSpans, A)
    BY <1>3 DEF StepsIn
  <2> HIDE DEF T, A
  <2> QED BY <1>2, <1>4, <1>5, <2>1, FoldedInduction
<1>7. Joined(Folded(Keep, <<>>, join), Len(Keep))
  BY <1>2, <1>6
<1> QED BY <1>1, <1>6, <1>7

-----------------------------------------------------------------------------
(* Runs of flagged samples. *)

RunType == [first : Samples, last : Samples]

LEMMA SampleFacts == \A t \in Samples : t \in Nat /\ t < Duration
BY DEF Samples, Frames

\* A hit goes on with the last run or begins one.
LEMMA ExtendCases ==
    ASSUME NEW r \in Seq(RunType), NEW t \in Samples
    PROVE  /\ Extend[t][r] \in Seq(RunType)
           /\ \/ /\ Len(r) \in 1 .. Len(r) /\ t - r[Len(r)].last <= GapLimit
                 /\ Len(Extend[t][r]) = Len(r)
                 /\ \A j \in 1 .. Len(r) : j # Len(r) => Extend[t][r][j] = r[j]
                 /\ Extend[t][r][Len(r)] = [first |-> r[Len(r)].first, last |-> t]
              \/ /\ Len(r) \in 1 .. Len(r) => t - r[Len(r)].last > GapLimit
                 /\ Extend[t][r] = Append(r, [first |-> t, last |-> t])
<1> DEFINE n == Len(r)
           longer == [first |-> r[n].first, last |-> t]
           goesOn == r # <<>> /\ t - r[n].last <= GapLimit
<1>1. n \in Nat /\ r # <<>> <=> n \in 1 .. n
  BY LenProperties, EmptySeq
<1>2. \A j \in 1 .. n : r[j] \in RunType
  BY ElementOfSeq
<1>3. Extend[t][r] = IF goesOn THEN [r EXCEPT ![n].last = t]
                     ELSE Append(r, [first |-> t, last |-> t])
  BY DEF Extend, RunType
<1>4. CASE goesOn
  <2>1. n \in 1 .. n /\ r[n] \in RunType
    BY <1>1, <1>2, <1>4
  <2>2. [r[n] EXCEPT !.last = t] = longer /\ longer \in RunType
    BY <2>1 DEF RunType
  <2>3. [r EXCEPT ![n].last = t] = [r EXCEPT ![n] = [r[n] EXCEPT !.last = t]]
    BY <2>1
  <2> HIDE DEF longer
  <2>4. /\ [r EXCEPT ![n] = longer] \in Seq(RunType)
        /\ Len([r EXCEPT ![n] = longer]) = n
        /\ \A j \in 1 .. n : [r EXCEPT ![n] = longer][j] = IF j = n THEN longer ELSE r[j]
    BY <2>1, <2>2, ExceptSeq
  <2>5. Extend[t][r] = [r EXCEPT ![n] = longer]
    BY <1>3, <1>4, <2>2, <2>3
  <2> QED BY <1>4, <2>1, <2>4, <2>5 DEF longer
<1>5. CASE ~goesOn
  <2>1. [first |-> t, last |-> t] \in RunType
    BY DEF RunType
  <2>2. Append(r, [first |-> t, last |-> t]) \in Seq(RunType)
    BY <2>1, AppendProperties
  <2>3. n \in 1 .. n => t - r[n].last > GapLimit
    <3> SUFFICES ASSUME n \in 1 .. n PROVE t - r[n].last > GapLimit
      OBVIOUS
    <3>1. t \in Nat /\ r[n].last \in Nat
      BY <1>2, SampleFacts DEF RunType
    <3> QED BY <1>1, <1>5, <3>1
  <2> QED BY <1>3, <1>5, <2>2, <2>3
<1> QED BY <1>4, <1>5

\* The runs r of the hits in old: each begins and ends at a hit, they are
\* further apart than the limit, and each hit is in one of them.
RunsOf(r, old) ==
    /\ \A j \in 1 .. Len(r) : r[j].first \in old /\ r[j].last \in old /\ r[j].first <= r[j].last
    /\ \A j, k \in 1 .. Len(r) : j < k => r[k].first - r[j].last > GapLimit
    /\ \A u \in old : \E j \in 1 .. Len(r) : r[j].first <= u /\ u <= r[j].last

LEMMA ExtendFacts ==
    ASSUME NEW r \in Seq(RunType), NEW old \in SUBSET Samples, RunsOf(r, old),
           NEW t \in Samples, \A u \in old : u < t
    PROVE  RunsOf(Extend[t][r], old \cup {t})
<1> DEFINE n == Len(r)
           x == Extend[t][r]
           one == [first |-> t, last |-> t]
<1>1. n \in Nat /\ t \in Nat /\ GapLimit \in Nat
  BY LenProperties, SampleFacts
<1>2. \A j \in 1 .. n : /\ r[j].first \in Nat /\ r[j].last \in Nat
                        /\ r[j].first <= r[j].last /\ r[j].last < t
  BY SampleFacts DEF RunsOf
<1>3. \/ /\ n \in 1 .. n /\ t - r[n].last <= GapLimit /\ Len(x) = n
         /\ \A j \in 1 .. n : j # n => x[j] = r[j]
         /\ x[n] = [first |-> r[n].first, last |-> t]
      \/ (n \in 1 .. n => t - r[n].last > GapLimit) /\ x = Append(r, one)
  BY ExtendCases
<1> HIDE DEF x
<1>4. CASE /\ n \in 1 .. n /\ t - r[n].last <= GapLimit /\ Len(x) = n
           /\ \A j \in 1 .. n : j # n => x[j] = r[j]
           /\ x[n] = [first |-> r[n].first, last |-> t]
  <2>1. \A j \in 1 .. n : x[j].first = r[j].first /\ x[j].last = IF j = n THEN t ELSE r[j].last
    BY <1>4
  <2>2. ASSUME NEW j \in 1 .. n
        PROVE  /\ x[j].first \in old \cup {t} /\ x[j].last \in old \cup {t}
               /\ x[j].first <= x[j].last
    BY <1>1, <1>2, <2>1 DEF RunsOf
  <2>3. ASSUME NEW j \in 1 .. n, NEW k \in 1 .. n, j < k
        PROVE  x[k].first - x[j].last > GapLimit
    <3>1. j # n
      BY <1>1, <2>3
    <3> QED BY <2>1, <2>3, <3>1 DEF RunsOf
  <2>4. ASSUME NEW u \in old PROVE \E j \in 1 .. n : x[j].first <= u /\ u <= x[j].last
    <3>1. PICK j \in 1 .. n : r[j].first <= u /\ u <= r[j].last
      BY DEF RunsOf
    <3>2. u \in Nat /\ u < t
      BY SampleFacts
    <3> QED BY <1>1, <1>2, <2>1, <3>1, <3>2
  <2>5. x[n].first <= t /\ t <= x[n].last
    BY <1>1, <1>2, <1>4
  <2>6. \A u \in old \cup {t} : \E j \in 1 .. n : x[j].first <= u /\ u <= x[j].last
    BY <1>4, <2>4, <2>5
  <2>7. Len(x) = n
    BY <1>4
  <2>8. RunsOf(x, old \cup {t})
    BY <2>2, <2>3, <2>6, <2>7 DEF RunsOf
  <2> QED BY <2>8 DEF x
<1>5. CASE (n \in 1 .. n => t - r[n].last > GapLimit) /\ x = Append(r, one)
  <2>1. Len(x) = n + 1 /\ x[n + 1] = one /\ \A j \in 1 .. n : x[j] = r[j]
    <3>1. one \in RunType
      BY DEF RunType
    <3> HIDE DEF one
    <3> QED BY <1>5, <3>1, AppendProperties
  <2>2. \A j \in 1 .. n + 1 : (j \in 1 .. n /\ x[j] = r[j]) \/ (j = n + 1 /\ x[j] = one)
    BY <1>1, <2>1
  <2>3. ASSUME NEW j \in 1 .. n + 1
        PROVE  /\ x[j].first \in old \cup {t} /\ x[j].last \in old \cup {t}
               /\ x[j].first <= x[j].last
    BY <1>1, <2>2 DEF RunsOf
  <2>4. ASSUME NEW j \in 1 .. n PROVE t - r[j].last > GapLimit
    <3>1. n \in 1 .. n /\ t - r[n].last > GapLimit
      BY <1>1, <1>5
    <3>2. CASE j = n
      BY <3>1, <3>2
    <3>3. CASE j # n
      <4>1. r[n].first - r[j].last > GapLimit
        BY <1>1, <3>1, <3>3 DEF RunsOf
      <4> QED BY <1>1, <1>2, <3>1, <4>1
    <3> QED BY <3>2, <3>3
  <2>5. ASSUME NEW j \in 1 .. n + 1, NEW k \in 1 .. n + 1, j < k
        PROVE  x[k].first - x[j].last > GapLimit
    <3>1. j \in 1 .. n /\ x[j] = r[j]
      BY <1>1, <2>2, <2>5
    <3>2. CASE k = n + 1
      BY <2>1, <2>4, <3>1, <3>2
    <3>3. CASE k # n + 1
      <4>1. k \in 1 .. n /\ x[k] = r[k]
        BY <2>2, <3>3
      <4> QED BY <2>5, <3>1, <4>1 DEF RunsOf
    <3> QED BY <3>2, <3>3
  <2>6. ASSUME NEW u \in old PROVE \E j \in 1 .. n + 1 : x[j].first <= u /\ u <= x[j].last
    <3>1. PICK j \in 1 .. n : r[j].first <= u /\ u <= r[j].last
      BY DEF RunsOf
    <3>2. j \in 1 .. n + 1 /\ x[j] = r[j]
      BY <1>1, <2>1
    <3> QED BY <3>1, <3>2
  <2>7. n + 1 \in 1 .. n + 1 /\ x[n + 1].first <= t /\ t <= x[n + 1].last
    BY <1>1, <2>1
  <2>8. \A u \in old \cup {t} : \E j \in 1 .. n + 1 : x[j].first <= u /\ u <= x[j].last
    BY <2>6, <2>7
  <2>9. Len(x) = n + 1
    BY <2>1
  <2>10. RunsOf(x, old \cup {t})
    <3> HIDE DEF one
    <3> QED BY <2>3, <2>5, <2>8, <2>9 DEF RunsOf
  <2> QED BY <2>10 DEF x
<1> QED BY <1>3, <1>4, <1>5 DEF x

\* The samples that are flagged for a topic.
Hits(topic) == {t \in Samples : <<t, topic>> \in flagged}

\* merge_flagged_frames.
LEMMA RunsFacts ==
    ASSUME NEW topic
    PROVE  Runs(topic) \in Seq(RunType) /\ RunsOf(Runs(topic), Hits(topic))
<1> DEFINE hits == Hits(topic)
           order == {p \in hits \X hits : p[1] < p[2]}
           h == InOrder(hits, order)
           Seen(i) == {h[k] : k \in 1 .. i}
           A == Seq(RunType)
           T == {p \in Nat \X A : p[1] \in 0 .. Len(h) => RunsOf(p[2], Seen(p[1]))}
<1>1. hits \in SUBSET Nat /\ hits \in SUBSET Samples /\ IsFiniteSet(hits)
  <2>1. hits \in SUBSET Nat /\ hits \in SUBSET Samples
    BY SampleFacts DEF Hits
  <2>2. \A t \in hits : t <= Duration
    BY <2>1, SampleFacts
  <2>3. Duration \in Nat
    OBVIOUS
  <2> HIDE DEF hits
  <2> QED BY <2>1, <2>2, <2>3, FS_BoundedSetOfNaturals
<1>2. Runs(topic) = Folded(h, <<>>, Extend)
  BY DEF Runs, Hits
<1> HIDE DEF hits
<1>3. HasFirsts(hits, order)
  <2> SUFFICES ASSUME NEW R \in SUBSET hits, R # {} PROVE \E a \in R : Leads(a, R, order)
    BY Zenon DEF HasFirsts
  <2>1. PICK a \in R : \A b \in R : a <= b
    BY <1>1, LeastNatural
  <2>2. \A b \in R : <<b, a>> \notin order
    BY <1>1, <2>1
  <2> HIDE DEF order
  <2> QED BY <2>2 DEF Leads
<1>4. /\ h \in Seq(hits) /\ Range(h) = hits
      /\ \A i, j \in 1 .. Len(h) : i < j => h[i] # h[j] /\ <<h[j], h[i]>> \notin order
  <2> HIDE DEF order
  <2> QED BY <1>1, <1>3, InOrderFacts
<1> HIDE DEF h
<1>5. Len(h) \in Nat /\ \A i \in 1 .. Len(h) : h[i] \in hits
  BY <1>4, LenProperties, ElementOfSeq
<1>6. \A i, j \in 1 .. Len(h) : i < j => h[i] < h[j]
  <2> SUFFICES ASSUME NEW i \in 1 .. Len(h), NEW j \in 1 .. Len(h), i < j PROVE h[i] < h[j]
    OBVIOUS
  <2>1. h[i] \in hits /\ h[j] \in hits /\ h[i] \in Nat /\ h[j] \in Nat
    BY <1>1, <1>5
  <2>2. h[i] # h[j] /\ ~(h[j] < h[i])
    BY <1>4, <2>1
  <2> QED BY <2>1, <2>2
<1>7. <<>> \in A /\ <<0, <<>>>> \in T
  <2>1. <<>> \in A /\ Len(<<>>) = 0
    BY EmptySeq
  <2>2. RunsOf(<<>>, Seen(0))
    BY <2>1 DEF RunsOf
  <2> HIDE DEF Seen, A
  <2> QED BY <2>1, <2>2
<1>8. ASSUME NEW i \in 1 .. Len(h), NEW r \in A, RunsOf(r, Seen(i - 1))
      PROVE  RunsOf(Extend[h[i]][r], Seen(i))
  <2>1. h[i] \in Samples
    BY <1>1, <1>5
  <2>2. \A k \in 1 .. i - 1 : k \in 1 .. Len(h) /\ k < i
    BY <1>5
  <2>3. Seen(i - 1) \in SUBSET Samples /\ \A u \in Seen(i - 1) : u < h[i]
    BY <1>1, <1>5, <1>6, <2>2
  <2>4. Seen(i) = Seen(i - 1) \cup {h[i]}
    <3>1. i \in Nat /\ 1 .. i = (1 .. i - 1) \cup {i}
      OBVIOUS
    <3> QED BY <3>1
  <2> HIDE DEF Seen
  <2> QED BY <1>8, <2>1, <2>3, <2>4, ExtendFacts
<1>9. ASSUME NEW t \in hits, NEW r \in A PROVE Extend[t][r] \in A
  BY <1>1, ExtendCases
<1> HIDE DEF A, Seen
<1>10. FoldKeeps(T, h, A, Extend)
  <2> SUFFICES ASSUME NEW i \in 1 .. Len(h), NEW r \in A, <<i - 1, r>> \in T
               PROVE  <<i, Extend[h[i]][r]>> \in T
    BY DEF FoldKeeps
  <2>1. i - 1 \in 0 .. Len(h) /\ i \in Nat /\ h[i] \in hits
    BY <1>5
  <2>2. RunsOf(r, Seen(i - 1))
    BY <2>1
  <2> QED BY <1>8, <1>9, <2>1, <2>2
<1>11. Folded(h, <<>>, Extend) \in A /\ <<Len(h), Folded(h, <<>>, Extend)>> \in T
  <2>1. StepsIn(Extend, hits, A)
    BY <1>9 DEF StepsIn
  <2> HIDE DEF T
  <2> QED BY <1>4, <1>7, <1>10, <2>1, FoldedInduction
<1>12. Seen(Len(h)) = hits
  BY <1>4, <1>5 DEF Range, Seen
<1>13. RunsOf(Folded(h, <<>>, Extend), Seen(Len(h)))
  BY <1>5, <1>11
<1> QED BY <1>2, <1>11, <1>12, <1>13 DEF A, hits

-----------------------------------------------------------------------------
(* Suggestions. *)

\* Where the padding of a run begins and ends.
Low(t) == Max({0, t - Pad})
High(t) == Min({Duration, t + Pad})

LEMMA BoundFacts ==
    ASSUME NEW t \in Samples
    PROVE  /\ Low(t) = IF t >= Pad THEN t - Pad ELSE 0
           /\ High(t) = IF t + Pad <= Duration THEN t + Pad ELSE Duration
           /\ Low(t) \in Nat /\ High(t) \in Nat /\ High(t) <= Duration
           /\ Low(t) <= t /\ t < High(t)
<1>1. t \in Nat /\ t < Duration /\ Pad \in Nat /\ Duration \in Nat /\ Pad > 0
  BY SampleFacts
<1>2. Low(t) = IF 0 >= t - Pad THEN 0 ELSE t - Pad
  BY <1>1, MaxOfTwo DEF Low
<1>3. High(t) = IF Duration <= t + Pad THEN Duration ELSE t + Pad
  BY <1>1, MinOfTwo DEF High
<1> QED BY <1>1, <1>2, <1>3

LEMMA SuggestedFacts ==
    ASSUME NEW topic \in Topics, NEW run \in RunType, run.first <= run.last
    PROVE  /\ Suggested(topic, run) \in SegmentType /\ Valid(Suggested(topic, run))
           /\ Suggested(topic, run).by = "suggested"
           /\ Suggested(topic, run).do = Untreated
           /\ Suggested(topic, run).topic = topic
           /\ Suggested(topic, run).start = Low(run.first)
           /\ Suggested(topic, run).end = High(run.last)
           /\ Suggested(topic, run) =
                Segment(<<0, Low(run.first), topic>>, Low(run.first), High(run.last), topic,
                        "suggested")
<1> DEFINE first == run.first
           last == run.last
           low == Low(first)
           high == High(last)
           p == Padded(topic, first, last)
<1>1. first \in Samples /\ last \in Samples /\ first \in Nat /\ last \in Nat
  BY SampleFacts DEF RunType
<1>2. low \in Nat /\ high \in Nat /\ high <= Duration /\ low < high
  <2>1. /\ low \in Nat /\ low <= first /\ high \in Nat /\ high <= Duration /\ last < high
    BY <1>1, BoundFacts
  <2> HIDE DEF low, high
  <2> QED BY <1>1, <2>1
<1>3. p.start = low /\ p.end = high
  <2>1. p = [topic |-> topic, start |-> low,
             end |-> IF high <= low THEN Min({low + 1, Duration}) ELSE high]
    BY DEF Padded, Low, High
  <2>2. ~(high <= low)
    <3> HIDE DEF low, high
    <3> QED BY <1>2
  <2> HIDE DEF p, low, high
  <2> QED BY <2>1, <2>2
<1>4. Suggested(topic, run) = Segment(<<0, low, topic>>, low, high, topic, "suggested")
  <2>1. Suggested(topic, run) = Segment(<<0, p.start, topic>>, p.start, p.end, topic, "suggested")
    BY DEF Suggested
  <2> HIDE DEF p, low, high
  <2> QED BY <1>3, <2>1
<1>5. Untreated \in Treatments
  BY DEF Untreated, Treatments
<1> HIDE DEF low, high
<1>6. /\ Segment(<<0, low, topic>>, low, high, topic, "suggested") \in SegmentType
      /\ Valid(Segment(<<0, low, topic>>, low, high, topic, "suggested"))
  BY <1>2, <1>5 DEF Segment, SegmentType, Valid
<1> QED BY <1>4, <1>6 DEF Segment, low, high

LEMMA SuggestionIsRun ==
    ASSUME NEW s \in Suggestions
    PROVE  \E topic \in Topics : \E j \in 1 .. Len(Runs(topic)) :
              /\ Runs(topic)[j] \in RunType /\ Runs(topic)[j].first <= Runs(topic)[j].last
              /\ s = Suggested(topic, Runs(topic)[j])
<1>1. PICK topic \in Topics : \E run \in Range(Runs(topic)) : s = Suggested(topic, run)
  BY DEF Suggestions
<1>2. PICK run \in Range(Runs(topic)) : s = Suggested(topic, run)
  BY <1>1
<1>3. Runs(topic) \in Seq(RunType) /\ RunsOf(Runs(topic), Hits(topic))
  BY RunsFacts
<1>4. PICK j \in 1 .. Len(Runs(topic)) : run = Runs(topic)[j]
  BY <1>3 DEF Range
<1>5. Runs(topic)[j] \in RunType /\ Runs(topic)[j].first <= Runs(topic)[j].last
  BY <1>3, ElementOfSeq DEF RunsOf
<1> QED BY <1>2, <1>4, <1>5

\* There are finitely many and each is a valid segment nobody has treated.
LEMMA SuggestionsAreSound ==
    /\ Suggestions \in SUBSET SegmentType /\ IsFiniteSet(Suggestions)
    /\ \A s \in Suggestions : Valid(s) /\ s.by = "suggested" /\ s.do = Untreated
<1>1. ASSUME NEW s \in Suggestions
      PROVE  /\ s \in SegmentType /\ Valid(s) /\ s.by = "suggested" /\ s.do = Untreated
             /\ s = Segment(<<0, s.start, s.topic>>, s.start, s.end, s.topic, "suggested")
             /\ s.topic \in Topics
  <2>1. PICK topic \in Topics : \E j \in 1 .. Len(Runs(topic)) :
              /\ Runs(topic)[j] \in RunType /\ Runs(topic)[j].first <= Runs(topic)[j].last
              /\ s = Suggested(topic, Runs(topic)[j])
    BY SuggestionIsRun
  <2>2. PICK run \in RunType : run.first <= run.last /\ s = Suggested(topic, run)
    BY <2>1
  <2> DEFINE u == Suggested(topic, run)
  <2>3. /\ u \in SegmentType /\ Valid(u) /\ u.by = "suggested" /\ u.do = Untreated
        /\ u.topic = topic /\ u.start = Low(run.first) /\ u.end = High(run.last)
        /\ u = Segment(<<0, Low(run.first), topic>>, Low(run.first), High(run.last), topic,
                       "suggested")
    BY <2>2, SuggestedFacts
  <2>4. s = u
    BY <2>2
  <2> HIDE DEF u
  <2>5. s.topic = topic /\ s.start = Low(run.first) /\ s.end = High(run.last)
    BY <2>3, <2>4
  <2>6. u = Segment(<<0, s.start, s.topic>>, s.start, s.end, s.topic, "suggested")
    BY <2>3, <2>5
  <2> QED BY <2>3, <2>4, <2>5, <2>6
<1> DEFINE B == 0 .. Duration
           D == (B \X B) \X Topics
           made == [d \in D |-> Segment(<<0, d[1][1], d[2]>>, d[1][1], d[1][2], d[2], "suggested")]
           R == {made[d] : d \in D}
<1>2. IsFiniteSet(D)
  <2>1. IsFiniteSet(B)
    BY FS_Interval
  <2> HIDE DEF B
  <2>2. IsFiniteSet(B \X B)
    BY <2>1, FS_Product
  <2> QED BY <2>2, FS_Product
<1>3. IsFiniteSet(R)
  <2> HIDE DEF D
  <2>1. made \in Surjection(D, R)
    BY DEF Surjection
  <2> HIDE DEF made, R
  <2> QED BY <1>2, <2>1, FS_Surjection
<1>4. Suggestions \subseteq R
  <2> SUFFICES ASSUME NEW s \in Suggestions PROVE s \in R
    OBVIOUS
  <2> DEFINE d == <<<<s.start, s.end>>, s.topic>>
  <2>1. s.start \in B /\ s.end \in B
    <3>1. s.start \in Nat /\ s.end \in Nat /\ s.start < s.end /\ s.end <= Duration
      BY <1>1 DEF SegmentType, Valid
    <3>2. Duration \in Nat
      OBVIOUS
    <3> QED BY <3>1, <3>2
  <2>2. d \in D /\ d[1][1] = s.start /\ d[1][2] = s.end /\ d[2] = s.topic
    BY <1>1, <2>1
  <2> HIDE DEF d, D
  <2>3. made[d] = Segment(<<0, s.start, s.topic>>, s.start, s.end, s.topic, "suggested")
    BY <2>2
  <2>4. made[d] = s
    BY <1>1, <2>3
  <2> HIDE DEF made
  <2> QED BY <2>2, <2>4
<1>5. IsFiniteSet(Suggestions)
  <2> HIDE DEF R
  <2> QED BY <1>3, <1>4, FS_Subset
<1> QED BY <1>1, <1>5

LEMMA BoundsGrow ==
    ASSUME NEW t \in Samples, NEW u \in Samples, t <= u
    PROVE  Low(t) <= Low(u) /\ High(t) <= High(u)
<1> DEFINE lt == Low(t)
           lu == Low(u)
           ht == High(t)
           hu == High(u)
<1>1. t \in Nat /\ u \in Nat /\ Pad \in Nat /\ Duration \in Nat
  BY SampleFacts
<1>2. /\ lt = IF t >= Pad THEN t - Pad ELSE 0
      /\ lu = IF u >= Pad THEN u - Pad ELSE 0
      /\ ht = IF t + Pad <= Duration THEN t + Pad ELSE Duration
      /\ hu = IF u + Pad <= Duration THEN u + Pad ELSE Duration
  BY BoundFacts
<1> HIDE DEF lt, lu, ht, hu
<1>3. lt <= lu /\ ht <= hu
  BY <1>1, <1>2
<1> QED BY <1>3 DEF lt, lu, ht, hu

\* Each flagged sample is in a suggestion with its padding.
LEMMA SuggestionsCover ==
    ASSUME flagged \in Flags, NEW f \in flagged
    PROVE  \E s \in Suggestions : s.topic = f[2] /\ s.start <= Low(f[1]) /\ s.end >= High(f[1])
<1> DEFINE topic == f[2]
           t == f[1]
           r == Runs(topic)
<1>1. topic \in Topics /\ t \in Samples /\ t \in Hits(topic)
  BY DEF Hits
<1>2. r \in Seq(RunType) /\ RunsOf(r, Hits(topic))
  BY RunsFacts
<1> HIDE DEF topic, t, r
<1>3. PICK j \in 1 .. Len(r) : r[j].first <= t /\ t <= r[j].last
  BY <1>1, <1>2 DEF RunsOf
<1>4. r[j] \in RunType /\ r[j].first <= r[j].last /\ r[j] \in Range(r)
  BY <1>2, ElementOfSeq DEF RunsOf, Range
<1>5. r[j].first \in Samples /\ r[j].last \in Samples
  BY <1>4 DEF RunType
<1> DEFINE s == Suggested(topic, r[j])
<1>6. s.topic = topic /\ s.start = Low(r[j].first) /\ s.end = High(r[j].last)
  BY <1>1, <1>4, SuggestedFacts
<1>7. s \in Suggestions
  BY <1>1, <1>4 DEF Suggestions, r
<1> HIDE DEF s
<1>8. s.start <= Low(t)
  BY <1>1, <1>3, <1>5, <1>6, BoundsGrow
<1>9. High(t) <= s.end
  BY <1>1, <1>3, <1>5, <1>6, BoundsGrow
<1>10. High(t) \in Nat /\ s.end \in Nat
  BY <1>1, <1>5, <1>6, BoundFacts
<1>11. s.end >= High(t)
  BY <1>9, <1>10
<1> QED BY <1>6, <1>7, <1>8, <1>11 DEF topic, t

\* Each suggestion begins and ends at a flagged sample and its padding.
LEMMA SuggestionsEnd ==
    ASSUME flagged \in Flags, NEW s \in Suggestions
    PROVE  \E f, g \in flagged : /\ f[2] = s.topic /\ s.start = Low(f[1])
                                 /\ g[2] = s.topic /\ s.end = High(g[1])
<1>1. PICK topic \in Topics : \E j \in 1 .. Len(Runs(topic)) :
              /\ Runs(topic)[j] \in RunType /\ Runs(topic)[j].first <= Runs(topic)[j].last
              /\ s = Suggested(topic, Runs(topic)[j])
  BY SuggestionIsRun
<1> DEFINE r == Runs(topic)
<1>2. PICK j \in 1 .. Len(r) : /\ r[j] \in RunType /\ r[j].first <= r[j].last
                               /\ s = Suggested(topic, r[j])
  BY <1>1
<1>3. RunsOf(r, Hits(topic))
  BY RunsFacts
<1> HIDE DEF r
<1>4. <<r[j].first, topic>> \in flagged /\ <<r[j].last, topic>> \in flagged
  BY <1>3 DEF RunsOf, Hits
<1>5. s.topic = topic /\ s.start = Low(r[j].first) /\ s.end = High(r[j].last)
  BY <1>2, SuggestedFacts
<1> DEFINE f == <<r[j].first, topic>>
           g == <<r[j].last, topic>>
<1>6. f[1] = r[j].first /\ f[2] = topic /\ g[1] = r[j].last /\ g[2] = topic
  OBVIOUS
<1> HIDE DEF f, g
<1>7. f \in flagged /\ g \in flagged
  BY <1>4 DEF f, g
<1> QED BY <1>5, <1>6, <1>7

\* Samples that are too far apart for one run leave room for the padding of
\* two.
PaddingFits == \A t, u \in Samples : u - t > GapLimit => u - t >= 2 * Pad

\* Two runs of a topic are so far apart that their padding does not meet.
LEMMA SuggestionsApart ==
    ASSUME PaddingFits,
           NEW s \in Suggestions, NEW u \in Suggestions, s.topic = u.topic, s # u
    PROVE  s.end <= u.start \/ u.end <= s.start
<1>1. PICK topic \in Topics : \E j \in 1 .. Len(Runs(topic)) :
              /\ Runs(topic)[j] \in RunType /\ Runs(topic)[j].first <= Runs(topic)[j].last
              /\ s = Suggested(topic, Runs(topic)[j])
  BY SuggestionIsRun
<1>2. PICK other \in Topics : \E k \in 1 .. Len(Runs(other)) :
              /\ Runs(other)[k] \in RunType /\ Runs(other)[k].first <= Runs(other)[k].last
              /\ u = Suggested(other, Runs(other)[k])
  BY SuggestionIsRun
<1>3. s.topic = topic
  <2>1. PICK run \in RunType : run.first <= run.last /\ s = Suggested(topic, run)
    BY <1>1
  <2> QED BY <2>1, SuggestedFacts
<1>4. topic = other
  <2>1. PICK run \in RunType : run.first <= run.last /\ u = Suggested(other, run)
    BY <1>2
  <2>2. u.topic = other
    BY <2>1, SuggestedFacts
  <2> QED BY <1>3, <2>2
<1> DEFINE r == Runs(topic)
<1>5. PICK j \in 1 .. Len(r) : /\ r[j] \in RunType /\ r[j].first <= r[j].last
                               /\ s = Suggested(topic, r[j])
  BY <1>1
<1>6. PICK k \in 1 .. Len(r) : /\ r[k] \in RunType /\ r[k].first <= r[k].last
                               /\ u = Suggested(topic, r[k])
  BY <1>2, <1>4
<1>7. r \in Seq(RunType) /\ RunsOf(r, Hits(topic))
  BY RunsFacts
<1> HIDE DEF r
<1>8. \A l, m \in 1 .. Len(r) : l < m => r[m].first - r[l].last > GapLimit
  BY <1>7 DEF RunsOf
<1>9. ASSUME NEW x \in Samples, NEW y \in Samples, y - x > GapLimit
      PROVE  High(x) <= Low(y)
  <2> DEFINE h == High(x)
             l == Low(y)
  <2>1. x \in Nat /\ y \in Nat /\ Pad \in Nat /\ Duration \in Nat /\ GapLimit \in Nat
    BY SampleFacts
  <2>2. /\ h = IF x + Pad <= Duration THEN x + Pad ELSE Duration
        /\ l = IF y >= Pad THEN y - Pad ELSE 0
    BY BoundFacts
  <2> HIDE DEF h, l
  <2>3. h <= l
    <3>1. y - x >= 2 * Pad
      BY <1>9 DEF PaddingFits
    <3> QED BY <2>1, <2>2, <3>1
  <2> QED BY <2>3 DEF h, l
<1>10. /\ r[j].first \in Samples /\ r[j].last \in Samples
       /\ r[k].first \in Samples /\ r[k].last \in Samples
  BY <1>5, <1>6 DEF RunType
<1>11. /\ s.start = Low(r[j].first) /\ s.end = High(r[j].last)
       /\ u.start = Low(r[k].first) /\ u.end = High(r[k].last)
  BY <1>5, <1>6, SuggestedFacts
<1>12. j # k
  BY <1>5, <1>6
<1>13. CASE j < k
  BY <1>8, <1>9, <1>10, <1>11, <1>13
<1>14. CASE k < j
  BY <1>8, <1>9, <1>10, <1>11, <1>14
<1> QED BY <1>7, <1>12, <1>13, <1>14, LenProperties

-----------------------------------------------------------------------------
(* The invariant. *)

\* A segment before anybody chose what to do with it.
Plain(s) == [s EXCEPT !.do = Untreated]

Found == {s \in segments : s.by = "suggested"}

\* While the user edits, the suggestions are there, once each.
SuggestionsKept ==
    step = "review" =>
        /\ \A s \in Found : Plain(s) \in Suggestions
        /\ \A v \in Suggestions : \E s \in Found : Plain(s) = v
        /\ \A s, u \in Found : Plain(s) = Plain(u) => s = u

ExportInv ==
    /\ step \in {"detect", "review", "exported", "failed"}
    /\ flagged \in Flags
    /\ edits \in Nat
    /\ SegmentsAreSound
    /\ SuggestionsKept
    /\ ExportKeepsWhatIsNotCut
    /\ TreatedContentIsGone

LEMMA PlainFacts ==
    ASSUME NEW s \in SegmentType
    PROVE  /\ Plain(s).start = s.start /\ Plain(s).end = s.end /\ Plain(s).topic = s.topic
           /\ Plain(s).by = s.by
           /\ s.do = Untreated => Plain(s) = s
BY DEF Plain, SegmentType

LEMMA TreatFacts ==
    ASSUME NEW s \in SegmentType, NEW treatment \in Treatments
    PROVE  /\ [s EXCEPT !.do = treatment] \in SegmentType
           /\ [s EXCEPT !.do = treatment].by = s.by
           /\ Plain([s EXCEPT !.do = treatment]) = Plain(s)
           /\ Valid(s) => Valid([s EXCEPT !.do = treatment])
BY DEF Plain, SegmentType, Valid

\* What is suggested stays the same as long as the flags do.
LEMMA SuggestionsStay ==
    ASSUME UNCHANGED flagged PROVE Suggestions' = Suggestions
BY DEF Suggestions, Runs

\* The properties of an export, of the one that is made of the segments.
LEMMA ExportIsRest ==
    ASSUME SegmentsAreSound
    PROVE  /\ {ExportedFrames[i].at : i \in DOMAIN ExportedFrames} =
                {t \in Frames : ~\E c \in Cuts : c[1] <= t /\ t < c[2]}
           /\ \A i, j \in DOMAIN ExportedFrames :
                 i < j => ExportedFrames[i].at < ExportedFrames[j].at
           /\ \A i \in DOMAIN ExportedFrames : \A s \in Applied :
                 s.start <= ExportedFrames[i].at /\ ExportedFrames[i].at < s.end
                    => Gone(ExportedFrames[i], s)
<1> DEFINE out == ExportedFrames
<1>1. out \in Seq(Frame) /\ Joined(out, Len(Keep))
  BY ExportedFacts
<1>2. \A t \in Frames : Covers(Keep, t) <=> ~\E c \in Cuts : Inside(t, c)
  BY KeepFacts
<1> HIDE DEF out
<1>3. DOMAIN out = 1 .. Len(out)
  BY <1>1
<1>4. \A i \in DOMAIN out : out[i].at \in Frames /\ out[i] = Rendered(out[i].at)
  BY <1>1, <1>3 DEF Joined
<1>5. \A i, j \in DOMAIN out : i < j => out[i].at < out[j].at
  BY <1>1, <1>3 DEF Joined
<1>6. ASSUME NEW t \in Frames
      PROVE  (\E i \in DOMAIN out : out[i].at = t) <=> Covers(Keep, t)
  BY <1>1, <1>3 DEF Joined, Covers
<1>7. ASSUME NEW t \in Frames
      PROVE  (\E i \in DOMAIN out : out[i].at = t) <=> ~\E c \in Cuts : c[1] <= t /\ t < c[2]
  BY <1>2, <1>6 DEF Inside
<1>8. {out[i].at : i \in DOMAIN out} = {t \in Frames : ~\E c \in Cuts : c[1] <= t /\ t < c[2]}
  BY <1>4, <1>7
<1>9. ASSUME NEW i \in DOMAIN out, NEW s \in Applied, s.start <= out[i].at, out[i].at < s.end
      PROVE  Gone(out[i], s)
  <2>1. out[i].at \in Frames /\ out[i] = Rendered(out[i].at)
    BY <1>4
  <2>2. Gone(Rendered(out[i].at), s)
    BY <1>9, <2>1, RenderedFacts
  <2> QED BY <2>1, <2>2
<1> QED BY <1>5, <1>8, <1>9 DEF out

\* Nothing is kept only when each frame is cut.
LEMMA NothingKept ==
    ASSUME SegmentsAreSound, Keep = <<>>
    PROVE  {t \in Frames : ~\E c \in Cuts : c[1] <= t /\ t < c[2]} = {}
<1>1. Len(Keep) = 0
  BY EmptySeq
<1>2. \A t \in Frames : ~Covers(Keep, t)
  BY <1>1 DEF Covers
<1>3. \A t \in Frames : \E c \in Cuts : Inside(t, c)
  BY <1>2, KeepFacts
<1> QED BY <1>3 DEF Inside

LEMMA InvInit == Init => ExportInv
<1> SUFFICES ASSUME Init PROVE ExportInv
  OBVIOUS
<1>1. SegmentsAreSound
  BY FS_EmptySet DEF Init, SegmentsAreSound
<1>2. SuggestionsKept /\ ExportKeepsWhatIsNotCut /\ TreatedContentIsGone
  BY DEF Init, SuggestionsKept, ExportKeepsWhatIsNotCut, TreatedContentIsGone
<1> QED BY <1>1, <1>2 DEF Init, ExportInv

LEMMA DetectKeepsInv == ASSUME ExportInv, Detect PROVE ExportInv'
<1> USE DEF Detect
<1>1. Suggestions' = Suggestions /\ segments' = Suggestions
  BY SuggestionsStay
<1>2. \A s \in Suggestions : s \in SegmentType /\ Valid(s) /\ s.by = "suggested" /\ Plain(s) = s
  BY SuggestionsAreSound, PlainFacts
<1>3. SegmentsAreSound'
  BY <1>1, SuggestionsAreSound DEF SegmentsAreSound
<1>4. Found' = Suggestions
  BY <1>1, <1>2 DEF Found
<1>5. SuggestionsKept'
  BY <1>1, <1>2, <1>4 DEF SuggestionsKept
<1>6. (ExportKeepsWhatIsNotCut /\ TreatedContentIsGone)'
  BY DEF ExportKeepsWhatIsNotCut, TreatedContentIsGone
<1> QED BY <1>3, <1>5, <1>6 DEF ExportInv

LEMMA EditKeepsInv == ASSUME ExportInv, Edit PROVE ExportInv'
<1>1. /\ step = "review" /\ step' = "review" /\ edits' = edits + 1 /\ flagged' = flagged
      /\ edits \in Nat /\ flagged \in Flags /\ SegmentsAreSound /\ SuggestionsKept
  BY DEF Edit, ExportInv
<1>2. PICK treatment \in Treatments :
         \/ \E start, end \in 0 .. Duration : AddSegment(start, end, treatment)
         \/ \E seg \in segments : ChooseAction(seg, treatment)
  BY DEF Edit
<1>3. Suggestions' = Suggestions
  BY <1>1, SuggestionsStay
<1>4. segments \in SUBSET SegmentType /\ IsFiniteSet(segments) /\ \A s \in segments : Valid(s)
  BY <1>1 DEF SegmentsAreSound
<1>5. /\ \A s \in Found : Plain(s) \in Suggestions
      /\ \A v \in Suggestions : \E s \in Found : Plain(s) = v
      /\ \A s, u \in Found : Plain(s) = Plain(u) => s = u
  BY <1>1 DEF SuggestionsKept
<1>6. ASSUME NEW start \in 0 .. Duration, NEW end \in 0 .. Duration,
             AddSegment(start, end, treatment)
      PROVE  SegmentsAreSound' /\ SuggestionsKept'
  <2> DEFINE blank == Segment(<<edits + 1, 0, None>>, start, end, None, "manual")
             seg == [blank EXCEPT !.do = treatment]
  <2>1. blank \in SegmentType /\ blank.by = "manual"
    <3>1. Untreated \in Treatments
      BY DEF Untreated, Treatments
    <3>2. <<edits + 1, 0, None>> \in Nat \X Nat \X (Topics \cup {None})
      BY <1>1
    <3> QED BY <3>1, <3>2 DEF Segment, SegmentType
  <2>2. Valid(seg) /\ segments' = segments \cup {seg}
    BY <1>6 DEF AddSegment
  <2> HIDE DEF blank
  <2>3. seg \in SegmentType /\ seg.by = "manual"
    BY <2>1, TreatFacts
  <2> HIDE DEF seg
  <2>4. IsFiniteSet(segments')
    BY <1>4, <2>2, FS_AddElement
  <2>5. SegmentsAreSound'
    BY <1>4, <2>2, <2>3, <2>4 DEF SegmentsAreSound
  <2>6. Found' = Found
    BY <2>2, <2>3 DEF Found
  <2>7. SuggestionsKept'
    BY <1>3, <1>5, <2>6 DEF SuggestionsKept
  <2> QED BY <2>5, <2>7
<1>7. ASSUME NEW seg \in segments, ChooseAction(seg, treatment)
      PROVE  SegmentsAreSound' /\ SuggestionsKept'
  <2> DEFINE new == [seg EXCEPT !.do = treatment]
  <2>1. segments' = (segments \ {seg}) \cup {new}
    BY <1>7 DEF ChooseAction
  <2>2. new \in SegmentType /\ new.by = seg.by /\ Plain(new) = Plain(seg) /\ Valid(new)
    BY <1>4, TreatFacts
  <2> HIDE DEF new
  <2>3. IsFiniteSet(segments')
    <3>1. IsFiniteSet(segments \ {seg})
      BY <1>4, FS_Subset
    <3> QED BY <2>1, <3>1, FS_AddElement
  <2>4. SegmentsAreSound'
    BY <1>4, <2>1, <2>2, <2>3 DEF SegmentsAreSound
  <2>5. CASE seg.by = "suggested"
    <3>1. Found' = (Found \ {seg}) \cup {new} /\ seg \in Found
      BY <2>1, <2>2, <2>5 DEF Found
    <3>2. \A s \in Found' : Plain(s) \in Suggestions
      BY <1>5, <2>2, <3>1
    <3>3. \A v \in Suggestions : \E s \in Found' : Plain(s) = v
      BY <1>5, <2>2, <3>1
    <3>4. \A s, u \in Found' : Plain(s) = Plain(u) => s = u
      BY <1>5, <2>2, <3>1
    <3> QED BY <1>3, <2>4, <3>2, <3>3, <3>4 DEF SuggestionsKept
  <2>6. CASE seg.by # "suggested"
    <3>1. Found' = Found
      BY <2>1, <2>2, <2>6 DEF Found
    <3>2. SuggestionsKept'
      BY <1>3, <1>5, <3>1 DEF SuggestionsKept
    <3> QED BY <2>4, <3>2
  <2> QED BY <2>5, <2>6
<1>8. SegmentsAreSound' /\ SuggestionsKept'
  BY <1>2, <1>6, <1>7
<1>9. (ExportKeepsWhatIsNotCut /\ TreatedContentIsGone)'
  BY <1>1 DEF ExportKeepsWhatIsNotCut, TreatedContentIsGone
<1>10. (step \in {"detect", "review", "exported", "failed"} /\ flagged \in Flags /\ edits \in Nat)'
  BY <1>1
<1> QED BY <1>8, <1>9, <1>10 DEF ExportInv

LEMMA ExportKeepsInv == ASSUME ExportInv, Export PROVE ExportInv'
<1>1. /\ step' = "exported" /\ output' = ExportedFrames
      /\ flagged' = flagged /\ segments' = segments /\ edits' = edits
  BY DEF Export
<1>2. flagged \in Flags /\ edits \in Nat /\ SegmentsAreSound
  BY DEF ExportInv
<1>3. Applied' = Applied /\ Cuts' = Cuts
  BY <1>1 DEF Applied, Cuts
<1>4. SegmentsAreSound' /\ SuggestionsKept'
  BY <1>1, <1>2 DEF SegmentsAreSound, SuggestionsKept
<1> DEFINE out == ExportedFrames
<1>5. /\ {out[i].at : i \in DOMAIN out} = {t \in Frames : ~\E c \in Cuts : c[1] <= t /\ t < c[2]}
      /\ \A i, j \in DOMAIN out : i < j => out[i].at < out[j].at
      /\ \A i \in DOMAIN out : \A s \in Applied :
            s.start <= out[i].at /\ out[i].at < s.end => Gone(out[i], s)
  BY <1>2, ExportIsRest
<1>6. output' = out
  BY <1>1
<1> HIDE DEF out
<1>7. ExportKeepsWhatIsNotCut'
  BY <1>1, <1>3, <1>5, <1>6 DEF ExportKeepsWhatIsNotCut
<1>8. TreatedContentIsGone'
  BY <1>3, <1>5, <1>6 DEF TreatedContentIsGone, Gone
<1> QED BY <1>1, <1>2, <1>4, <1>7, <1>8 DEF ExportInv

LEMMA FailKeepsInv == ASSUME ExportInv, ExportFails PROVE ExportInv'
<1>1. /\ Keep = <<>> /\ step' = "failed"
      /\ flagged' = flagged /\ segments' = segments /\ edits' = edits
  BY DEF ExportFails
<1>2. flagged \in Flags /\ edits \in Nat /\ SegmentsAreSound
  BY DEF ExportInv
<1>3. Cuts' = Cuts
  BY <1>1 DEF Applied, Cuts
<1>4. SegmentsAreSound' /\ SuggestionsKept'
  BY <1>1, <1>2 DEF SegmentsAreSound, SuggestionsKept
<1>5. {t \in Frames : ~\E c \in Cuts : c[1] <= t /\ t < c[2]} = {}
  BY <1>1, <1>2, NothingKept
<1>6. ExportKeepsWhatIsNotCut'
  BY <1>1, <1>3, <1>5 DEF ExportKeepsWhatIsNotCut
<1>7. TreatedContentIsGone'
  BY <1>1 DEF TreatedContentIsGone
<1> QED BY <1>1, <1>2, <1>4, <1>6, <1>7 DEF ExportInv

LEMMA StutterKeepsInv == ASSUME ExportInv, UNCHANGED vars PROVE ExportInv'
<1>1. /\ step' = step /\ flagged' = flagged /\ segments' = segments /\ edits' = edits
      /\ output' = output
  BY DEF vars
<1>2. Applied' = Applied /\ Cuts' = Cuts /\ Suggestions' = Suggestions /\ Found' = Found
  BY <1>1, SuggestionsStay DEF Applied, Cuts, Found
<1>3. SegmentsAreSound' /\ SuggestionsKept'
  BY <1>1, <1>2 DEF ExportInv, SegmentsAreSound, SuggestionsKept
<1>4. ExportKeepsWhatIsNotCut'
  BY <1>1, <1>2 DEF ExportInv, ExportKeepsWhatIsNotCut
<1>5. TreatedContentIsGone'
  BY <1>1, <1>2 DEF ExportInv, TreatedContentIsGone
<1> QED BY <1>1, <1>3, <1>4, <1>5 DEF ExportInv

\* The stored segments stay valid, the suggestions stay while they are
\* reviewed, and an export is right when it is made.
THEOREM InvHolds == Spec => []ExportInv
<1>1. ASSUME ExportInv, [Next]_vars PROVE ExportInv'
  BY <1>1, DetectKeepsInv, EditKeepsInv, ExportKeepsInv, FailKeepsInv, StutterKeepsInv DEF Next
<1> QED BY <1>1, InvInit, PTL DEF Spec

\* However the segments touch, overlap or contain each other, the export has
\* exactly the frames that no cut covers, once each and in their order; it
\* fails only when the cuts leave none (export.py).
THEOREM ExportHolds == Spec => []ExportKeepsWhatIsNotCut
<1>1. ExportInv => ExportKeepsWhatIsNotCut
  BY DEF ExportInv
<1> QED BY <1>1, InvHolds, PTL

\* No effect undoes another one, whatever overlaps it and however short the
\* clips are (build_filter_graph).
THEOREM TreatedHolds == Spec => []TreatedContentIsGone
<1>1. ExportInv => TreatedContentIsGone
  BY DEF ExportInv
<1> QED BY <1>1, InvHolds, PTL

\* The suggestions that are reviewed are those of the flags: none of them is
\* missed, none is made up, and those of one topic do not overlap.
LEMMA InvSuggestions ==
    ASSUME PaddingFits, ExportInv PROVE SuggestionsMatchFlags
<1> SUFFICES ASSUME step = "review" PROVE SuggestionsMatchFlags
  BY DEF SuggestionsMatchFlags
<1>1. flagged \in Flags /\ \A s \in Found : s \in SegmentType /\ Valid(s)
  BY DEF ExportInv, SegmentsAreSound, Found
<1>2. /\ \A s \in Found : Plain(s) \in Suggestions
      /\ \A v \in Suggestions : \E s \in Found : Plain(s) = v
      /\ \A s, u \in Found : Plain(s) = Plain(u) => s = u
  BY DEF ExportInv, SuggestionsKept
<1>3. \A s \in Found : /\ Plain(s).start = s.start /\ Plain(s).end = s.end
                       /\ Plain(s).topic = s.topic
  BY <1>1, PlainFacts
<1>4. ASSUME NEW f \in flagged
      PROVE  \E s \in Found : s.topic = f[2] /\ s.start <= Low(f[1]) /\ s.end >= High(f[1])
  <2>1. PICK v \in Suggestions : v.topic = f[2] /\ v.start <= Low(f[1]) /\ v.end >= High(f[1])
    BY <1>1, SuggestionsCover
  <2>2. PICK s \in Found : Plain(s) = v
    BY <1>2
  <2> QED BY <1>3, <2>1, <2>2
<1>5. ASSUME NEW s \in Found
      PROVE  /\ Valid(s)
             /\ \E f, g \in flagged : /\ f[2] = s.topic /\ s.start = Low(f[1])
                                      /\ g[2] = s.topic /\ s.end = High(g[1])
  <2>1. \E f, g \in flagged : /\ f[2] = Plain(s).topic /\ Plain(s).start = Low(f[1])
                              /\ g[2] = Plain(s).topic /\ Plain(s).end = High(g[1])
    BY <1>1, <1>2, SuggestionsEnd
  <2> QED BY <1>1, <1>3, <2>1
<1>6. ASSUME NEW s \in Found, NEW u \in Found, s.topic = u.topic, s # u
      PROVE  s.end <= u.start \/ u.end <= s.start
  <2>1. Plain(s) \in Suggestions /\ Plain(u) \in Suggestions /\ Plain(s) # Plain(u)
    BY <1>2, <1>6
  <2>2. Plain(s).topic = Plain(u).topic
    BY <1>3, <1>6
  <2>3. Plain(s).end <= Plain(u).start \/ Plain(u).end <= Plain(s).start
    BY <2>1, <2>2, SuggestionsApart
  <2> QED BY <1>3, <2>3
<1> QED BY <1>4, <1>5, <1>6 DEF SuggestionsMatchFlags, Found, Low, High

\* Detection suggests what it flagged and nothing else.  Runs are two
\* intervals or more apart, and the padding is half of an interval but no less
\* than half a second: it fits from an interval of half a second on (detect.py).
THEOREM SuggestionsHold ==
    ASSUME PaddingFits
    PROVE  Spec => []SuggestionsMatchFlags
<1>1. ExportInv => SuggestionsMatchFlags
  BY InvSuggestions
<1> QED BY <1>1, InvHolds, PTL

=============================================================================
