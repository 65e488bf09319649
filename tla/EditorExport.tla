---------------------------- MODULE EditorExport ----------------------------
(* From flagged frames to the exported film: extract_frames and            *)
(* merge_flagged_frames (editor/detect.py, editor/segments.py) make        *)
(* suggestions, the user adds segments and chooses actions, and the export *)
(* job (editor/export.py) builds an ffmpeg filter graph from them: effects *)
(* on the timeline of the source first, then the cuts.                     *)
(*                                                                         *)
(* Time is counted in frames of the source, half of a detection interval   *)
(* or less.  What the filters do is external; they are modelled as the     *)
(* options in the graph say: between(t,s,e) includes both ends, trim       *)
(* excludes its end, and an overlay that has ended lets the picture below  *)
(* through.                                                                *)
EXTENDS SeqWalks, FiniteSetsExt

CONSTANTS
    None,
    Duration,     \* length of the source, in frames
    Topics,
    Flags,        \* what the scanner may score above the threshold: sets of
                  \* <<time, topic>>
    Interval,     \* between two sampled frames
    Pad,          \* merge_pad
    GapLimit,     \* max_gap, 1.5 intervals
    Clips,        \* name -> [duration, audio]
    MaxEdits      \* bound: edits the user makes

Frames == 0 .. Duration - 1
Samples == {t \in Frames : t % Interval = 0}

ASSUME LengthAssumption == Duration \in Nat \ {0} /\ Interval \in Nat \ {0} /\ Pad \in Nat \ {0}
ASSUME LimitAssumption == GapLimit \in Nat /\ MaxEdits \in Nat
ASSUME FlagsAssumption == IsFiniteSet(Topics) /\ Flags \subseteq SUBSET (Samples \X Topics)
ASSUME ClipsAssumption ==
    /\ "source" \notin DOMAIN Clips
    /\ \A c \in DOMAIN Clips : Clips[c].duration \in Nat /\ Clips[c].audio \in BOOLEAN

VARIABLES
    step,       \* detect, review, exported or failed
    flagged,    \* the samples above the threshold
    segments,   \* the segments of the stored project
    edits,      \* how many edits the user has made
    output      \* the exported frames, in order, or None

vars == <<step, flagged, segments, edits, output>>

\* What an action needs: a clip and a mode when it is replace.
Treatments ==
    {[action |-> a, clip |-> None, mode |-> "trim"] : a \in {"none", "cut", "blur", "black", "mute"}}
    \cup [action : {"replace"}, clip : DOMAIN Clips, mode : {"trim", "loop"}]

Untreated == [action |-> "none", clip |-> None, mode |-> "trim"]

Segment(id, start, end, topic, by) ==
    [id |-> id, start |-> start, end |-> end, topic |-> topic, by |-> by, do |-> Untreated]

\* validate_segment, as far as the editor's requests can differ in it.
Valid(seg) == 0 <= seg.start /\ seg.start < seg.end /\ seg.end <= Duration

-----------------------------------------------------------------------------
(* Suggestions. *)

\* Bug variant of Padded: the padding may go past the end.
PaddedPastEnd(topic, first, last) ==
    [topic |-> topic, start |-> Max({0, first - Pad}), end |-> last + Pad]

\* _padded.
Padded(topic, first, last) ==
    LET start == Max({0, first - Pad})
        end == Min({Duration, last + Pad})
    IN  [topic |-> topic, start |-> start,
         end |-> IF end <= start THEN Min({start + 1, Duration}) ELSE end]

\* A hit goes on with the last run if the gap allows.
Extend ==
    [t \in Samples |-> [runs \in Seq([first : Samples, last : Samples]) |->
        IF runs # <<>> /\ t - runs[Len(runs)].last <= GapLimit
        THEN [runs EXCEPT ![Len(runs)].last = t]
        ELSE Append(runs, [first |-> t, last |-> t])]]

\* merge_flagged_frames: the runs of one topic, by the gaps between hits.
Runs(topic) ==
    LET hits == {t \in Samples : <<t, topic>> \in flagged}
    IN  Folded(InOrder(hits, {p \in hits \X hits : p[1] < p[2]}), <<>>, Extend)

\* merged_to_segments.  Ids are random; here they are in the order of the
\* edits, and a user can draw two segments in either order.
Suggested(topic, run) ==
    LET p == Padded(topic, run.first, run.last)
    IN  Segment(<<0, p.start, topic>>, p.start, p.end, topic, "suggested")

Suggestions ==
    UNION {{Suggested(topic, run) : run \in Range(Runs(topic))} : topic \in Topics}

-----------------------------------------------------------------------------
(* The filter graph. *)

Applied == {s \in segments : s.do.action # "none"}

Spans == Nat \X Nat

\* Bug variant of Merge: the end of an interval that is inside the one before
\* it replaces that one's end.
MergeLastEnd ==
    [iv \in Spans |-> [merged \in Seq(Spans) |->
        LET last == merged[Len(merged)]
        IN  IF merged # <<>> /\ iv[1] <= last[2]
            THEN [merged EXCEPT ![Len(merged)] = <<last[1], iv[2]>>]
            ELSE Append(merged, iv)]]

\* An interval that begins in the last one, or at its end, is joined to it.
Merge ==
    [iv \in Spans |-> [merged \in Seq(Spans) |->
        LET last == merged[Len(merged)]
        IN  IF merged # <<>> /\ iv[1] <= last[2]
            THEN [merged EXCEPT ![Len(merged)] = <<last[1], Max({last[2], iv[2]})>>]
            ELSE Append(merged, iv)]]

\* merge_intervals.
MergeIntervals(intervals) ==
    Folded(InOrder(intervals, {p \in intervals \X intervals : p[1][1] < p[2][1]}),
           <<>>, Merge)

\* What is kept and how far, after one more cut.
Pass ==
    [iv \in Spans |-> [done \in [keep : Seq(Spans), pos : Nat] |->
        [keep |-> IF iv[1] > done.pos THEN Append(done.keep, <<done.pos, iv[1]>>)
                  ELSE done.keep,
         pos |-> Max({done.pos, iv[2]})]]]

\* complement_intervals: what is left of the source between the cuts.
ComplementIntervals(cuts) ==
    LET end == Folded(MergeIntervals(cuts), [keep |-> <<>>, pos |-> 0], Pass)
    IN  IF end.pos < Duration THEN Append(end.keep, <<end.pos, Duration>>) ELSE end.keep

Cuts == {<<s.start, s.end>> : s \in {u \in Applied : u.do.action = "cut"}}

Keep == ComplementIntervals(Cuts)

\* Effects in the order of their start, end and id.
Before(s, u) ==
    \/ s.start < u.start
    \/ s.start = u.start /\ s.end < u.end
    \/ s.start = u.start /\ s.end = u.end /\ s.id[1] < u.id[1]

Effects ==
    LET chosen == {s \in Applied : s.do.action # "cut"}
    IN  InOrder(chosen, {p \in chosen \X chosen : Before(p[1], p[2])})

\* The frames for which an effect is enabled.
Enabled(s, t) == s.start <= t /\ t <= s.end

\* Bug variant of ClipShown: a clip that is too short is not padded.
ClipShownUnpadded(s, t) ==
    LET length == IF s.do.mode = "loop" THEN s.end - s.start
                  ELSE Min({s.end - s.start, Clips[s.do.clip].duration})
    IN  s.start <= t /\ t < s.start + length

\* The frames a clip has once it was looped, or padded and trimmed.
ClipShown(s, t) ==
    LET wanted == s.end - s.start
        own == Clips[s.do.clip].duration
        padding == Max({0, wanted - own})
        length == IF s.do.mode = "loop" THEN wanted ELSE Min({wanted, own + padding})
    IN  s.start <= t /\ t < s.start + length

\* What one effect makes of a frame: the picture that is seen, whether it is
\* blurred, and what is heard.
Effect(frame, s, t) ==
    IF ~Enabled(s, t) THEN frame
    ELSE CASE s.do.action = "blur" -> [frame EXCEPT !.blurred = TRUE]
           [] s.do.action = "black" -> [frame EXCEPT !.seen = "black", !.blurred = FALSE]
           [] s.do.action = "mute" -> [frame EXCEPT !.heard = {}]
           [] s.do.action = "replace" ->
                IF ClipShown(s, t)
                THEN [frame EXCEPT !.seen = s.do.clip, !.blurred = FALSE,
                                   !.heard = IF Clips[s.do.clip].audio THEN {s.do.clip} ELSE {}]
                ELSE [frame EXCEPT !.heard = {}]

Frame ==
    [at : Frames, seen : {"source", "black"} \cup DOMAIN Clips, blurred : BOOLEAN,
     heard : SUBSET ({"source"} \cup DOMAIN Clips)]

\* Frame t of the source after all effects.
Rendered(t) ==
    Folded(Effects,
           [at |-> t, seen |-> "source", blurred |-> FALSE, heard |-> {"source"}],
           [s \in Applied |-> [frame \in Frame |-> Effect(frame, s, t)]])

\* trim and concat.
ExportedFrames ==
    LET rendered == [t \in Frames |-> Rendered(t)]
        Part(iv) == [i \in 1 .. iv[2] - iv[1] |-> rendered[iv[1] + i - 1]]
    IN  Folded(Keep, <<>>, [iv \in Spans |-> [out \in Seq(Frame) |-> out \o Part(iv)]])

-----------------------------------------------------------------------------

Init ==
    /\ step = "detect"
    /\ flagged \in Flags
    /\ segments = {}
    /\ edits = 0
    /\ output = None

\* run_detection, on a project without segments.
Detect ==
    /\ step = "detect"
    /\ segments' = Suggestions
    /\ step' = "review"
    /\ UNCHANGED <<flagged, edits, output>>

\* The user draws a segment and chooses what to do with it.
AddSegment(start, end, treatment) ==
    LET seg == [Segment(<<edits + 1, 0, None>>, start, end, None, "manual") EXCEPT !.do = treatment]
    IN  Valid(seg) /\ segments' = segments \cup {seg}

\* The user chooses what to do with a segment there is.
ChooseAction(seg, treatment) ==
    /\ seg.do # treatment
    /\ segments' = (segments \ {seg}) \cup {[seg EXCEPT !.do = treatment]}

Edit ==
    /\ step = "review"
    /\ edits < MaxEdits
    /\ edits' = edits + 1
    /\ UNCHANGED <<step, flagged, output>>
    /\ \E treatment \in Treatments :
          \/ \E start, end \in 0 .. Duration : AddSegment(start, end, treatment)
          \/ \E seg \in segments : ChooseAction(seg, treatment)

\* The export job.
Export ==
    /\ step = "review"
    /\ Keep # <<>>
    /\ output' = ExportedFrames
    /\ step' = "exported"
    /\ UNCHANGED <<flagged, segments, edits>>

\* Nothing is left: ffmpeg refuses a graph that joins no parts. Whatever else
\* makes it fail (a full disk, a codec) raises at the same place and is left out.
ExportFails ==
    /\ step = "review"
    /\ Keep = <<>>
    /\ step' = "failed"
    /\ UNCHANGED <<flagged, segments, edits, output>>

Next == Detect \/ Edit \/ Export \/ ExportFails

Spec == Init /\ [][Next]_vars

-----------------------------------------------------------------------------
(* Properties. *)

\* Detection suggests what it flagged and nothing else: each flagged sample is
\* in a suggestion of its topic with its padding, each suggestion begins and
\* ends at a flagged sample and its padding, it passes the validation of the
\* save that follows, and those of one topic do not overlap.
SuggestionsMatchFlags ==
    step = "review" =>
        LET found == {s \in segments : s.by = "suggested"}
        IN  /\ \A f \in flagged : \E s \in found :
                  /\ s.topic = f[2]
                  /\ s.start <= Max({0, f[1] - Pad})
                  /\ s.end >= Min({Duration, f[1] + Pad})
            /\ \A s \in found :
                  /\ Valid(s)
                  /\ \E f, g \in flagged : /\ f[2] = s.topic /\ s.start = Max({0, f[1] - Pad})
                                           /\ g[2] = s.topic /\ s.end = Min({Duration, g[1] + Pad})
            /\ \A s, u \in found : s.topic = u.topic /\ s # u => s.end <= u.start \/ u.end <= s.start

\* However the segments touch, overlap or contain each other, the export has
\* exactly the frames that no cut covers, once each and in their order; it
\* fails only when the cuts leave none (merge_intervals, complement_intervals).
ExportKeepsWhatIsNotCut ==
    LET left == {t \in Frames : ~\E c \in Cuts : c[1] <= t /\ t < c[2]}
    IN  /\ step = "exported" =>
              /\ {output[i].at : i \in DOMAIN output} = left
              /\ \A i, j \in DOMAIN output : i < j => output[i].at < output[j].at
        /\ step = "failed" => left = {}

\* No other effect undoes one: in a frame of a blurred, blackened or replaced
\* segment the source is not seen as it was, and in one of a muted or replaced
\* segment it is not heard, whatever overlaps it and however short the clip is
\* (build_filter_graph).
TreatedContentIsGone ==
    step = "exported" =>
        \A i \in DOMAIN output : \A s \in Applied :
            s.start <= output[i].at /\ output[i].at < s.end =>
                /\ s.do.action \in {"black", "replace"} => output[i].seen # "source"
                /\ s.do.action = "blur" => output[i].seen # "source" \/ output[i].blurred
                /\ s.do.action \in {"mute", "replace"} => "source" \notin output[i].heard

=============================================================================
