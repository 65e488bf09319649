----------------------------- MODULE ContentScan -----------------------------
(* How the analyzer finds what to label (MovieAnalyzer.analyze of          *)
(* analyzer/analyze.py, up to the labelled segments): a broad scan of      *)
(* single frames, windows around the suspicious ones, a dense scan of each *)
(* window, a binary search for the ends of what it confirms, and the       *)
(* buckets that the findings and the spoken words touch.                   *)
(*                                                                         *)
(* Time is counted in units of the clamp and of the search's precision     *)
(* (the code's 1 ms and 0.1 s); rounding to 10 ms is left out.  Detector   *)
(* scores are small numbers compared with the same thresholds.             *)
EXTENDS SeqWalks, FiniteSetsExt, Functions

CONSTANTS
    Duration,            \* length of the video
    Films,               \* the films: what ffmpeg gives at each time
    Speeches,            \* what the transcription may return: sets of words
    FrameInterval,       \* length of an output segment
    ScanInterval,        \* between two frames of the broad scan
    DenseStep,           \* between two frames of the dense scan
    Padding,             \* dense_window_padding
    Precision,           \* where the binary search stops
    MinPositive,         \* min_positive_frames
    Candidate,           \* candidate_threshold
    LiveThreshold,       \* nsfw_threshold
    CartoonThreshold,    \* cartoon_threshold
    FalconGate,          \* FALCON_TRIGGER_GATE
    VisualInterval,      \* clef_scan_interval
    ReuseWithin,         \* 0.35 of it: how far off a frame may be to be reused
    Unreadable           \* a frame ffmpeg cannot extract

Time == 0 .. Duration

ASSUME LengthsAssumption ==
    /\ Duration \in Nat \ {0}
    /\ FrameInterval \in Nat \ {0}
    /\ ScanInterval \in Nat \ {0}
    /\ DenseStep \in Nat \ {0}
    /\ VisualInterval \in Nat \ {0}
    /\ Padding \in Nat
    /\ ReuseWithin \in Nat
    /\ Precision \in Nat \ {0}
ASSUME ThresholdsAssumption ==
    /\ MinPositive \in Nat \ {0}
    /\ Candidate \in Nat
    /\ LiveThreshold \in Nat
    /\ CartoonThreshold \in Nat
    /\ FalconGate \in Nat
ASSUME FilmsAssumption ==
    \A f \in Films : \A t \in 0 .. Duration - 1 : f[t] # Unreadable =>
        /\ f[t].sd \in Nat
        /\ f[t].falcon \in Nat
        /\ f[t].sdBoosted \in Nat
        /\ f[t].falconBoosted \in Nat
ASSUME SpeechesAssumption ==
    \A s \in Speeches : \A w \in s : w.start \in Nat /\ w.end \in Nat

VARIABLES
    film,      \* Time -> frame, or Unreadable
    speech,    \* the transcribed words
    step,      \* the step of analyze() that comes next
    windows,   \* candidate windows not yet scanned densely
    dense,     \* times of the frames of the dense scans
    found,     \* confirmed detections
    segments   \* the labelled segments

scanVars == <<film, speech, step, windows, dense, found, segments>>

-----------------------------------------------------------------------------
(* One frame: [sd, falcon, dark, sdBoosted, falconBoosted, cartoon, visual]. *)
(* sd is above 0 exactly when the safety checker flags the frame; visual   *)
(* is what the topic scanner sees in it.                                   *)

Triggered(sd, falcon) == sd > 0 \/ falcon >= FalconGate

Signals(sd, falcon, threshold, rescued) ==
    LET score == Max({sd, falcon})
        passed == Triggered(sd, falcon) /\ score >= threshold
    IN  [score |-> score, passed |-> passed,
         boundary |-> passed \/ (rescued /\ ~Triggered(sd, falcon) /\ score >= threshold)]

\* A dark frame that does not pass is judged again, brightened.
Classify(frame, threshold) ==
    LET plain == Signals(frame.sd, frame.falcon, threshold, FALSE)
    IN  IF plain.passed \/ ~frame.dark THEN plain
        ELSE Signals(Max({frame.sd, frame.sdBoosted}),
                     Max({frame.falcon, frame.falconBoosted}), threshold, TRUE)

ThresholdOf(frame) == IF frame.cartoon THEN CartoonThreshold ELSE LiveThreshold

Readable(t) == film[t] # Unreadable

\* _scan_frame_at_timestamp: the verdict on a frame, by its own threshold.
Verdict(t) == Classify(film[t], ThresholdOf(film[t]))

\* _clamp_sample_time: no frame starts at the very end.
Clamped(t) == Max({0, Min({t, Duration - 1})})

-----------------------------------------------------------------------------
(* Scanning. *)

\* _build_scan_timestamps, and the frames found there.
Timestamps(from, to, interval) ==
    {from} \cup {t \in from .. to - 1 : (t - from) % interval = 0}

Sampled(times) == {t \in {Clamped(s) : s \in times} : Readable(t)}

BroadSamples == Sampled(Timestamps(0, Duration, ScanInterval))

CandidateTimes == {t \in BroadSamples : Verdict(t).score >= Candidate}

Window == [from : Time, to : Time]

\* What is scanned densely for one candidate.
Around(t) == [from |-> Max({0, t - Padding}), to |-> Min({Duration, t + Padding})]

\* Bug variant of Join: a window that meets the one before does not lengthen it.
JoinShort ==
    [t \in Time |-> [ws \in Seq(Window) |->
        LET w == Around(t)
        IN  IF w.to <= w.from \/ (ws # <<>> /\ w.from <= ws[Len(ws)].to) THEN ws
            ELSE Append(ws, w)]]

\* A candidate lengthens the last window, or begins a window behind it.
Join ==
    [t \in Time |-> [ws \in Seq(Window) |->
        LET w == Around(t)
            last == ws[Len(ws)]
        IN  IF w.to <= w.from THEN ws
            ELSE IF ws = <<>> \/ w.from > last.to THEN Append(ws, w)
            ELSE [ws EXCEPT ![Len(ws)].to = Max({last.to, w.to})]]]

\* _merge_candidate_windows.
MergeCandidateWindows(times) ==
    Folded(InOrder(times, {p \in times \X times : p[1] < p[2]}), <<>>, Join)

DenseTimestamps(w) == Timestamps(w.from, w.to, DenseStep) \cup {w.to}

DenseSamples(w) == Sampled(DenseTimestamps(w))

\* Between what is not bad and what is.
Bounds == [safe : Time, bad : Time]

\* One turn of the loop of _binary_search_boundary: the middle takes the place
\* of one of the bounds, unless they are close or it cannot be read.
Halve ==
    [threshold \in Nat |-> [b \in Bounds |->
        LET probe == Clamped((b.safe + b.bad) \div 2)
        IN  IF \/ Max({b.safe, b.bad}) - Min({b.safe, b.bad}) <= Precision
               \/ ~Readable(probe)
            THEN b
            ELSE IF Classify(film[probe], threshold).passed THEN [b EXCEPT !.bad = probe]
            ELSE [b EXCEPT !.safe = probe]]]

\* The loop, with the threshold of the bad frame, from an end of the window
\* and a bad time in it.  Each turn brings the bounds together or is the last
\* to change them, so that Duration turns are enough.
Search(known, threshold, w, end) ==
    Folded([turn \in 1 .. Duration |-> threshold],
           [safe |-> end, bad |-> Max({w.from, Min({known, w.to})})], Halve)

\* Bug variant of Boundary: both searches return the bound that is not bad.
BoundarySafe(known, threshold, w, backward) ==
    Search(known, threshold, w, IF backward THEN w.from ELSE w.to).safe

\* _binary_search_boundary: the first bad time or the first time after the bad.
Boundary(known, threshold, w, backward) ==
    IF backward THEN Search(known, threshold, w, w.from).bad
    ELSE Search(known, threshold, w, w.to).safe

\* _fallback_detection_span.
FallbackSpan(w, first, last) ==
    LET from == Max({w.from, first - (DenseStep \div 2)})
        to == Min({w.to, last + (DenseStep \div 2)})
    IN  [from |-> from, to |-> IF to <= from THEN Min({w.to, from + DenseStep}) ELSE to]

\* _build_dense_window_detection.
DenseDetection(w) ==
    LET positives == {t \in DenseSamples(w) : Verdict(t).passed}
        edges == {t \in DenseSamples(w) : Verdict(t).boundary}
        first == Min(edges)
        last == Max(edges)
        from == Boundary(first, ThresholdOf(film[first]), w, TRUE)
        to == Boundary(last, ThresholdOf(film[last]), w, FALSE)
    IN  [positives |-> positives, window |-> w,
         span |-> IF to <= from THEN FallbackSpan(w, first, last)
                  ELSE [from |-> from, to |-> to]]

\* Every timestamp counts, also when two of them are clamped to one frame.
Confirmed(w) ==
    Cardinality({t \in DenseTimestamps(w) :
                    Readable(Clamped(t)) /\ Verdict(Clamped(t)).passed}) >= MinPositive

-----------------------------------------------------------------------------
(* Labelling. *)

\* Bug variant of NumBuckets: the part of a bucket at the end is left out.
NumBucketsWhole == Max({1, Duration \div FrameInterval})

NumBuckets == Max({1, (Duration + FrameInterval - 1) \div FrameInterval})

BucketStart(b) == (b - 1) * FrameInterval
BucketEnd(b) == Min({Duration, b * FrameInterval})

\* The words of _build_detections: a bucket has the words that start in it. A
\* word is profane if it is on the list once quotes are stripped, and nothing
\* but quotes is; one with a comma behind it is not recognised.
Language(b) ==
    \E w \in speech : /\ w.profane
                      /\ BucketStart(b) <= w.start
                      /\ w.start < b * FrameInterval

\* Bug variant of Touches: the bucket must hold the whole span.
TouchesInside(span, b) == span.from >= BucketStart(b) /\ span.to <= BucketEnd(b)

\* _merge_segments with _detection_time_range: half-open intervals overlap.
Touches(span, b) ==
    LET from == Min({span.from, Duration})
        to == Max({from, Min({span.to, Duration})})
    IN  from < to /\ from < BucketEnd(b) /\ to > BucketStart(b)

Tags(b) ==
    (IF Language(b) THEN {"language"} ELSE {}) \cup
    (IF \E i \in DOMAIN found : Touches(found[i].span, b) THEN {"nudity"} ELSE {})

Buckets ==
    [b \in 1 .. NumBuckets |->
        [start |-> BucketStart(b), end |-> BucketEnd(b), tags |-> Tags(b), topics |-> {}]]

MergeSegments == Where(Buckets, {s \in Range(Buckets) : s.end > s.start})

\* _extract_transcript_for_segment: the words that overlap a segment.
WordsIn(s) == {w \in speech : w.start < s.end /\ w.end > s.start}

\* What the topic classifier finds in their text.
Heard(s) == UNION {w.topics : w \in WordsIn(s)}

Reusable(t, times) == {u \in times : Max({t, u}) - Min({t, u}) <= ReuseWithin}

\* _ensure_visual_topic_frames: a sample close to a frame that was scanned
\* before takes the first such frame, and one frame is judged once.
VisualFrames ==
    LET broad == BroadSamples
        Frame(t) ==
            LET first == Reusable(t, broad)
                second == Reusable(t, dense)
            IN  IF first # {} THEN Min(first) ELSE IF second # {} THEN Min(second) ELSE t
    IN  {u \in {Frame(Clamped(t)) : t \in Timestamps(0, Duration, VisualInterval) \cup {Duration}} :
            Readable(u)}

\* Bug variant of InSegment: a frame on a boundary belongs to neither segment.
InSegmentInside(t, s) == s.start < t /\ t < s.end

\* _frame_in_segment: a frame on a boundary belongs to both segments.
InSegment(t, s) == s.start <= t /\ t <= s.end

\* attach_visual_topics.
VisualTopicsOf(s, frames) ==
    UNION {film[t].visual : t \in {u \in frames : InSegment(u, s)}}

-----------------------------------------------------------------------------
(* analyze(). *)

ScanInit ==
    /\ film \in Films
    /\ speech = {}
    /\ step = "transcribe"
    /\ windows = <<>>
    /\ dense = {}
    /\ found = <<>>
    /\ segments = <<>>

Transcribe ==
    /\ step = "transcribe"
    /\ speech' \in Speeches
    /\ step' = "broad"
    /\ UNCHANGED <<film, windows, dense, found, segments>>

BroadScan ==
    /\ step = "broad"
    /\ windows' = MergeCandidateWindows(CandidateTimes)
    /\ step' = "dense"
    /\ UNCHANGED <<film, speech, dense, found, segments>>

ScanDenseWindow ==
    /\ step = "dense"
    /\ windows # <<>>
    /\ windows' = Tail(windows)
    /\ found' = IF Confirmed(Head(windows)) THEN Append(found, DenseDetection(Head(windows)))
                ELSE found
    /\ dense' = dense \cup DenseSamples(Head(windows))
    /\ UNCHANGED <<film, speech, step, segments>>

BuildSegments ==
    /\ step = "dense"
    /\ windows = <<>>
    /\ segments' = MergeSegments
    /\ step' = "topics"
    /\ UNCHANGED <<film, speech, windows, dense, found>>

\* Each segment with words gets the topics of its own transcript.
ClassifyTopics ==
    /\ step = "topics"
    /\ segments' = [i \in DOMAIN segments |->
                      [segments[i] EXCEPT !.topics = Heard(segments[i])]]
    /\ step' = "visual"
    /\ UNCHANGED <<film, speech, windows, dense, found>>

\* The classifier is switched off or raises: the segments go on as they are.
ClassifyTopicsFails ==
    /\ step = "topics"
    /\ step' = "visual"
    /\ UNCHANGED <<film, speech, windows, dense, found, segments>>

\* _apply_visual_topics.
ScanVisualTopics ==
    /\ step = "visual"
    /\ LET frames == VisualFrames
       IN  segments' = [i \in DOMAIN segments |->
               [segments[i] EXCEPT !.topics = @ \cup VisualTopicsOf(segments[i], frames)]]
    /\ step' = "done"
    /\ UNCHANGED <<film, speech, windows, dense, found>>

\* The scanner is switched off or cannot be made.
VisualScannerUnavailable ==
    /\ step = "visual"
    /\ step' = "unscanned"
    /\ UNCHANGED <<film, speech, windows, dense, found, segments>>

ScanNext ==
    \/ Transcribe \/ BroadScan \/ ScanDenseWindow \/ BuildSegments
    \/ ClassifyTopics \/ ClassifyTopicsFails
    \/ ScanVisualTopics \/ VisualScannerUnavailable

ScanSpec == ScanInit /\ [][ScanNext]_scanVars

-----------------------------------------------------------------------------
(* Properties. *)

Labelled == step \notin {"transcribe", "broad", "dense"}

\* The label is on every segment that has a time of the set.
Carries(times, tag) ==
    \A t \in times : \E i \in DOMAIN segments :
        /\ segments[i].start <= t /\ t < segments[i].end
        /\ tag \in segments[i].tags

\* A film that is read throughout and is all live action or all cartoon, so
\* that one threshold judges every frame.
Plain ==
    /\ \A t \in 0 .. Duration - 1 : Readable(t)
    /\ \A t, u \in 0 .. Duration - 1 : film[t].cartoon = film[u].cartoon

Bad(t) == Readable(t) /\ Verdict(t).passed

\* What lasts a scan interval, and long enough for the dense scan to see it
\* as often as it wants, is labelled in full: the sampling, the merging of
\* windows, the searches and the buckets lose no part of it, up to the end of
\* the film (scan_interval, dense_window_padding, min_positive_frames).
LongRunIsTagged ==
    Labelled /\ Plain =>
        LET length == Max({ScanInterval, MinPositive * DenseStep})
        IN  \A from \in 0 .. Duration - length :
                LET run == from .. from + length - 1
                IN  (\A t \in run : Bad(t)) => Carries(run, "nudity")

\* Every frame that the dense scan of a confirmed window judged bad is in a
\* labelled segment, in any film, with frames that cannot be read and frames
\* that another threshold would judge otherwise (_build_dense_window_detection,
\* _merge_segments).
PositiveFrameIsTagged ==
    Labelled => \A i \in DOMAIN found : Carries(found[i].positives, "nudity")

\* A finding is no wider than its evidence: its span begins at a moment that
\* is bad, or brightened into doubt, and ends within the precision of one, so
\* no label reaches past a bucket where something was found
\* (_binary_search_boundary).
SpanEndsOnEvidence ==
    Plain => \A i \in DOMAIN found :
        LET span == found[i].span
        IN  /\ span.from < span.to
            /\ Verdict(span.from).boundary
            /\ \E t \in 1 .. Precision : t <= span.to /\ Verdict(span.to - t).boundary

\* A word that is recognised as a swear word labels the segment it starts in,
\* whatever else is found and whether or not a classifier fails
\* (_build_detections, _merge_segments).
SwearWordIsTagged ==
    Labelled => Carries({w.start : w \in {x \in speech : x.profane /\ x.start < Duration}}, "language")

\* The visual scan labels a segment only with what is heard or seen in it,
\* and misses nothing that is seen for longer than two samples can lie apart
\* when both take a frame scanned before (_ensure_visual_topic_frames,
\* attach_visual_topics).
VisualTopicsAreExact ==
    step = "done" =>
        LET length == VisualInterval + 2 * ReuseWithin
            Seen(times) == UNION {film[t].visual : t \in {u \in times : u < Duration /\ Readable(u)}}
        IN  /\ \A i \in DOMAIN segments :
                  segments[i].topics \subseteq
                      Heard(segments[i]) \cup Seen(segments[i].start .. segments[i].end)
            /\ \A from \in 0 .. Duration - length :
                  LET run == from .. from + length - 1
                  IN  \A topic \in Seen(run) :
                          (\A t \in run : Readable(t) /\ topic \in film[t].visual) =>
                              \E i \in DOMAIN segments :
                                  /\ topic \in segments[i].topics
                                  /\ segments[i].start < from + length
                                  /\ segments[i].end >= from

=============================================================================
