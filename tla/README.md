# Verification of vid_splitter: branching video, its editor and its Jellyfin plugin

This directory holds TLA+ models of the vid_splitter system, the TLC
configurations that check them on small instances, and TLAPS proofs of what
matters most: the editor's jobs and store and the plugin's caches, where threads
and requests interleave, the pipeline that decides what a viewer is shown, the
`.bvf` file with its readers, and the editor's export.
`PROJECT.json` lists the components,
the runs, the source lines behind every definition (`map`), the hazards of the
code and the disagreements found (`findings`).

    tlc -workers 2 -config MCJobRegistry.cfg MCJobRegistry    # one run
    tlapm JobRegistryProofs.tla                               # one proof module

## 1. The system

A movie is analysed, cut into labelled segments, packed into one `.bvf` file
together with filler clips, and played by a runtime that leaves out or replaces
the segments a viewer wants avoided. A separate web editor cuts and edits videos
by hand.

| Part | Source | State it keeps | Operations |
|---|---|---|---|
| Editor job registry | `editor/jobs.py` | `_jobs`, `_active_detect_job_id`, one lock | `create`, `claim_detect_job`, `release_detect_job`, `update`, `running_detect_job_id`, `run_in_thread`, `to_api` |
| Editor project store | `editor/project.py`, the handlers of `editor/app.py`, `editor/detect.py` | one `project.json` and its `replacements/` per project | `load_project`, `save_project`, put, add, patch, delete, upload, detection |
| Editor web client | `editor/static/app.js` | the open project, a save timer, one poll timer | debounced save, reload on 409, job polling |
| Editor export | `editor/export.py`, `editor/segments.py` | none | interval algebra, ffmpeg filter graph |
| Analyzer | `analyzer/` | one run, in memory; Wan clips on disk | detection, labelling, replacement, profiles |
| Muxer, container | `vid_splitter/bvf_muxer.py` | the `.bvf` file | bake profiles, write header, index, manifest, blocks |
| Playback resolution | `TopicPlayback.cs`, `SegmentServer.cs`, `BVFReader.cs`, `tools/bvf_player.py` | none | decide about every segment for a viewer |
| Plugin HLS serving | `SegmentServer.cs`, `BvfHlsController.cs`, `BvfManifestCache.cs`, `BvfHlsFragmentCache.cs` | manifest, timeline and fragment caches in a singleton | playlist, init, media part, warm-up, `ClearCache` |
| Plugin library integration | `BvfItemResolver.cs`, `PreferBvfSiblingIgnoreRule.cs`, ... | none | decisions of the library scan |
| Plugin profile resolver | `ProfileResolver.cs`, `Configuration/` | plugin configuration | user to profile, avoided topics, hit action |
| fMP4 rewriting | `Fmp4TimestampRewriter.cs`, `Fmp4ConcatHelper.cs` | none | shift and join fragments |
| Tools | `tools/` | none | player, probe, smoke test, Wan command line |

How they meet: the client calls the editor's handlers, which FastAPI runs in a
thread pool; two handlers start daemon threads that report to the job registry;
handlers and threads all load and save the same `project.json`, with no lock
around the two. The analyzer hands segments and profile filters to the muxer in
one process; muxer and plugin share nothing but the `.bvf` file, which the muxer
writes in place while the server, the player or the probe may be reading it. In
the plugin one
`SegmentServer` serves all requests of all viewers, so its caches are shared by
threads that lock some of them and not others.

What is hard: requests that interleave between load and save; the detection slot
over three threads; status fields read without the lock; crashes inside a save;
parts assembled outside the cache's lock; three caches that each take the file's
time and length on their own while the file changes; a file that is cut short
when its writer dies; samples, windows and buckets with different steps laid over
one timeline; and a decision (what a viewer is shown) that four programs in two
languages take in pieces.

What makes each part correct:

* registry: one detection at a time; a slot that is given back; a `done` answer
  that has its result; every started job ends.
* store: `project.json` can always be parsed; what it says is consistent with
  itself; no accepted put silently overwrites what its client has not seen.
* caches: two structures describe one cache; bytes are counted; the eviction
  order is that of use; nothing of an old file is served for a new one.
* container: what was written to its end is read back, by every reader; what the
  probe calls valid plays, and lacks at most media data at its end.
* analysis: what lasts is labelled in full, and no label is wider than what was
  found.
* export: exactly what no cut covers, and nothing treated comes back.
* playback: nothing avoided is shown, nothing else is taken away, and it is known
  where the runtimes differ.

## 2. Modules

| Module | Models |
|---|---|
| `DetectionLock` | abstract: detections are admitted one at a time, turned away only while one is admitted |
| `JobRegistry` | `editor/jobs.py` with `start_detect`, `start_export`, `get_job`; implements `DetectionLock` |
| `ProjectStore` | `project.json` and every request that rewrites it, with crashes |
| `FragmentCache` | `BvfHlsFragmentCache.cs` with its two callers |
| `HlsServing` | one media request through the manifest, timeline and fragment caches while the file is rewritten |
| `Playback` | operators: how each runtime decides about a segment |
| `Baking` | operators: the analyzer's replacement steps and the muxer's baking (extends `Playback`) |
| `BranchPipeline` | composes the two: labels, replacement, muxing, resolution for a viewer |
| `BvfLayout` | operators: the bytes of a `.bvf` file, and what each reader makes of any bytes (extends `Playback`) |
| `ViewerProfile` | operators: which profile a viewer gets, in the plugin and in the player |
| `BvfContainer` | composes the two: the muxer writing in place and being killed, beside probe, player and library scan |
| `ContentScan` | the analyzer from the film to the labelled segments, where `BranchPipeline` begins |
| `EditorExport` | flagged frames, suggestions, edits and the exported film |
| `SeqWalks` | operators that several of these use: keeping, mapping, joining, summing and folding along a sequence, and putting a set in order |
| `MC...` | instances for TLC: constants only |
| `JobRegistryProofs`, `ProjectStoreProofs`, `FragmentCacheProofs`, `HlsServingProofs`, `AnalyzerProofs` (of `ContentScan` and `BranchPipeline`), `BvfContainerProofs`, `EditorExportProofs` | theorems and their proofs |
| `SequenceLemmas` | what `SeqWalks` returns, induction along a sequence or an ascent, and facts of arithmetic |

Definitions commented "Bug variant of X" are not part of any specification: each
is X with a plausible mistake, and `mutants` in `PROJECT.json` says which
property TLC finds violated when X is replaced by it.

### JobRegistry

One job is made per request, so a job stands for its thread of control: the
handler up to `Thread.start()`, then the worker. `pc[j]` is where it is, with one
step per critical section of the registry. `update` changes several fields under
the lock, but `to_api` reads without it; so `update(status="error", error=...)`
is two steps that hold the lock, and a reader takes status, result and error in
three steps. `SpawnFails` is `Thread.start()` raising. `progress` and `message`
are left out: nobody in the server reads them.

### ProjectStore

A handler of the model is one request with its own copy of the project: load,
maybe wait, then `save_project` in its steps (write of the temporary file, fsync,
rename). `bytes` says how safe a file is: a crash may cut short what is only
cached. Segments keep what the writers look at (reviewed or not, which clip);
times, topics and actions are left out. Requests overlap freely; in each, the
probe of an upload, the write, the sync or the rename may raise (`Fails`). A put
may carry what `app.js` can make of the version its client last received
(`EditsOf`). `lost` is history: some save has replaced a version its request had
not loaded. A rename is taken to be durable once made.

### FragmentCache

`lru`, `index` and `totalBytes` are the fields of the class. `GetOrAdd` is
`Lookup` (first critical section), `Assemble` (the factory, outside the lock) and
`Store` (second critical section, with insertion and eviction). Request threads
answer and start read-ahead; tasks go from part to part as `PrefetchAhead` does.
`used` is history: the parts answered since the last `Clear`.

### HlsServing

A request is the sequence of stats, lookups, reads and stores that the code makes,
each one step, so that the muxer's two steps (truncate, write the rest) fall
between any two. A value is named by the version of the file it was read from;
a stamp is the file's time and length, taken anew by each cache. The plain
`Dictionary` of the manifest cache is nondeterministic while another thread
stores: a lookup may miss, a store may be lost or throw. `ClearCache` empties the
three caches one after the other, with no lock around them: with any number of
callers, each held up before any of its steps, any cache can be emptied at any
moment. `FragmentCache` models eviction; here a fragment may go at any moment. `Layout` says whether a rewritten
file has its blocks elsewhere, because that is all the key's digest sees.

### Playback, Baking, BranchPipeline

A runtime is an operator from a manifest segment to a decision (an entry, left
out, failure); a playlist collects the decisions in order. `Baking` has the
steps from labelled buckets to the manifest. Beside the labels the program keeps,
a scene has `content`: the labels of all the buckets its media spans, so that a
property can ask what is really shown. `BranchPipeline` starts from the analyzer
with any labelling, or from authored segments and filters given to the muxer, and
ends with the playlist of one viewer. Authored segments may be filtered, may have
an action of their own and a risk but no label (bvf_muxer.py:428-429), or profiles
of their own, which the muxer copies (413-416); and the fillers they name may not
be in the file. An authored entry without a target names the segment itself.
Letter case of labels, times and media are left out.

### BvfLayout, ViewerProfile, BvfContainer

A file is a sequence of cells; a cell knows the value it encodes and its place in
the encoding, so a reader gets a value back only from a slice that holds all of
it. Sizes are constants (64, 40 and 32 bytes in the code). `BvfLayout` has one
operator per reader that says which bytes it accepts: `read_bvf` takes a file
whose last payload is cut, the player does not look at payloads at all, and the
probe compares everything. `BvfContainer` adds time: `MuxOpen` truncates,
`MuxWrite` adds any number of cells, `MuxKilled` leaves what is there. The probe
is two steps because it reads the path twice: index and payloads come from the
first read (`tool.raw`), the manifest from the second (`tool.again`). The tools
only read, so one at a time sees what several would. `tool` also keeps what the
last tool concluded; `whole` is history, the package last written to its end.

A package is what `write_bvf` is called with: one asset for each segment, of the
same id and in the same order. That ids are unique is not checked by the muxer
(the analyzer numbers them); the plugin's `ToDictionary` throws at a second one,
the probe's index keeps the last and the player takes the first. Theorems that
need them to be unique say so (`DistinctAssets`).

A viewer of `ViewerProfile` has an override (in the player, `--profile`), an age,
a sex and a default: the player's `default_profile`, the plugin's `DefaultProfile`.
A sex is a word and whether it is in lower case, since the player folds it
(bvf_player.py:269) and the plugin does not (ProfileResolver.cs:114). That the
player also reads `gender`, and a date of birth under two names, is left out.

### ContentScan

A film is a function from times to frames with detector scores. `step` goes
through `analyze()`: transcription, broad scan, dense scan of each window,
boundary searches, buckets, transcript topics, visual topics. Verdicts follow
`_classify_frame_details`, with brightened frames and the gate; a frame may be
unreadable. Time counts in the clamp's and the search's unit. What a detector says
of a frame is part of the film, so all of it is chosen by TLC. The loops over
candidates and in `_binary_search_boundary` are folds, and `Join` and `Halve` are
one turn of each. The search takes as many turns as the film is long: each turn
brings the bounds together or is the last to change them, so that the loop of the
code never takes more. A window is confirmed by its timestamps, of which two may
be clamped to one frame. A word is `profane` if the code recognises it: quotes
around it are stripped and nothing else (analyze.py:1169), so a token with a comma
behind it is a word that is not.

### EditorExport

`Detect` samples and merges as `merge_flagged_frames` does; `Edit` adds or changes
a segment as the editor allows; `Export` builds the filter graph step by step. A
frame of the output knows which source frame it is at, what is seen in it (source,
black or a clip), whether it is blurred, and what is heard. Filters are external
and behave as their options say; the only failure of ffmpeg that the model has is
the one the code provokes, a graph that joins no parts (any other one raises at
the same place, export.py:293-296, and leaves no output). The loops of the code (over hits, cuts, effects
and kept parts) are folds: `Extend`, `Merge`, `Pass` and `Effect` are one turn of
each.

## 3. Runs

| Run | Question | Bounds |
|---|---|---|
| `jobs` | exclusion, released slot, complete answers, refinement of `DetectionLock`, every started job ends | 2 detections, 1 export, 1 reader, thread starts may fail |
| `store_overlapping` | what holds however requests overlap, and what until a save overwrites another one | 3 requests of any kind, 1 client, 1 clip, 1 crash |
| `store_put_race` | *violation*: an accepted put overwrites an unseen change | 2 overlapping requests, 2 clients |
| `fragments_safety` | structure, byte count, LRU order, one copy per part | 2 requests, 1 task, 3 parts, one above the limit |
| `hls_rewrite` | no stale answer when the file is rewritten and blocks move | 2 requests, 2 versions |
| `branch_pipeline` | nothing avoided is shown, nothing else lost, which swaps show what, where runtimes differ | 3 scenes, 2 topics, 2 profiles, all 512 command lines and all viewers; 2 authored segments of every kind, with 2, 1 or no fillers |
| `branch_partial_topics` | *violation*: merged runs lose labels | same, filtering one topic |
| `branch_skip_to_swap` | *violation*: a swap that shows the segment itself | same, authored skip filters |
| `bvf_container` | complete files read back everywhere, what a valid verdict leaves open, valid means playable, exports and seeks keep time, whose profile differs, one entry per movie | 5 packages of up to 3 assets, 2 muxer runs, 6 users, every cut |
| `default_profile` | *violation*: the plugin does not use its `DefaultProfile` | same |
| `content_scan` | what lasts is labelled, nothing wider than its evidence, words and visual topics | 10 time units: 3 buckets and a part, a bad stretch, a second stretch of 7 kinds, 1 unreadable frame |
| `editor_export` | suggestions match flags, cuts leave exactly the rest, nothing treated comes back | 5 frames, 3 samples, 2 topics, 2 edits of any kind, 2 clips |

Why the bounds are enough. Exclusion, claims and refusals are between two jobs,
and nothing in the registry counts jobs (the theorems below hold for any number).
The store's races need a request that loads, one that saves in between and a
third that acts on the result. In the cache two threads can assemble the same
part while a third evicts; a part above the limit empties the cache. A stale
cache entry needs one request that overlaps a write and a later one that does
not; with two versions every value is either old or new. A probe's two reads need
two writes, the first one cut or complete; three assets put one first, one last
and one between. In the scan every interval (bucket, broad step, dense step,
padding, reuse) has its own length, at least one of them does not divide the
film, and stretches of every length begin at every time. Two edits can be equal,
nested, adjacent, overlapping or apart, and five frames leave something on both
sides; one clip is shorter than what it replaces and one longer. Three scenes give runs
of length one, two and three, at both ends and in the middle, and two topics make
a label partly filtered. Two authored segments can play or swap into each other,
into a filler or into nothing; the actions include one that no runtime supports.
Among the packages are a swap and a play of an id that nothing has, and among the
users both sides of a thirteenth birthday, a sex in two spellings, and viewers
left to a default. Bounds by name: `MaxCrashes`, `MaxVersion`, `NumParts`,
`NumScenes`, `MaxWrites`, `MaxEdits`, `Duration`; the sets of handlers, requests and jobs bound how much happens, since
each handler and job acts once. `CHECK_DEADLOCK FALSE` is set where all requests
may have been made (the store), the movie has been resolved (the pipeline), the muxer's runs are used
up (the container), or the analysis or export has ended.

Two configurations are chosen so that branches are reached at all. In
`content_scan` the live-action threshold lies below the gate; with the code's
default values (0.75 and 0.5) no brightened frame can be doubtful, and the branch
that widens a boundary over such frames never runs. And in `editor_export` the
padding equals the interval, as at half a second; for shorter intervals two
suggestions of one topic may overlap.

Symmetry is used in `store_overlapping` and `hls_rewrite` on requests, which the
models never order or name, and in no run with liveness properties.

### Fairness

`JobRegistry`: weak fairness of `Spawn(j)` and of each worker's next step. A
handler that has claimed goes on to its next statement, a daemon thread is
scheduled, critical sections are short and one holder of the lock always leaves
it, and the bodies (a loop over a video's frames, one ffmpeg process) return or
raise. Requests and readers have none: nobody has to ask.

The other modules have safety properties only, and no fairness is assumed of their
steps in any run; that read-ahead or an answer comes in the end depends on the
host's thread pool.

## 4. Proofs

`JobRegistryProofs`, for any sets of jobs and readers, under the three
assumptions of `JobRegistry` (job sets disjoint, `NoJob` not a job, the switch a
Boolean):

* `TypeCorrect`: `TypeOK` is inductive.
* `MutualExclusion`: `OneDetectionAtATime` is not inductive. `SlotInv` adds that
  whoever is between claim and release is the recorded holder and live
  (`HolderIsActive`), that a recorded holder is at such a point, and that a job not
  yet claimed is queued. Two detections at work would both be the one recorded.
* `ClaimStaysLive` follows from the same invariant.
* `DoneAnswerComplete`: `AnswerInv` follows the reader through its three reads:
  once it has read `done`, the result is there to be read (the worker publishes it
  before it completes), and no result is ever taken back (`ResultsStay`).
* `EndIsFinal`: `EndedJobStaysEnded` is an action property. A final status is found
  only past the last write of its thread (`EndedIsPastWriting`), and each job has
  one thread, so no step can overwrite it.
* `ImplementsDetectionLock`: under the mapping `Phase`, `Claim` is `Acquire` or
  `Refuse`, `Release` is `Leave`, and every other step stutters.

`ProjectStoreProofs`, for any sets of handlers, clients and clips, any number of
crashes, overlapping or not:

* `TypeCorrect` and `NeverTorn`: `FileInv` says of every request that saves that
  its temporary file exists and, once synced, is durable, and of `project.json`
  that its bytes are durable. That is why a rename never puts a file in place
  that a later crash can cut short.
* `ClipsStayKnown`: `StoredClipsAreKnown` speaks of the stored version only;
  `ClipsInv` extends it to every version a request holds, in its copy or its
  temporary file. Each request validates against the copy it will save, so the
  stored project stays consistent although saves overwrite each other.
* `ListedClipsKeepFiles`: until a first crash, `ClipFilesInv` says, every version
  that is stored, in a temporary file or held by a request lists only clips whose
  file exists (an upload creates the file before it lists the clip), and no step
  removes a file. A crash may lose the file, which is why the property excludes it.

* `RevisionsHold`, `UncontestedPutsHold` and `DetectionsHold` are about overlapping
  requests and exclude none. `TrackInv` says of every request in flight that its
  copy has the revision it loaded, or one more once it saves, and of every client
  that it has the stored project or one with a smaller revision, until some save
  has replaced a version its request had not loaded (`lost`). Until then a number
  names one content, and a put replaces what its client edited. The race of
  `store_put_race` is thus the only way for a put to go wrong. A detection keeps
  what was reviewed when its scan began, with no condition, because its copy has
  every reviewed segment of what it loaded. None of the three excludes crashes.

`FragmentCacheProofs`, for any stream of parts of any sizes and lengths, any
limit and any finite number of threads:

* `CacheConsistent`, `CacheMostRecent`, `CachedCopyAnswered` come from one
  invariant, `CacheInv`: list and index hold the same entries, each part once;
  the byte count is the sum of the list's; a thread about to insert holds a
  buffer; and the list of keys is a beginning of `used`, the parts in the order
  in which they were last answered. The last is what the eviction has to keep:
  it drops entries from the end until the rest fits, and a hit or an insertion
  moves the same part to the front of both. Insertion has the case of a part
  that another thread stored meanwhile and the case of a part above the limit,
  which empties the cache.

`HlsServingProofs`, for any number of requests and versions and any layout of
each version:

* `TypeCorrect`: types alone are not inductive, because a timeline is put together
  from an index that was read before; `TypeInv` says what each point of a request
  has already read, and which stamp belongs to which version.
* `HitIsCurrent`: `HitInv` says that no entry, and no stamp a request still holds,
  is newer than the manifest with it. A stamp equal to the file's therefore has
  the file's manifest. The dictionary may lose stores; it cannot mix two.
* `QuietIsCoherent`, under `LayoutsDiffer` (every version has its blocks
  elsewhere): `CoherenceInv` says of every cached or held timeline and part that
  its layout is that of its key, and that it was read no earlier than its index
  and no later than now. An entry for the layout of the newest version is then all
  of that version. Without `LayoutsDiffer` the claim is false (section 5).

`AnalyzerProofs`, of `ContentScan`, for any film with scores that are numbers, any
speech, any lengths (of the film, segments, windows, steps and reuse) and any
thresholds:

* `ScanInvHolds`: `ScanInv` says that every candidate window is still to be scanned
  or has given its finding (`WindowsJudged`), that each finding is what the dense
  scan and the searches make of one window (`Confirmations`), and that the
  segments are the buckets with their labels, and topics what was heard and seen.
  The properties are not inductive without it, because they speak of findings
  and segments and not of the windows they come from.
* `SwearWordHolds` and `VisualTopicsHold` need no hypothesis: buckets reach from 0 to
  the end of the film, the last one cut (`BucketFacts`), and a sample's frame is
  never further from it than the reuse allows (`VisualFrameFacts`).
* The other three rest on two invariants along folds. `WindowsOf` says of the
  windows merged so far that they lie apart, begin and end where the stretch
  around a candidate does, and leave out no stretch. `SearchedTo` says of a search
  that its bounds stay between the end and the frame it began from, that a bound
  which moved was judged, and how far apart they can be after so many turns.
* `LongRunsHold`: every moment of a run lies within a scan interval of a candidate
  of the run, hence in a window; windows lie apart, so one has the whole run, as
  many of its timestamps as a confirmation takes, and searches that stop outside
  it. Hypotheses: `Padding >= ScanInterval`; `CandidatesPass` (what passes is a
  candidate: 0.25 is below 0.75 and 0.8, the defaults); and `Precision = 1`, the
  unit of time: with a coarser search the first moments of a run may be left out.
* `PositiveFrameHolds` and `SpansEndOnEvidence` have `CandidatesPass` and `PaddingFits`:
  the padding is a multiple of the scan interval, as with the defaults, where
  both are five seconds. The end of a window is then the end of the film or the
  time of a frame of the broad scan, which would have lengthened the window had
  it counted for an end; so no edge is at a window's end. Otherwise a frame may
  be (section 5).

`AnalyzerProofs`, of `BranchPipeline`, for any number of scenes, topics, fillers,
options and viewers:

* `AvoidedTopicHolds`, `FilteredLabelHolds`, `SwapShowsOwnFillerHolds` and
  `InnocentScenesHold` follow from `PipelineInv`, which says what each stage
  leaves to the next: labels are those of the bucket until the replacements;
  after them a scene's labels are right about the topics of `Trusted` (merging a
  run hands down the filtered ones only), a scene's target is the filler made for
  it, ids are unique, and filters, manifest and playlist are computed from
  these scenes. None has a hypothesis. `AvoidedTopicNeverPlays` and
  `FilteredLabelNeverPlays` name the command lines they are about, `ThoroughOptions`
  (fillers for all topics or for none, which `branch_partial_topics` shows to be
  needed) and `UniformOptions` (fillers for all that is filtered). The other two
  are about every command line: with `--wan-tags` or `--wan-segments` a swap may
  show the scene itself, which `SwapShowsOwnFiller` allows there and nowhere else.
* `RuntimesAgreeHolds`: for every file, analysed or authored, server (for an
  anonymous request) and player resolve alike; the C# reader refuses what they
  refuse, and besides a swap whose target is missing, and it differs in what it
  shows only when a play names another segment. No file of the analyzer has
  either.

`BvfContainerProofs`, for any packages, any sizes of header, index entry, block
header and manifest, any users and any number of muxer runs:

* All seven properties of the container follow from `ContainerInv`: what is on the
  disk is absent or the front of one package's encoding, the one being written or
  last written to its end (`DiskInv`); a scan that nothing disturbed has seen the
  file as it still is; a valid verdict was reached about two fronts, one for each
  read of the probe (`ProbeInv`); what the player holds was accepted, with the
  profile it chose for its user; and an export is that of a whole file.
* `NearlyWholeHolds`: `EntriesRead` says that of an index cut anywhere a reader gets
  a beginning of it, and `FrontDecoded` that it gets a value back only from a front
  that reaches the value's end. The parts of a file lie one after the other
  (`BytesFacts`, `LengthFacts`), so if every entry's block is in the file, and the
  manifest when there are no entries, nothing is missing from the first read; and
  if the second has every block header, at most media of the last asset is.
* `ReadsBackHolds` has the hypothesis `DistinctAssets`: of two assets with one id
  the index has two entries, and extraction takes the first.
* `PlayableHolds` needs no hypothesis. `NoIssue` says what is left when nothing is
  reported: a manifest of one package, with actions the player knows and swaps
  into segments that it has. The index of that package has the ids of its
  segments (`IndexedIds`), so a sequence fails for no profile, and an entry is
  dropped only if it plays an id that nothing has (`PlayedEntries`). With two equal
  reads no payload is empty (`ValidPayload`).
* `ExportMatchesHolds` has `DistinctAssets`. A duration is a sum over the entries;
  what is not extracted counts for nothing on either side (`TotalSkipsZeros`,
  `FoundDuration`), each other entry is within the tolerance of what the index
  says, so the sum is within as many tolerances as there are entries.
* `SameProfileHolds` needs no hypothesis; `SameSelection` says that the two ways to
  fall back agree about any preference and any manifest that names a profile, and
  `SamePreference` where the preferences differ. Of a manifest that names none, the
  plugin makes the adult profile and the player what its user prefers.
* `SeekHolds` and `QuietScanHolds` need none.

`EditorExportProofs`, for any film, any flags the scanner can set, any clips and
any number of edits:

* `ExportHolds`: `MergeFacts` says that, whatever was merged so far, one more cut
  leaves intervals in order with gaps between them that cover the same frames as
  the cuts; this needs the order of starts, which `InOrder` gives. `PassFacts`
  says that the gaps up to `pos` are what no cut covers. `JoinFacts` adds one
  kept part to the output. Each is an invariant along a fold.
* `TreatedHolds`: once an effect has left nothing of the source in a frame, no
  later effect brings it back (`EffectFacts`), and each effect does so in its own
  frames (`EffectActs`); for a replacement this rests on the padding of a short
  clip (`ClipFills`). So the order of the effects does not matter.
* `SuggestionsHold` has the hypothesis `PaddingFits`: samples too far apart for one
  run are at least two paddings apart. Runs are two intervals or more apart and
  the padding is half an interval or half a second, whichever is more, so it holds
  from an interval of half a second on, the least the page offers
  (index.html:38); `app.py` accepts less, and then suggestions of a topic may
  overlap. `RunsOf` is the invariant along the hits.
* `ExportInv` joins these to the steps: segments stay valid whatever the user does
  (`SegmentsAreSound`), and while they are reviewed the suggestions are all there,
  once each, but for the action chosen (`SuggestionsKept`).

The packages of `bvf_container` meet `DistinctAssets`, and the lengths and thresholds
of `content_scan` meet the hypotheses on the scan.

`SequenceLemmas` has what these proofs rest on. The library's induction theorems
take the property to be shown as an operator, which the provers cannot
instantiate. Here induction along an interval or a sequence is stated with the
set of the numbers or sequences that have the property, and proved from the
well-foundedness of `<` on the naturals; `WhereUnfolds`, `TotalUnfolds`,
`FlatUnfolds`, `FoldedUnfolds` and `InOrderUnfolds` say that the recursive functions of
`SeqWalks` exist and meet their equations, `FoldedInduction` is induction along a
fold, `AscendingInduction` along the fold over a set of numbers in order, and the
others say what the walks keep, count and order. This is how
functions that recurse over sequences are reasoned about for every input, and why
the models use the walks of `SeqWalks` in place of the folds of the community
modules, which the provers cannot unfold.

Only model-checked: liveness (out of the prover's reach, as is ENABLED). Every
invariant and every action property that a run checks is stated by a theorem.

## 5. What was found

Each is a `violation` run; `findings` quotes the line that is contradicted.

* `store_put_race`: the revision is compared at load and not at save, and
  `save_project` counts from the copy's revision, not from the stored one. Two
  saves from one base give two contents the same number; an accepted put can
  overwrite a change its client never saw.
* `branch_partial_topics`: merging a run keeps only filtered labels, so another
  topic in it is invisible to a viewer who avoids that topic.
* `branch_skip_to_swap`: a baked skip that becomes a swap by preference keeps its
  own id as the target, so the segment to be avoided is shown.
* `default_profile`: the plugin never reads its `DefaultProfile`; who has no stored
  entry gets `adult`, or what stands in for it, while the player uses its
  `default_profile`.

Met while modelling, without a run of their own:

* The timeline key digests segment offsets and not lengths (SegmentServer.cs:370),
  and the stat for the key comes after the segments were resolved. A request that
  overlaps a rewrite which changes only lengths can cache a timeline with old
  lengths under the new file's key, for good. `Layout` in `HlsServing` is what
  excludes this.
* With `--wan-tags` or `--wan-segments` one replaced run turns every filter key
  into a swap, and a matching segment without filler swaps to itself: it is shown
  although it is filtered. `FilteredLabelNeverPlays` and `AvoidedTopicNeverPlays`
  leave these command lines out; `SwapShowsOwnFiller` does not.
* A swap whose target is not in the file makes the C# reader throw
  (BVFReader.cs:171-177), while plugin and player leave the segment out. An
  authored play of another segment plays that one in plugin and player, as
  BVF_SPEC.md:124 says, and the segment itself in the reader. `RuntimesAgree` says
  that these are all the differences.
* A girl of 13 to 17 whose sex is not written in lower case is `teen_f` in the player
  and `teen_m` in the plugin.
* For a signed-in user a baked `mute` or `blur` becomes a skip before the check
  that should make playback fail.
* If `Thread.start()` raises, the detection slot stays taken until the server
  restarts; `ClaimIsReleased` excepts that case by name.
* A `.bvf` that was cut short still hides the source video beside it; the player
  and `read_bvf` accept one whose last payload is cut.
* The probe checks where a swap points and not where a play does, and not that ids
  are unique: a file can be valid whose baked play of an id that nothing has is
  dropped by the player without a word (`ValidVerdictIsPlayable` says that nothing
  else is).
* The probe reads the path twice. If a second muxer is killed in between, within the
  media of the last asset, `read_bvf` accepts the cut file (it looks at block
  headers only) and the verdict is valid, although a player then drops that
  entry. `ValidFileIsNearlyWhole` says that this is the most that can be missing.
* `--verify-export` allows in total what each asset alone may differ by.
* Without `--profile` the probe takes the manifest's first profile, the player
  the adult's; both runtimes fall back to adult when a child's profile is missing.
* A window's last sample lies at its very end, and a span does not contain its
  end. With a padding that is no multiple of the scan interval, a frame judged bad
  exactly there is not labelled when a segment begins there too: `PositiveFrameHolds`
  needs `PaddingFits`, and TLC finds the film when segments are two units long,
  the padding is two and the scan interval three.
* A profane word labels only the bucket it starts in, a topic every bucket it
  overlaps.

## 6. Not modelled

Detection models, ffmpeg, Wan and Jellyfin itself are external: their results are
inputs, chosen freely. Media bytes, fMP4 box parsing, playlist text, thumbnails
and listings are left out. The web client (`app.js`) shares its state with the
page and is present only as what it sends. Several projects and several movies at
once are left out where they share nothing: each project has its directory and
each path its cache keys. The cache of Wan chunks, prompts and the choice of
fillers are left out because what a clip shows is external. `components` in
`PROJECT.json` says for every part what is left and why; `hazards` without
properties are the list for what comes next.

## 7. What is left

1. `EditorSession`: `app.js` as a client of the store: two projects, debounced and
   overlapping saves, a switch while a save is under way, reload on 409, one poll
   timer for all jobs. Properties: a revision is only ever that of the project it
   is sent for; a client's own saves do not throw away its edits; a completion
   runs once, for the job that is watched.
2. The Wan chunk cache with an interrupted run, and the fMP4 decode times with the
   width of their field.
3. `content_scan` with segments, padding and scan interval that do not fit each
   other, as a run that says which labels are then short.
