------------------------------ MODULE BvfLayout ------------------------------
(* The bytes of a .bvf file: what BvfMuxer.write_bvf lays out, and what    *)
(* its readers make of any bytes they find: BvfMuxer.read_bvf, the probe   *)
(* (tools/bvf_probe.py), the player (tools/bvf_player.py) and BVFReader.   *)
(*                                                                         *)
(* A file is a sequence of cells. Each cell knows the value it encodes and *)
(* its place in the encoding, so that a reader gets a value back only from *)
(* a slice that holds all of it and nothing else. Sizes are constants; the *)
(* instances use a few cells for what takes 64, 40 and 32 bytes.           *)
EXTENDS Playback, FiniteSetsExt

CONSTANTS
    FILE_HEADER_SIZE,
    INDEX_ENTRY_SIZE,
    ASSET_BLOCK_HEADER_SIZE,
    ManifestSize,    \* cells of a compressed manifest
    Tolerance        \* MEDIA_DURATION_TOLERANCE_SECONDS, in ticks

ASSUME SizesAssumption ==
    /\ {FILE_HEADER_SIZE, INDEX_ENTRY_SIZE, ASSET_BLOCK_HEADER_SIZE, ManifestSize} \subseteq Nat \ {0}
    /\ Tolerance \in Nat

(* What write_bvf is given: the assets in order, the manifest segments and *)
(* the names of the profiles in order.  An asset has its id, the duration   *)
(* the index will state, and its media: a number of cells with the stream  *)
(* facts that ffprobe would report.                                        *)
Media == [size : Nat, duration : Nat, video : BOOLEAN, keyframe : BOOLEAN]
Asset == [id : Ids, duration : Nat, media : Media]
ManifestSegment ==
    [id : Ids, labels : SUBSET Topics, filler : BOOLEAN, target : Ids \cup {None},
     profiles : UNION {[P -> ProfileAction] : P \in SUBSET Profiles}]

Encode(v, n) == [k \in 1 .. n |-> [val |-> v, at |-> k]]

\* raw[offset : offset + n]: as much of it as there is.
Slice(raw, offset, n) == SubSeq(raw, offset + 1, Min({offset + n, Len(raw)}))

\* _read_exact, unpack, the magic numbers and the decompressor: the slice is
\* one whole encoding of something of this kind.
Holds(raw, offset, n, kind) ==
    LET cells == Slice(raw, offset, n)
    IN  /\ Len(cells) = n
        /\ cells[1].val.kind = kind
        /\ cells = Encode(cells[1].val, n)

At(raw, offset) == raw[offset + 1].val

-----------------------------------------------------------------------------
(* write_bvf *)

BlockLength(asset) == ASSET_BLOCK_HEADER_SIZE + asset.media.size

ManifestOffset(package) ==
    FILE_HEADER_SIZE + Len(package.assets) * INDEX_ENTRY_SIZE

\* Bug variant of BlockOffsets: the running offset counts only the payloads.
PayloadOffsets(package) ==
    LET lengths == [i \in DOMAIN package.assets |-> package.assets[i].media.size]
    IN  [i \in DOMAIN package.assets |->
            ManifestOffset(package) + ManifestSize + Total(SubSeq(lengths, 1, i - 1))]

BlockOffsets(package) ==
    LET lengths == [i \in DOMAIN package.assets |-> BlockLength(package.assets[i])]
    IN  [i \in DOMAIN package.assets |->
            ManifestOffset(package) + ManifestSize + Total(SubSeq(lengths, 1, i - 1))]

Header(package) ==
    [kind |-> "header", indexOffset |-> FILE_HEADER_SIZE,
     indexLength |-> Len(package.assets) * INDEX_ENTRY_SIZE,
     manifestOffset |-> ManifestOffset(package), manifestLength |-> ManifestSize,
     count |-> Len(package.assets)]

IndexEntry(package, i) ==
    [kind |-> "entry", id |-> package.assets[i].id, offset |-> BlockOffsets(package)[i],
     length |-> BlockLength(package.assets[i]), duration |-> package.assets[i].duration]

Manifest(package) ==
    [kind |-> "manifest", segments |-> package.segments, profiles |-> package.profiles]

\* The asset block: its header with the id, then the media as it is.
Block(asset) ==
    Encode([kind |-> "block", id |-> asset.id], ASSET_BLOCK_HEADER_SIZE)
        \o Encode([kind |-> "media", id |-> asset.id, media |-> asset.media], asset.media.size)

Bytes(package) ==
    Encode(Header(package), FILE_HEADER_SIZE)
        \o Flat([i \in DOMAIN package.assets |->
                     Encode(IndexEntry(package, i), INDEX_ENTRY_SIZE)])
        \o Encode(Manifest(package), ManifestSize)
        \o Flat([i \in DOMAIN package.assets |-> Block(package.assets[i])])

-----------------------------------------------------------------------------
(* What all readers share. *)

InFile(raw, offset, length) == offset + length <= Len(raw)

EntryOffset(raw, i) == At(raw, 0).indexOffset + (i - 1) * INDEX_ENTRY_SIZE

\* The entries of the index, up to n or to the first that cannot be parsed.
Entries(raw, n) ==
    LET good == {k \in 0 .. n : \A i \in 1 .. k :
                     Holds(raw, EntryOffset(raw, i), INDEX_ENTRY_SIZE, "entry")}
    IN  [i \in 1 .. Max(good) |-> At(raw, EntryOffset(raw, i))]

HoldsManifest(raw) ==
    LET h == At(raw, 0) IN Holds(raw, h.manifestOffset, h.manifestLength, "manifest")

ManifestIn(raw) == At(raw, At(raw, 0).manifestOffset)

HoldsBlock(raw, e) == Holds(raw, e.offset, ASSET_BLOCK_HEADER_SIZE, "block")

IdsOf(index) == {index[i].id : i \in DOMAIN index}

\* BvfMuxer.read_bvf: does not raise.
ReadBvfAccepts(raw) ==
    /\ Len(raw) >= FILE_HEADER_SIZE
    /\ LET h == At(raw, 0)
           index == Entries(raw, h.count)
       IN  /\ InFile(raw, h.indexOffset, h.indexLength)
           /\ Len(index) = h.count
           /\ InFile(raw, h.manifestOffset, h.manifestLength)
           /\ HoldsManifest(raw)
           /\ \A i \in DOMAIN index : HoldsBlock(raw, index[i])

\* BVFReader.ReadDocument with GetSegments' payload hashes: does not throw.
BVFReaderAccepts(raw) ==
    /\ ReadBvfAccepts(raw)
    /\ LET h == At(raw, 0)
           index == Entries(raw, h.count)
       IN  /\ h.indexLength = h.count * INDEX_ENTRY_SIZE
           /\ \A i \in DOMAIN index :
                /\ At(raw, index[i].offset).id = index[i].id
                /\ InFile(raw, index[i].offset, index[i].length)

\* BVFReader.LooksLikeBvf: the magic is at the front of the header.
LooksLikeBvf(raw) == Len(raw) >= 1 /\ raw[1].val.kind = "header"

-----------------------------------------------------------------------------
(* The probe. Its issues are named by what they are about. *)

\* The number of entries between the index and the manifest.
ActualIndexCount(raw) ==
    LET h == At(raw, 0) IN (h.manifestOffset - h.indexOffset) \div INDEX_ENTRY_SIZE

\* Bug variant of EntryIssues: only the start of a block is looked for.
EntryIssuesNoLength(raw, e) ==
    IF e.offset + ASSET_BLOCK_HEADER_SIZE > Len(raw) THEN {"data_offset outside the file"}
    ELSE IF ~HoldsBlock(raw, e) THEN {"not a BVA block"} ELSE {}

EntryIssues(raw, e) ==
    IF e.offset + ASSET_BLOCK_HEADER_SIZE > Len(raw) THEN {"data_offset outside the file"}
    ELSE IF e.length < ASSET_BLOCK_HEADER_SIZE \/ ~InFile(raw, e.offset, e.length)
         THEN {"data_length outside the file"}
    ELSE IF ~HoldsBlock(raw, e) THEN {"not a BVA block"}
    ELSE IF At(raw, e.offset).id # e.id THEN {"block segment_id"} ELSE {}

\* _read_probe_payload reads the path twice: raw first, and read_bvf later,
\* which finds what is there by then (again).
PayloadIssues(raw, again) ==
    IF Len(raw) < FILE_HEADER_SIZE THEN {"header truncated"}
    ELSE LET h == At(raw, 0)
             n == ActualIndexCount(raw)
             index == Entries(raw, n)
         IN  (UNION {EntryIssues(raw, index[i]) : i \in DOMAIN index})
               \cup {x \in {"segment_count"} : h.count # n}
               \cup {x \in {"index entry"} : Len(index) < n}
               \cup {x \in {"manifest outside the file"} :
                         ~InFile(raw, h.manifestOffset, h.manifestLength)}
               \cup {x \in {"manifest"} : ~ReadBvfAccepts(again)}

\* Bug variant of ActionIssues: the target of a swap is not looked up.
ActionIssuesNoTarget(action, segmentIds) ==
    {x \in {"unsupported action"} : action.action \notin RuntimeSupportedActions}

ActionIssues(action, segmentIds) ==
    IF action.action \notin RuntimeSupportedActions THEN {"unsupported action"}
    ELSE IF action.action = "swap" /\ action.target \notin segmentIds
         THEN {"swap target"} ELSE {}

\* _validate_parsed_bvf. Every manifest segment is its own media asset.
ParsedIssues(index, manifest, profile) ==
    LET segments == manifest.segments
        segmentIds == {segments[i].id : i \in DOMAIN segments}
    IN  IF segments = <<>> THEN {"no segments"}
        ELSE {x \in {"segment count"} : Len(segments) # Len(index)}
               \cup {x \in {"profile"} : profile # None /\ profile \notin Range(manifest.profiles)}
               \cup {x \in {"index segment_id"} : ~(IdsOf(index) \subseteq segmentIds)}
               \cup UNION {UNION {ActionIssues(s.profiles[p], segmentIds) : p \in DOMAIN s.profiles} :
                               s \in Range(segments)}

Distance(a, b) == IF a < b THEN b - a ELSE a - b

\* _probe_media_assets: what ffprobe says of each payload, cut out of raw. It
\* fails on an empty one.
MediaIssues(raw, index) ==
    LET payload(e) == Slice(raw, e.offset + ASSET_BLOCK_HEADER_SIZE,
                            e.length - ASSET_BLOCK_HEADER_SIZE)
        issues(e) ==
            IF payload(e) = <<>> THEN {"ffprobe"}
            ELSE LET media == payload(e)[1].val.media
                     matches == Distance(media.duration, e.duration) <= Tolerance
                 IN  {x \in {"no video"} : ~media.video}
                       \cup {x \in {"keyframe"} : media.video /\ ~(media.keyframe /\ matches)}
                       \cup {x \in {"duration mismatch"} : ~matches}
    IN  UNION {issues(index[i]) : i \in DOMAIN index}

\* validate_bvf and _load_probe_result: the later checks run only when the
\* payload had no issue.
ProbeIssues(raw, again, profile) ==
    LET structural == PayloadIssues(raw, again)
        index == Entries(raw, ActualIndexCount(raw))
    IN  IF structural # {} THEN structural
        ELSE ParsedIssues(index, ManifestIn(again), profile) \cup MediaIssues(raw, index)

\* The duration the index states for an id; a later entry hides an earlier one.
IndexedDuration(index, id) ==
    LET found == {i \in DOMAIN index : index[i].id = id}
    IN  IF found = {} THEN 0 ELSE index[Max(found)].duration

\* The narrative segments that a profile does not skip.
Shown(segments, profile) ==
    Where(segments, {s \in Range(segments) : ~s.filler /\ Baked(s, profile).action # "skip"})

\* Bug variant of ProbedDuration: a swapped segment keeps its own duration.
ProbedOwnDuration(index, manifest, profile) ==
    LET segments == Shown(manifest.segments, profile)
    IN  Total([i \in DOMAIN segments |-> IndexedDuration(index, segments[i].id)])

\* _resolve_profile_segments: the duration an export of the profile should have.
ProbedDuration(index, manifest, profile) ==
    LET segments == Shown(manifest.segments, profile)
    IN  Total([i \in DOMAIN segments |->
                   IndexedDuration(index, Baked(segments[i], profile).target)])

\* Without --profile the probe takes the manifest's first one.
ProbedProfile(manifest, profile) == IF profile = None THEN Head(manifest.profiles) ELSE profile

-----------------------------------------------------------------------------
(* The player. It parses and plays one copy of the bytes. *)

\* __init__ raises for a short header, a short index or a broken manifest.
PlayerAccepts(raw) ==
    /\ Len(raw) >= FILE_HEADER_SIZE
    /\ Len(Entries(raw, At(raw, 0).count)) = At(raw, 0).count
    /\ HoldsManifest(raw)

PlayerIndex(raw) == Entries(raw, At(raw, 0).count)

\* resolve_playback_sequence.
PlayerSequence(index, manifest, profile) ==
    Playlist(manifest.segments,
             [s \in Range(manifest.segments) |-> Player(s, IdsOf(index), profile)])

\* extract_segment: the media cells, or none when it returns False. A block
\* that the file cuts short is extracted as far as it goes.
Extract(raw, index, id) ==
    LET found == {i \in DOMAIN index : index[i].id = id}
        e == index[Min(found)]
    IN  IF found = {} \/ ~HoldsBlock(raw, e) THEN <<>>
        ELSE Slice(raw, e.offset + ASSET_BLOCK_HEADER_SIZE, e.length - ASSET_BLOCK_HEADER_SIZE)

\* The media that export and play hand to ffmpeg, in order; what cannot be
\* extracted is left out.
Extracted(raw, index, entries) ==
    LET media == [i \in DOMAIN entries |-> Extract(raw, index, entries[i].target)]
    IN  Where(media, Range(media) \ {<<>>})

\* Bug variant of SeekEntry: the end of a segment still belongs to it.
SeekEntryInclusive(durations, position) ==
    LET hits == {i \in DOMAIN durations : Total(SubSeq(durations, 1, i)) >= position}
    IN  IF hits = {} THEN Len(durations) ELSE Min(hits)

\* seek: the first entry that ends after the position, or else the last; 0
\* when there is nothing to seek in.
SeekEntry(durations, position) ==
    LET hits == {i \in DOMAIN durations : Total(SubSeq(durations, 1, i)) > position}
    IN  IF hits = {} THEN Len(durations) ELSE Min(hits)

=============================================================================
