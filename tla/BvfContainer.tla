---------------------------- MODULE BvfContainer ----------------------------
(* One .bvf file beside its source video, while a muxer rewrites it in     *)
(* place: BvfMuxer.write_bvf, which may be killed; the probe, which reads  *)
(* the path twice; the player, which reads it once; and the library scan   *)
(* of the plugin, which asks whether the file exists and later what it is. *)
EXTENDS BvfLayout, ViewerProfile

CONSTANTS
    Packages,     \* what a muxer may be asked to write
    Users,        \* whom the player may be started for
    MaxWrites     \* bound: number of muxer runs

\* write_bvf makes the assets and the manifest of one list of segments.
ASSUME PackagesAssumption ==
    \A package \in Packages :
        /\ package.assets \in Seq(Asset) /\ package.profiles \in Seq(Profiles)
        /\ package.segments \in Seq(ManifestSegment)
        /\ Len(package.segments) = Len(package.assets)
        /\ \A i \in DOMAIN package.assets : package.segments[i].id = package.assets[i].id
ASSUME UsersAssumption ==
    \A user \in Users : user.age \in Int \cup {None} /\ user.sex \in Sexes
ASSUME NoneAssumption == \A package \in Packages : Bytes(package) # None

VARIABLES
    disk,     \* the bytes at the path, or Absent
    mux,      \* the running muxer
    whole,    \* history: the package that was last written to its end, or None
    tool,     \* the tool that runs, or ran last: probe, player or library scan
    exported  \* the file the player exported last

vars == <<disk, mux, whole, tool, exported>>

Absent == None

(* The tools only read the file, so what two of them see at once is what   *)
(* each sees alone: one at a time is enough. They differ in their fields.  *)
NoTool == [kind |-> "none", pc |-> "done"]
Free == tool.pc = "done"
Is(kind, pc) == tool.kind = kind /\ tool.pc = pc

Init ==
    /\ disk = Absent
    /\ mux = [pc |-> "idle", package |-> None, runs |-> 0]
    /\ whole = None
    /\ tool = NoTool
    /\ exported = [of |-> None, profile |-> None, duration |-> 0]

-----------------------------------------------------------------------------
(* The muxer. *)

\* Segments, manifest and payloads are made in memory; a missing media file,
\* an id that is too long or an unknown action raises here.
MuxCollect(package) ==
    /\ mux.pc = "idle"
    /\ mux.runs < MaxWrites
    /\ mux' = [pc |-> "collected", package |-> package, runs |-> mux.runs + 1]
    /\ UNCHANGED <<disk, whole, tool, exported>>

MuxEnds == mux' = [mux EXCEPT !.pc = "idle", !.package = None]

MuxRaises ==
    /\ mux.pc = "collected"
    /\ MuxEnds
    /\ UNCHANGED <<disk, whole, tool, exported>>

\* open(output_path, "wb").
MuxOpen ==
    /\ mux.pc = "collected"
    /\ mux' = [mux EXCEPT !.pc = "writing"]
    /\ disk' = <<>>
    /\ whole' = None
    /\ tool' = IF tool.kind = "scan" THEN [tool EXCEPT !.quiet = FALSE] ELSE tool
    /\ UNCHANGED exported

\* The writes reach the file in order, and any number of bytes at a time.
MuxWrite ==
    /\ mux.pc = "writing"
    /\ LET bytes == Bytes(mux.package)
       IN  \E n \in Len(disk) + 1 .. Len(bytes) :
             /\ disk' = SubSeq(bytes, 1, n)
             /\ IF n = Len(bytes) THEN MuxEnds /\ whole' = mux.package
                ELSE UNCHANGED <<mux, whole>>
    /\ UNCHANGED <<tool, exported>>

\* The process dies; what it had not written is lost.
MuxKilled ==
    /\ mux.pc = "writing"
    /\ MuxEnds
    /\ UNCHANGED <<disk, whole, tool, exported>>

Muxer ==
    \/ \E package \in Packages : MuxCollect(package)
    \/ MuxRaises \/ MuxOpen \/ MuxWrite \/ MuxKilled

-----------------------------------------------------------------------------
(* The probe. *)

\* validate_bvf up to path.read_bytes().
ProbeRead(profile) ==
    /\ Free
    /\ disk # Absent
    /\ tool' = [kind |-> "probe", pc |-> "read", raw |-> disk, profile |-> profile]
    /\ UNCHANGED <<disk, mux, whole, exported>>

\* The rest: read_bvf opens the path again, then everything is checked, and
\* for a valid file an export is compared with the resolved timeline.
ProbeCheck ==
    /\ Is("probe", "read")
    /\ LET raw == tool.raw
           issues == ProbeIssues(raw, disk, tool.profile)
           manifest == ManifestIn(disk)
           profile == ProbedProfile(manifest, tool.profile)
           index == Entries(raw, ActualIndexCount(raw))
       IN  tool' = IF issues # {} THEN [kind |-> "probe", pc |-> "done", valid |-> FALSE]
                   ELSE [kind |-> "probe", pc |-> "done", valid |-> TRUE, profile |-> profile,
                         raw |-> raw, again |-> disk,
                         expected |-> ProbedDuration(index, manifest, profile)]
    /\ UNCHANGED <<disk, mux, whole, exported>>

-----------------------------------------------------------------------------
(* The player. *)

\* BVFPlayer.__init__; a file it cannot parse ends the program.
PlayerOpen(user) ==
    /\ Free
    /\ disk # Absent
    /\ tool' = IF ~PlayerAccepts(disk) THEN NoTool
               ELSE [kind |-> "player", pc |-> "open", raw |-> disk, user |-> user,
                     profile |-> PlayerResolveProfile(user, ManifestIn(disk).profiles)]
    /\ UNCHANGED <<disk, mux, whole, exported>>

Played == PlayerSequence(PlayerIndex(tool.raw), ManifestIn(tool.raw), tool.profile)

\* The file that these bytes are all of, for a later comparison.
CompleteFile(raw) ==
    IF \E package \in Packages : raw = Bytes(package) THEN raw ELSE None

\* export: an unsupported action raises before anything is written.
PlayerExport ==
    /\ Is("player", "open")
    /\ tool' = NoTool
    /\ LET played == Played
           media == Extracted(tool.raw, PlayerIndex(tool.raw), played.entries)
       IN  IF played.failed THEN UNCHANGED exported
           ELSE exported' = [of |-> CompleteFile(tool.raw), profile |-> tool.profile,
                             duration |-> Total([i \in DOMAIN media |->
                                                     media[i][1].val.media.duration])]
    /\ UNCHANGED <<disk, mux, whole>>

PlayedDurations ==
    LET index == PlayerIndex(tool.raw)
        entries == Played.entries
    IN  [i \in DOMAIN entries |-> IndexedDuration(index, entries[i].target)]

\* seek to a position of the profile's timeline, or past its end.
PlayerSeek ==
    /\ Is("player", "open")
    /\ ~Played.failed
    /\ LET durations == PlayedDurations
       IN  \E position \in 0 .. Total(durations) :
             tool' = [kind |-> "seek", pc |-> "done", durations |-> durations,
                      position |-> position, entry |-> SeekEntry(durations, position)]
    /\ UNCHANGED <<disk, mux, whole, exported>>

-----------------------------------------------------------------------------
(* The library scan: the ignore rule decides about the source video, then  *)
(* the resolver about the .bvf file.                                       *)

\* Bug variant of ShouldIgnore: nobody asks whether the sibling exists.
ShouldIgnoreAlways ==
    /\ Free
    /\ tool' = [kind |-> "scan", pc |-> "filtered", hidden |-> TRUE,
                quiet |-> mux.pc # "writing" /\ (disk = Absent \/ whole # None)]
    /\ UNCHANGED <<disk, mux, whole, exported>>

\* PreferBvfSiblingIgnoreRule.ShouldIgnore. The scan is quiet when no write
\* is under way until it is done, and the last one was not cut short.
ShouldIgnore ==
    /\ Free
    /\ tool' = [kind |-> "scan", pc |-> "filtered", hidden |-> disk # Absent,
                quiet |-> mux.pc # "writing" /\ (disk = Absent \/ whole # None)]
    /\ UNCHANGED <<disk, mux, whole, exported>>

ResolveMultiple ==
    /\ Is("scan", "filtered")
    /\ tool' = [kind |-> "scan", pc |-> "done", hidden |-> tool.hidden, quiet |-> tool.quiet,
                item |-> disk # Absent /\ LooksLikeBvf(disk)]
    /\ UNCHANGED <<disk, mux, whole, exported>>

Next ==
    \/ Muxer
    \/ \E profile \in Profiles \cup {None} : ProbeRead(profile)
    \/ ProbeCheck
    \/ \E user \in Users : PlayerOpen(user)
    \/ PlayerExport \/ PlayerSeek
    \/ ShouldIgnore \/ ResolveMultiple

Spec == Init /\ [][Next]_vars

-----------------------------------------------------------------------------
(* Properties. *)

\* What a muxer wrote to its end, every reader accepts, and gets back: the
\* manifest, the index, and each asset's media cut out at the right place. A
\* later muxer that fails before it opens the file changes nothing of this.
CompletedFileReadsBack ==
    whole # None =>
        /\ PlayerAccepts(disk) /\ ReadBvfAccepts(disk) /\ BVFReaderAccepts(disk)
        /\ PayloadIssues(disk, disk) = {}
        /\ ManifestIn(disk) = Manifest(whole)
        /\ LET index == PlayerIndex(disk)
           IN  /\ Len(index) = Len(whole.assets)
               /\ \A i \in DOMAIN index :
                    LET asset == whole.assets[i]
                        media == Extract(disk, index, asset.id)
                    IN  /\ index[i].id = asset.id
                        /\ Len(media) = asset.media.size
                        /\ \A k \in DOMAIN media : media[k].val.id = asset.id /\ media[k].at = k

ProbedValid == Is("probe", "done") /\ tool.valid

\* What the probe calls valid, it read whole, and what it found when it read
\* the path again lacks at most media data of the last asset: a muxer that is
\* killed between the two reads leaves no less to a valid verdict. It may leave
\* the last asset's media cut, since read_bvf looks at block headers only.
ValidFileIsNearlyWhole ==
    ProbedValid =>
        /\ \E one \in Packages : tool.raw = Bytes(one)
        /\ \E two \in Packages :
              LET bytes == Bytes(two)
                  lacks == Len(bytes) - Len(tool.again)
              IN  /\ lacks >= 0 /\ tool.again = SubSeq(bytes, 1, Len(tool.again))
                  /\ lacks > 0 => /\ two.assets # <<>>
                                  /\ lacks <= two.assets[Len(two.assets)].media.size

\* "Valid" means that the player opens the file the probe found last and plays
\* it for every profile of the manifest, with no unsupported action; and all
\* that it leaves out of what a profile shows are plays of an id that nothing
\* has, at which the probe does not look. If both reads found the same file,
\* the player also gets the media of every entry.
ValidVerdictIsPlayable ==
    ProbedValid =>
        LET raw == tool.again
            index == PlayerIndex(raw)
            manifest == ManifestIn(raw)
        IN  /\ PlayerAccepts(raw)
            /\ \A p \in Range(manifest.profiles) :
                  LET played == PlayerSequence(index, manifest, p)
                      shown == Range(Shown(manifest.segments, p))
                      sources == {entry.source : entry \in Range(played.entries)}
                  IN  /\ ~played.failed
                      /\ \A s \in shown :
                            \/ s.id \in sources
                            \/ /\ Baked(s, p).action = "play"
                               /\ Baked(s, p).target \notin IdsOf(index)
                      /\ raw = tool.raw =>
                            Len(Extracted(raw, index, played.entries)) = Len(played.entries)

\* What the player exports of a valid file for a profile has the duration the
\* probe expects of that profile, within the tolerance of each asset.
ExportMatchesProbe ==
    /\ ProbedValid /\ tool.raw = tool.again
    /\ exported.of = tool.raw /\ exported.profile = tool.profile
    => Distance(exported.duration, tool.expected)
         <= Tolerance * Len(PlayerSequence(PlayerIndex(tool.raw), ManifestIn(tool.again),
                                           tool.profile).entries)

\* A seek lands in the entry that shows the position, across entries without
\* any duration, and past the end in the last one.
SeekLandsOnPosition ==
    tool.kind = "seek" =>
        LET before(i) == Total(SubSeq(tool.durations, 1, i))
            n == Len(tool.durations)
        IN  IF tool.position < before(n)
            THEN /\ before(tool.entry - 1) <= tool.position
                 /\ tool.position < before(tool.entry)
            ELSE tool.entry = n

\* A viewer gets the same profile of a movie in the player and in the plugin,
\* for every manifest that names one, but for two kinds of viewer: who is left
\* to the default, which only the player asks for, and a girl in her teens
\* whose sex is not in lower case, which only the player folds. For these the
\* player selects as the plugin would if it did the same.
RuntimesChooseSameProfile ==
    tool.kind = "player" =>
        LET user == tool.user
            available == ManifestIn(tool.raw).profiles
            automatic == user.override = None
            defaulted == automatic /\ user.age = None /\ user.default # None
            folded == automatic /\ user.age # None /\ user.age \in 13 .. 17
                        /\ user.sex # Female /\ Lower(user.sex) = Female
        IN  available # <<>> =>
                tool.profile =
                    CASE defaulted -> SelectAvailableProfile(available, user.default)
                      [] folded -> SelectAvailableProfile(available, "teen_f")
                      [] OTHER -> ServerResolveProfile(user, available)

\* The plugin gives a viewer with neither override nor birthday the profile of
\* its DefaultProfile setting (the summary of that setting, and step 3 of the
\* resolution order in PROJECT_SPEC.md).
DefaultProfileIsUsed ==
    tool.kind = "player" /\ tool.user.override = None /\ tool.user.age = None
    /\ tool.user.default # None =>
        LET available == ManifestIn(tool.raw).profiles
        IN  ServerResolveProfile(tool.user, available)
              = SelectAvailableProfile(available, tool.user.default)

\* A scan that no write overlaps, of a file that is absent or complete, lists
\* the movie once: the source video, or the .bvf in its place.
QuietScanListsMovieOnce ==
    Is("scan", "done") /\ tool.quiet => (tool.hidden <=> tool.item)

=============================================================================
