---------------------------- MODULE HlsServing ----------------------------
(* What the Jellyfin plugin does for one HLS media request, while the      *)
(* muxer may write the BVF file again: BvfHlsController.TryResolve, the    *)
(* manifest cache (BvfManifestCache.cs), the segment index, the timeline   *)
(* cache and the fragment cache (SegmentServer.cs).                        *)
(*                                                                         *)
(* SegmentServer is a singleton, so all requests share the caches.  None   *)
(* of the caches sees the file itself: they see its modification time and  *)
(* length (one stamp here), read by each cache on its own.  Opening and    *)
(* reading the file is one step; between two of them there may be a write. *)
(* A value read from the file is named by the version it came from;        *)
(* BvfMuxer.write_bvf overwrites in place, so a file that is being written *)
(* can fail to be read.  All requests are for one profile, whose segments  *)
(* differ from another's by the digest in the key.  FragmentCache models   *)
(* eviction; here a fragment may go at any moment.                         *)
EXTENDS Naturals

CONSTANTS
    Requests,    \* concurrent requests for one media part
    MaxVersion,  \* bound: how many versions of the file are written
    Layout,      \* where version v has its blocks: what the digest sees of it
    NoEntry      \* nothing cached

Versions == 1 .. MaxVersion

ASSUME MaxVersionAssumption == MaxVersion \in Nat \ {0}
ASSUME LayoutAssumption == DOMAIN Layout = Versions

\* A truncation and a complete write give every version two stamps.
Stamps == 0 .. 2 * MaxVersion

\* A timeline names the version whose index located its segments and the one
\* it was read from; a fragment names its segments, timeline and data so too.
Timeline == [index : Versions, data : Versions]
Fragment == [index : Versions, timeline : Timeline, data : Versions]

\* A timeline key: the stamp, and a digest of segment ids and offsets.
Key == [stamp : Stamps, layout : {Layout[v] : v \in Versions}]

VARIABLES
    bvf,        \* the file: version, whether wholly written, and stamp
    manifests,  \* _entries of the manifest cache, for this path
    timelines,  \* _hlsTimelines
    fragments,  \* the fragment cache's entries for the requested part
    request     \* each request in progress

vars == <<bvf, manifests, timelines, fragments, request>>

Entry == [stamp : Stamps, manifest : Versions]

Idle == [at |-> "idle", stamp |-> 0, manifest |-> 0, hit |-> FALSE,
         index |-> 0, timeline |-> NoEntry, fragment |-> NoEntry, quiet |-> FALSE]

RequestState ==
    [at : {"idle", "stat", "lookup", "load", "enter", "index", "key", "find",
           "build", "fragment_key", "fragment_find", "assemble", "done"},
     stamp : Stamps, manifest : Versions \cup {0}, hit : BOOLEAN,
     index : Versions \cup {0}, timeline : Timeline \cup {NoEntry},
     fragment : Fragment \cup {NoEntry}, quiet : BOOLEAN]

TypeOK ==
    /\ bvf \in [version : Versions, whole : BOOLEAN, stamp : Stamps]
    /\ manifests \in Entry \cup {NoEntry}
    /\ \A k \in DOMAIN timelines : k \in Key /\ timelines[k] \in Timeline
    /\ \A k \in DOMAIN fragments : k \in Key /\ fragments[k] \in Fragment
    /\ request \in [Requests -> RequestState]

Init ==
    /\ bvf = [version |-> 1, whole |-> TRUE, stamp |-> 0]
    /\ manifests = NoEntry
    /\ timelines = <<>>
    /\ fragments = <<>>
    /\ request = [r \in Requests |-> Idle]

At(r, point) == request[r].at = point

\* Request r takes the fields of s and goes on at the given point.
Go(r, point, s) == request' = [request EXCEPT ![r] = [s EXCEPT !.at = point]]

\* An exception: the controller answers 404 or the host answers 500.
Fail(r) == request' = [request EXCEPT ![r] = Idle]

\* A read of the file can fail only while the muxer is writing it.
ReadMayFail == ~bvf.whole

Put(f, k, v) == [x \in DOMAIN f \cup {k} |-> IF x = k THEN v ELSE f[x]]

-----------------------------------------------------------------------------
(* The muxer: open(path, "wb") truncates, then everything is written. *)

Disturbed == [r \in Requests |-> [request[r] EXCEPT !.quiet = FALSE]]

Truncate ==
    /\ bvf.whole
    /\ bvf.version < MaxVersion
    /\ bvf' = [version |-> bvf.version + 1, whole |-> FALSE, stamp |-> bvf.stamp + 1]
    /\ request' = Disturbed
    /\ UNCHANGED <<manifests, timelines, fragments>>

WriteRest ==
    /\ ~bvf.whole
    /\ bvf' = [bvf EXCEPT !.whole = TRUE, !.stamp = @ + 1]
    /\ request' = Disturbed
    /\ UNCHANGED <<manifests, timelines, fragments>>

-----------------------------------------------------------------------------
(* TryResolve: the manifest through its cache, the index from the file. *)

Begin(r) ==
    /\ At(r, "idle")
    /\ Go(r, "stat", [Idle EXCEPT !.quiet = TRUE])
    /\ UNCHANGED <<bvf, manifests, timelines, fragments>>

\* GetOrLoad takes the file's time and length first of all.
Stat(r) ==
    /\ At(r, "stat")
    /\ Go(r, "lookup", [request[r] EXCEPT !.stamp = bvf.stamp])
    /\ UNCHANGED <<bvf, manifests, timelines, fragments>>

\* The dictionary is not synchronised: a lookup beside another thread's store
\* may find the entry or miss it.
Lookup(r) ==
    LET current == manifests # NoEntry /\ manifests.stamp = request[r].stamp IN
    /\ At(r, "lookup")
    /\ \/ /\ current
          /\ Go(r, "index", [request[r] EXCEPT !.manifest = manifests.manifest,
                                               !.hit = TRUE])
       \/ /\ ~current \/ \E o \in Requests \ {r} : At(o, "enter")
          /\ Go(r, "load", request[r])
    /\ UNCHANGED <<bvf, manifests, timelines, fragments>>

\* Bug variant of Load: the time and length stored are those after the load.
LoadThenStat(r) ==
    /\ At(r, "load")
    /\ \/ /\ request[r].manifest = 0
          /\ Go(r, "load", [request[r] EXCEPT !.manifest = bvf.version])
       \/ /\ request[r].manifest # 0
          /\ Go(r, "enter", [request[r] EXCEPT !.stamp = bvf.stamp])
    /\ UNCHANGED <<bvf, manifests, timelines, fragments>>

Load(r) ==
    /\ At(r, "load")
    /\ \/ Go(r, "enter", [request[r] EXCEPT !.manifest = bvf.version])
       \/ ReadMayFail /\ Fail(r)
    /\ UNCHANGED <<bvf, manifests, timelines, fragments>>

\* The store into the dictionary; two of them at once may lose one or throw.
Enter(r) ==
    LET racing == \E o \in Requests \ {r} : At(o, "enter") IN
    /\ At(r, "enter")
    /\ \/ /\ manifests' = [stamp |-> request[r].stamp, manifest |-> request[r].manifest]
          /\ Go(r, "index", request[r])
       \/ /\ racing
          /\ UNCHANGED manifests
          /\ Go(r, "index", request[r]) \/ Fail(r)
    /\ UNCHANGED <<bvf, timelines, fragments>>

\* BVFReader.GetSegments is never cached; the segments of the profile come
\* from the manifest's decisions and the index's offsets and lengths.  The
\* manifest and its stamp are not used after this.
ReadIndex(r) ==
    /\ At(r, "index")
    /\ \/ Go(r, "key", [request[r] EXCEPT !.index = bvf.version, !.stamp = 0,
                                          !.manifest = 0, !.hit = FALSE])
       \/ (ReadMayFail \/ request[r].manifest # bvf.version) /\ Fail(r)
    /\ UNCHANGED <<bvf, manifests, timelines, fragments>>

-----------------------------------------------------------------------------
(* GetHlsTimeline and GetHlsMediaFragment. *)

\* Bug variant of KeyOf: the path with its time and length, without a digest.
KeyOfFile(r) == [stamp |-> request[r].stamp, layout |-> Layout[1]]

\* BuildTimelineCacheKey: the digest covers ids and offsets, not lengths.
KeyOf(r) == [stamp |-> request[r].stamp, layout |-> Layout[request[r].index]]

StatTimeline(r) ==
    /\ At(r, "key")
    /\ Go(r, "find", [request[r] EXCEPT !.stamp = bvf.stamp])
    /\ UNCHANGED <<bvf, manifests, timelines, fragments>>

\* The dictionary's lookup; entries are never removed.
FindTimeline(r) ==
    /\ At(r, "find")
    /\ IF KeyOf(r) \in DOMAIN timelines
       THEN Go(r, "fragment_key",
               [request[r] EXCEPT !.timeline = timelines[KeyOf(r)]])
       ELSE Go(r, "build", request[r])
    /\ UNCHANGED <<bvf, manifests, timelines, fragments>>

\* BuildHlsTimeline reads every payload where the resolved segments say it is.
Build(r) ==
    /\ At(r, "build")
    /\ request[r].timeline = NoEntry
    /\ \/ Go(r, "build",
             [request[r] EXCEPT !.timeline =
                [index |-> request[r].index, data |-> bvf.version]])
       \/ (ReadMayFail \/ request[r].index # bvf.version) /\ Fail(r)
    /\ UNCHANGED <<bvf, manifests, timelines, fragments>>

\* ConcurrentDictionary.GetOrAdd: the first value added for the key wins.
AddTimeline(r) ==
    LET k == KeyOf(r) IN
    /\ At(r, "build")
    /\ request[r].timeline # NoEntry
    /\ timelines' = IF k \in DOMAIN timelines THEN timelines
                    ELSE Put(timelines, k, request[r].timeline)
    /\ Go(r, "fragment_key", [request[r] EXCEPT !.timeline = timelines'[k]])
    /\ UNCHANGED <<bvf, manifests, fragments>>

\* GetHlsMediaFragment asks for the file's time and length once more.
StatFragment(r) ==
    /\ At(r, "fragment_key")
    /\ Go(r, "fragment_find", [request[r] EXCEPT !.stamp = bvf.stamp])
    /\ UNCHANGED <<bvf, manifests, timelines, fragments>>

FindFragment(r) ==
    /\ At(r, "fragment_find")
    /\ IF KeyOf(r) \in DOMAIN fragments
       THEN Go(r, "done", [request[r] EXCEPT !.fragment = fragments[KeyOf(r)]])
       ELSE Go(r, "assemble", request[r])
    /\ UNCHANGED <<bvf, manifests, timelines, fragments>>

\* BvfHlsMediaAssembler.Assemble reads the payload again.
Assemble(r) ==
    /\ At(r, "assemble")
    /\ request[r].fragment = NoEntry
    /\ \/ Go(r, "assemble",
             [request[r] EXCEPT !.fragment =
                [index |-> request[r].index, timeline |-> request[r].timeline,
                 data |-> bvf.version]])
       \/ /\ \/ ReadMayFail
             \/ request[r].index # bvf.version
             \/ request[r].timeline.data # bvf.version
          /\ Fail(r)
    /\ UNCHANGED <<bvf, manifests, timelines, fragments>>

AddFragment(r) ==
    LET k == KeyOf(r) IN
    /\ At(r, "assemble")
    /\ request[r].fragment # NoEntry
    /\ fragments' = IF k \in DOMAIN fragments THEN fragments
                    ELSE Put(fragments, k, request[r].fragment)
    /\ Go(r, "done", [request[r] EXCEPT !.fragment = fragments'[k]])
    /\ UNCHANGED <<bvf, manifests, timelines>>

Answer(r) ==
    /\ At(r, "done")
    /\ request' = [request EXCEPT ![r] = Idle]
    /\ UNCHANGED <<bvf, manifests, timelines, fragments>>

\* Bug variant of EvictFragment: the entry is emptied and its key stays.
EvictFragmentInPlace ==
    /\ \E k \in DOMAIN fragments : fragments' = [fragments EXCEPT ![k] = NoEntry]
    /\ UNCHANGED <<bvf, manifests, timelines, request>>

EvictFragment ==
    /\ \E k \in DOMAIN fragments :
         fragments' = [x \in DOMAIN fragments \ {k} |-> fragments[x]]
    /\ UNCHANGED <<bvf, manifests, timelines, request>>

\* Three Clear calls with no lock around them.  Any number of callers may be
\* at work, each held up before any of its three steps since the caches were
\* new, so each cache can be emptied at any moment, in any order.
ClearCache ==
    /\ \/ manifests' = NoEntry /\ UNCHANGED <<timelines, fragments>>
       \/ timelines' = <<>> /\ UNCHANGED <<manifests, fragments>>
       \/ fragments' = <<>> /\ UNCHANGED <<manifests, timelines>>
    /\ UNCHANGED <<bvf, request>>

RequestStep(r) ==
    \/ Begin(r)
    \/ Stat(r)
    \/ Lookup(r)
    \/ Load(r)
    \/ Enter(r)
    \/ ReadIndex(r)
    \/ StatTimeline(r)
    \/ FindTimeline(r)
    \/ Build(r)
    \/ AddTimeline(r)
    \/ StatFragment(r)
    \/ FindFragment(r)
    \/ Assemble(r)
    \/ AddFragment(r)
    \/ Answer(r)

Next ==
    \/ Truncate
    \/ WriteRest
    \/ \E r \in Requests : RequestStep(r)
    \/ EvictFragment
    \/ ClearCache

Spec == Init /\ [][Next]_vars

-----------------------------------------------------------------------------
(* Properties. *)

\* A manifest served from the cache while the file stays as it is, is the
\* manifest of that file, although the file may have been replaced between
\* the stat and the load of the request that stored it: the stamp is taken
\* before the load, so an entry can carry a stamp that is too old and never
\* one that is too new (BvfManifestCache.cs L20-39).
ManifestHitIsCurrent ==
    \A r \in Requests :
        request[r].hit /\ request[r].quiet => request[r].manifest = bvf.version

\* A request during which nobody writes the file gets a timeline of the
\* segments in this file, and a part cut from this file with such a
\* timeline, whatever earlier requests that overlapped a write left in the
\* shared caches (SegmentServer.cs L309-348).
QuietRequestIsCoherent ==
    \A r \in Requests :
        At(r, "done") /\ request[r].quiet =>
            LET now == [index |-> bvf.version, data |-> bvf.version]
            IN  /\ request[r].timeline = now
                /\ request[r].fragment = [index |-> bvf.version, timeline |-> now,
                                          data |-> bvf.version]

=============================================================================
