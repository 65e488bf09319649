--------------------------- MODULE BranchPipeline ---------------------------
(* From a labelled movie to what a viewer is shown: the analyzer decides   *)
(* what to replace (Baking), the muxer bakes the decisions into a manifest *)
(* (Baking), and a runtime resolves the manifest for a viewer (Playback).  *)
(* A movie comes from the analyzer, or from segments and filters that      *)
(* another authoring tool hands to the muxer, which checks neither whether *)
(* a target is in the file nor what an author's own profiles point at.     *)
EXTENDS Baking

CONSTANTS
    NumScenes,  \* buckets of the movie
    Options,    \* the analyzer command lines considered
    Viewers,    \* who asks, and what they want avoided
    Authored,   \* segment lists of other authoring tools
    Filters     \* their profile filters: [Profiles -> [keys -> Actions]]

SceneIds == 1 .. NumScenes

ASSUME NumScenesAssumption == NumScenes \in Nat
ASSUME NoneAssumption == None \notin Ids /\ None \notin Options
ASSUME FillersAssumption == Fillers \in [SceneIds -> Ids \ SceneIds] /\ IsInjective(Fillers)
ASSUME SceneIdsAssumption == SceneIds \subseteq Ids
ASSUME DefaultKeysAssumption == DefaultKeys \in [Profiles -> SUBSET Topics]

OptionType ==
    [mode : {"skip", "swap"}, filterTopics : SUBSET Topics, wanTags : SUBSET Topics,
     wanSegments : SUBSET SceneIds, dryRun : BOOLEAN]
ViewerType ==
    [signedIn : BOOLEAN, avoided : SUBSET Topics, hitAction : {"skip", "swap"},
     profile : Profiles]

\* Ids are not shared in a file; the muxer leaves that to its caller.
ASSUME AuthoredAssumption ==
    \A sc \in Authored : sc \in Seq(SceneType) /\ \A i, j \in DOMAIN sc :
                                                    sc[i].id = sc[j].id => i = j
ASSUME OptionsAssumption == Options \subseteq OptionType
ASSUME ViewersAssumption == Viewers \subseteq ViewerType

\* The command lines that make fillers for all that they filter.
UniformOptions ==
    {o \in OptionType : o.mode = "swap" /\ ~o.dryRun =>
                            o.wanTags = {} /\ o.wanSegments = {}}

\* Those of them that filter all topics, if they make fillers.
ThoroughOptions ==
    {o \in UniformOptions : o.mode = "swap" /\ ~o.dryRun =>
                               o.filterTopics \in {{}, Topics}}

VARIABLES
    stage,     \* how far the movie has come
    options,   \* the analyzer's options (None: authored by another tool)
    scenes,    \* segments before the muxer
    filters,   \* profile filters, as passed to the muxer
    manifest,  \* manifest segments in the file
    viewer,    \* whose request is resolved
    shown      \* the playlist the server makes for it

vars == <<stage, options, scenes, filters, manifest, viewer, shown>>

Nothing == [failed |-> FALSE, entries |-> <<>>]

Segments == Range(manifest)
Assets == {s.id : s \in Segments}

Blank ==
    /\ manifest = <<>>
    /\ viewer = None
    /\ shown = Nothing

AnalyzedInit ==
    /\ stage = "labelled"
    /\ options \in Options
    /\ \E labels \in [SceneIds -> SUBSET Topics] :
         scenes = [i \in SceneIds |-> Scene(i, labels[i])]
    /\ filters = <<>>
    /\ Blank

\* An authoring tool gives the muxer its own segments and filters.
AuthoredInit ==
    /\ stage = "replaced"
    /\ options = None
    /\ scenes \in Authored
    /\ filters \in Filters
    /\ Blank

Init == AnalyzedInit \/ AuthoredInit

Mark ==
    /\ stage = "labelled"
    /\ stage' = "marked"
    /\ scenes' = WithReplaceMode(scenes, options)
    /\ UNCHANGED <<options, filters, manifest, viewer, shown>>

Replace ==
    /\ stage = "marked"
    /\ stage' = "replaced"
    /\ scenes' = WithWanReplacements(scenes, options)
    /\ filters' = ProfileFilters(scenes', options)
    /\ UNCHANGED <<options, manifest, viewer, shown>>

Mux ==
    /\ stage = "replaced"
    /\ stage' = "muxed"
    /\ manifest' = BakeManifest(scenes, filters)
    /\ UNCHANGED <<options, scenes, filters, viewer, shown>>

Resolve(v) ==
    /\ stage = "muxed"
    /\ stage' = "resolved"
    /\ viewer' = v
    /\ shown' = Playlist(manifest, [s \in Segments |-> Server(s, Assets, v)])
    /\ UNCHANGED <<options, scenes, filters, manifest>>

Next ==
    \/ Mark
    \/ Replace
    \/ Mux
    \/ \E v \in Viewers : Resolve(v)

Spec == Init /\ [][Next]_vars

-----------------------------------------------------------------------------
(* Properties. *)

Resolved == stage = "resolved"
ByAnalyzer == Resolved /\ options # None
AvoidsTopics(v) == v.signedIn /\ v.avoided # {}
Entries == Range(shown.entries)
SceneOf(id) == CHOOSE s \in Range(scenes) : s.id = id
Targets(playlist) == Each(playlist.entries, [e \in Range(playlist.entries) |-> e.target])

\* The labels that the viewer's profile filters, for one who names no topics.
Filtered(v) == DOMAIN filters[v.profile]

\* A viewer who avoids topics is never shown media with one of them in it,
\* neither as itself nor as the replacement of something else: through merging,
\* baking and resolution (TopicPlayback.cs L87-109).
AvoidedTopicIsHidden ==
    ByAnalyzer /\ AvoidsTopics(viewer) =>
        \A e \in Entries : SceneOf(e.target).content \cap viewer.avoided = {}

\* It is true of movies whose runs were replaced for every topic or for none;
\* a run merged for some topics loses its other labels.
AvoidedTopicNeverPlays == options \in ThoroughOptions => AvoidedTopicIsHidden

\* A viewer of a profile who names no topics is never shown media with
\* anything in it that the profile filters (SegmentServer.cs L441-516), in
\* movies with a filler for all that they filter: --wan-tags and
\* --wan-segments leave segments that are swapped to themselves.
FilteredLabelNeverPlays ==
    ByAnalyzer /\ ~AvoidsTopics(viewer) /\ options \in UniformOptions =>
        \A e \in Entries : SceneOf(e.target).content \cap Filtered(viewer) = {}

\* A swap in a movie of the analyzer shows the filler that was made for the
\* run of the segment that is left out, and no other run's.  A segment that
\* --wan-tags or --wan-segments left without one is shown itself.
SwapShowsOwnFiller ==
    ByAnalyzer => \A e \in Entries : e.action = "swap" =>
        \/ e.target = Fillers[e.source]
        \/ /\ e.target = e.source
           /\ SceneOf(e.source).target = None
           /\ options.wanTags # {} \/ options.wanSegments # {}

\* A swap shows another asset, as BVF_SPEC.md says of the action.
SwapShowsAnotherAsset ==
    Resolved => \A e \in Entries : e.action = "swap" => e.target # e.source

\* Filtering takes away nothing else, under any options: a movie of the
\* analyzer is never refused, and each narrative segment that has nothing to
\* hide from the viewer is shown once, as itself and in the movie's order.
InnocentScenesPlay ==
    ByAnalyzer =>
        LET hidden == IF AvoidsTopics(viewer) THEN viewer.avoided
                      ELSE Filtered(viewer)
            innocent == {s \in Range(scenes) : ~s.filler /\ s.content \cap hidden = {}}
        IN  /\ ~shown.failed
            /\ Where(Targets(shown), {s.id : s \in innocent})
                 = Each(Where(scenes, innocent), [s \in innocent |-> s.id])

\* How far three programs written apart resolve one file alike: the plugin for
\* an anonymous request (SegmentServer.cs L441), the C# reader (BVFReader.cs
\* L133) and the Python player (bvf_player.py L308).  The plugin and the player
\* always agree.  The reader refuses besides a file that lacks the target of a
\* swap, where they leave the segment out (L171-177), and it plays a segment
\* whose play names another one as itself.  Else it agrees with them, and no
\* file of the analyzer is of either kind.
RuntimesAgree ==
    stage = "muxed" =>
        \A p \in Profiles :
            LET server == Playlist(manifest, [s \in Segments |-> ServerProfile(s, Assets, p, None)])
                reader == Playlist(manifest, [s \in Segments |-> Reader(s, Assets, p)])
                player == Playlist(manifest, [s \in Segments |-> Player(s, Assets, p)])
                narrative == {s \in Segments : ~s.filler}
                lacking == \E s \in narrative : /\ Baked(s, p).action = "swap"
                                                /\ Baked(s, p).target \notin Assets
                astray == \E s \in narrative : /\ Baked(s, p).action = "play"
                                               /\ Baked(s, p).target # s.id
            IN  /\ server.failed <=> player.failed
                /\ Targets(server) = Targets(player)
                /\ reader.failed <=> server.failed \/ lacking
                /\ ~reader.failed /\ ~astray => Targets(reader) = Targets(server)
                /\ options # None => ~lacking /\ ~astray

=============================================================================
