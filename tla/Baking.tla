------------------------------- MODULE Baking -------------------------------
(* How a labelled movie becomes a manifest: the replacement steps of       *)
(* analyzer/analyze.py (_apply_replace_mode, _apply_wan_replacements,      *)
(* _profiles_for_manifest), coalesce_tagged_runs and merge_run_segments of *)
(* analyzer/wan_replace.py, and BvfMuxer._build_manifest_segments.         *)
(*                                                                         *)
(* A segment covers a bucket of the movie; buckets adjoin, so a run is a   *)
(* stretch of consecutive segments.  Times are left out.  content is what  *)
(* the segment's media really shows (the labels of all the buckets in it), *)
(* kept beside the labels the program keeps.                               *)
EXTENDS Playback

CONSTANTS
    Fillers,      \* the filler made for the run that starts at a segment
    DefaultKeys   \* the filter keys of each profile in DEFAULT_PROFILES

\* A segment before it goes into the manifest.  risky is a risk other than
\* safe; profiles is what an author says of it, profile by profile, or None.
SceneType ==
    [id : Ids, labels : SUBSET Topics, risky : BOOLEAN, action : Actions,
     target : Ids \cup {None}, filler : BOOLEAN, content : SUBSET Topics,
     profiles : {None} \cup UNION {[ps -> ProfileAction] : ps \in SUBSET Profiles}]

\* A segment of the analyzer.  Its risk is left at safe: the muxer asks for it
\* only where there are no labels, and there the analyzer's is safe.
Scene(id, labels) ==
    [id |-> id, labels |-> labels, risky |-> FALSE, action |-> "play", target |-> None,
     filler |-> FALSE, content |-> labels, profiles |-> None]

FillerScene(id) == [Scene(id, {}) EXCEPT !.filler = TRUE]

-----------------------------------------------------------------------------
(* The analyzer, under the options o of its command line. *)

FilterKeys(o) ==
    IF o.wanTags = {} THEN o.filterTopics ELSE o.filterTopics \cap o.wanTags

\* _apply_replace_mode.
WithReplaceMode(scenes, o) ==
    [i \in DOMAIN scenes |->
        [scenes[i] EXCEPT !.action =
            IF scenes[i].labels \cap FilterKeys(o) # {} THEN o.mode ELSE "play"]]

\* Whether coalesce_tagged_runs puts a scene in a run.
InRun(scene, o) ==
    /\ scene.labels \cap FilterKeys(o) # {}
    /\ o.wanSegments = {} \/ scene.id \in o.wanSegments

StartsRun(scenes, o, i) == InRun(scenes[i], o) /\ (i = 1 \/ ~InRun(scenes[i - 1], o))

\* The indices of the run that starts at i.
Run(scenes, o, i) ==
    {j \in i .. Len(scenes) : \A k \in i .. j : InRun(scenes[k], o)}

\* merge_run_segments and _attach_wan_fillers: the first scene of a run stands
\* for all of it, has the labels that made it a run, and swaps to a filler.
Survivor(scenes, o, i) ==
    LET run == Run(scenes, o, i)
        tags == UNION {scenes[j].labels \cap FilterKeys(o) : j \in run}
    IN  [scenes[i] EXCEPT !.action = "swap", !.target = Fillers[scenes[i].id],
                          !.labels = @ \cup tags,
                          !.content = UNION {scenes[j].content : j \in run}]

\* _apply_wan_replacements, with every clip generated (a failure ends the
\* analysis) or, in a dry run, none.
WithWanReplacements(scenes, o) ==
    IF o.mode # "swap" \/ o.dryRun THEN scenes
    ELSE LET places == [i \in DOMAIN scenes |-> i]
             starts == {i \in DOMAIN scenes : StartsRun(scenes, o, i)}
             outside == {i \in DOMAIN scenes : ~InRun(scenes[i], o)}
         IN  Each(Where(places, starts \cup outside),
                  [i \in DOMAIN scenes |->
                     IF i \in starts THEN Survivor(scenes, o, i) ELSE scenes[i]])
             \o Each(Where(places, starts),
                     [i \in DOMAIN scenes |-> FillerScene(Fillers[scenes[i].id])])

Replaced(scenes) == \E i \in DOMAIN scenes : scenes[i].target # None

\* Bug variant of ProfileFilters: profiles say swap although nothing was made.
ProfileFiltersAsAsked(scenes, o) ==
    [p \in Profiles |->
        [k \in IF DefaultKeys[p] = {} THEN {}
               ELSE IF o.filterTopics # {} THEN o.filterTopics ELSE DefaultKeys[p]
            |-> o.mode]]

\* _profiles_for_manifest: one mode for all keys of all profiles that filter.
ProfileFilters(scenes, o) ==
    LET mode == IF o.mode = "swap" /\ (o.dryRun \/ ~Replaced(scenes))
                THEN "skip" ELSE o.mode
    IN  [p \in Profiles |->
            [k \in IF DefaultKeys[p] = {} THEN {}
                   ELSE IF o.filterTopics # {} THEN o.filterTopics ELSE DefaultKeys[p]
                |-> mode]]

-----------------------------------------------------------------------------
(* The muxer. *)

Priority == [skip |-> 5, swap |-> 4, blur |-> 3, mute |-> 2, play |-> 1]

\* _most_restrictive_action; "play" when there is nothing to choose from.
MostRestrictive(actions) ==
    IF actions = {} THEN "play"
    ELSE CHOOSE a \in actions : \A b \in actions : Priority[a] >= Priority[b]

\* The actions that a profile's filters match, or the segment's own action if
\* it has a risk and no label that a filter could match.
MatchingActions(scene, filters) ==
    IF scene.risky /\ scene.labels = {} /\ scene.action # "play" THEN {scene.action}
    ELSE {filters[k] : k \in scene.labels \cap DOMAIN filters}

\* Bug variant of BakedAction: the filler is the target whatever the action.
BakedActionAnyTarget(scene, filters) ==
    [action |-> MostRestrictive(MatchingActions(scene, filters)),
     target |-> IF scene.target # None THEN scene.target ELSE scene.id]

\* One profile's entry of _build_manifest_segments.
BakedAction(scene, filters) ==
    LET action == MostRestrictive(MatchingActions(scene, filters))
    IN  [action |-> action,
         target |-> IF action = "swap" /\ scene.target # None THEN scene.target
                    ELSE scene.id]

\* One entry of _build_manifest_segments: the author's profiles as they are,
\* or baked ones.
BakeSegment(scene, filters) ==
    [id |-> scene.id, labels |-> scene.labels, filler |-> scene.filler,
     target |-> scene.target,
     profiles |-> IF scene.profiles # None THEN scene.profiles
                  ELSE [p \in Profiles |-> BakedAction(scene, filters[p])]]

\* _build_manifest_segments: filters maps each profile's keys to actions.
BakeManifest(scenes, filters) ==
    [i \in DOMAIN scenes |-> BakeSegment(scenes[i], filters)]

=============================================================================
