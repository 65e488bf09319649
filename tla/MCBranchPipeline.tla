-------------------------- MODULE MCBranchPipeline --------------------------
(* Small instances of BranchPipeline: three scenes, two topics, a child    *)
(* profile that filters both and an adult one that filters none.           *)
EXTENDS BranchPipeline

CONSTANTS nudity, gore, child, adult

TwoTopics == {nudity, gore}
TwoProfiles == {child, adult}
ThreeSceneFillers == [i \in 1 .. 3 |-> 3 + i]
SceneAndFillerIds == 1 .. 6
BothKeys == [p \in TwoProfiles |-> IF p = child THEN TwoTopics ELSE {}]

\* All command lines.
AnyOptions == OptionType

\* Swapping every segment of the topics that are filtered.
PartialTopicOptions ==
    {o \in OptionType : o.mode = "swap" /\ o.wanTags = {} /\ o.wanSegments = {} /\ ~o.dryRun}

Anonymous == [signedIn : {FALSE}, avoided : {{}}, hitAction : {"skip"}, profile : TwoProfiles]
SignedIn == [signedIn : {TRUE}, avoided : SUBSET TwoTopics,
             hitAction : {"skip", "swap"}, profile : TwoProfiles]
AllViewers == Anonymous \cup SignedIn

NoOptions == {}
NoFilters == {}
NothingAuthored == {}
ChildFilters(actions) ==
    [p \in TwoProfiles |-> IF p = child THEN actions ELSE <<>>]
AllFilters == {ChildFilters(f) : f \in [TwoTopics -> Actions]}
SkipFilters == {ChildFilters(f) : f \in [TwoTopics -> {"skip"}]}

\* Authored segments, by how they are decided about: by the filters, by their
\* own action because they have a risk and no label, or by their own profiles.
FilteredScenes(id) ==
    {[Scene(id, labels) EXCEPT !.target = t] : labels \in SUBSET TwoTopics,
                                               t \in {None, Fillers[id]}}
RiskyScenes(id) ==
    {[Scene(id, {}) EXCEPT !.risky = TRUE, !.action = a, !.target = t] :
        a \in {"swap", "skip", "blur"}, t \in {None, Fillers[id]}}
OwnProfileScenes(id) ==
    {[Scene(id, {nudity}) EXCEPT !.profiles = [p \in {child} |-> own]] :
        own \in [action : {"play", "swap"}, target : {3 - id, Fillers[id]}]
                  \cup [action : {"skip", "mute"}, target : {id}]}
AuthoredScenes(id) == FilteredScenes(id) \cup RiskyScenes(id) \cup OwnProfileScenes(id)

\* Two such segments, with both fillers, one, or none in the file.
TwoAuthored ==
    {<<a, b>> \o fillers : a \in AuthoredScenes(1), b \in AuthoredScenes(2),
                           fillers \in {<<>>, <<FillerScene(Fillers[1])>>,
                                        <<FillerScene(Fillers[1]), FillerScene(Fillers[2])>>}}

\* One segment with a label and a filler.
OneSwappable ==
    {<<[Scene(1, {nudity}) EXCEPT !.target = Fillers[1]], FillerScene(Fillers[1])>>}

=============================================================================
