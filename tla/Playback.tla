------------------------------ MODULE Playback ------------------------------
(* How the runtimes turn a BVF manifest into a playlist: SegmentServer.cs  *)
(* with TopicPlayback.cs in the Jellyfin plugin, BVFReader.GetSegments in  *)
(* Assets/Scripts, and resolve_playback_sequence in tools/bvf_player.py.   *)
(*                                                                         *)
(* Each of them walks the manifest and decides about one segment at a      *)
(* time, so a runtime is an operator from a segment to its decision, and a *)
(* playlist is made of the decisions in manifest order.                    *)
EXTENDS SeqWalks, Functions

CONSTANTS
    Ids,      \* segment ids
    Topics,   \* tags and topics; playback does not tell them apart
    Profiles, \* profile names
    None      \* no id, or no preferred action

Actions == {"play", "swap", "skip", "mute", "blur"}
RuntimeSupportedActions == {"play", "swap", "skip"}

ProfileAction == [action : Actions, target : Ids]

Omit == [kind |-> "omit", source |-> None, target |-> None, action |-> "skip"]
Failure == [kind |-> "fail", source |-> None, target |-> None, action |-> "skip"]
Entry(s, target, action) ==
    [kind |-> "entry", source |-> s.id, target |-> target, action |-> action]

\* What the baked profile says of a segment; play itself if it says nothing.
Baked(s, p) ==
    IF p \in DOMAIN s.profiles THEN s.profiles[p]
    ELSE [action |-> "play", target |-> s.id]

\* The tail all runtimes share: unsupported actions fail, skip omits, and the
\* target's asset is looked up in the index.
Decision(s, action, target, assets, missing) ==
    IF action \notin RuntimeSupportedActions THEN Failure
    ELSE IF action = "skip" THEN Omit
    ELSE IF target \in assets THEN Entry(s, target, action)
    ELSE missing

-----------------------------------------------------------------------------
(* TopicPlayback. *)

SwapTargets(s) ==
    {s.profiles[p].target : p \in {q \in DOMAIN s.profiles : s.profiles[q].action = "swap"}}

HasSwapTarget(s) == s.target # None \/ SwapTargets(s) # {}

\* Bug variant of RestrictHit: what cannot be swapped is left alone.
RestrictHitOrPlay(preferred, hasSwapTarget) ==
    IF preferred # "swap" THEN "skip" ELSE IF hasSwapTarget THEN "swap" ELSE "play"

RestrictHit(preferred, hasSwapTarget) ==
    IF preferred = "swap" /\ hasSwapTarget THEN "swap" ELSE "skip"

ApplyPreferredAction(baked, preferred, hasSwapTarget) ==
    IF baked = "play" THEN "play" ELSE RestrictHit(preferred, hasSwapTarget)

\* Bug variant of Hits: only segments that are avoided in every label count.
HitsAll(s, avoided) == s.labels # {} /\ s.labels \subseteq avoided

Hits(s, avoided) == s.labels \cap avoided # {}

ResolveAction(s, avoided, preferred) ==
    IF Hits(s, avoided) THEN RestrictHit(preferred, HasSwapTarget(s)) ELSE "play"

\* Only asked for an action that RestrictHit let pass, so a target exists.
ResolveTargetId(s, action) ==
    IF action # "swap" THEN s.id
    ELSE IF s.target # None THEN s.target
    ELSE CHOOSE t \in SwapTargets(s) : TRUE

-----------------------------------------------------------------------------
(* The runtimes. *)

\* ResolveAllSegmentsForProfile; preferred is None for an anonymous request.
ServerProfile(s, assets, p, preferred) ==
    LET baked == Baked(s, p)
        action == IF preferred = None THEN baked.action
                  ELSE ApplyPreferredAction(baked.action, preferred, HasSwapTarget(s))
        target == IF preferred # None /\ action # "swap" THEN s.id ELSE baked.target
    IN  Decision(s, action, target, assets, Omit)

\* ResolveAllSegmentsForTopics.
ServerTopics(s, assets, avoided, preferred) ==
    LET action == ResolveAction(s, avoided, preferred)
    IN  Decision(s, action, ResolveTargetId(s, action), assets,
                 IF action = "swap" THEN Failure ELSE Omit)

\* Bug variant of Reader: a filtered segment is looked up under its own id.
ReaderOwnTarget(s, assets, p) ==
    LET baked == Baked(s, p)
    IN  Decision(s, baked.action, s.id, assets, IF baked.action = "swap" THEN Failure ELSE Omit)

\* BVFReader.GetSegments(stream, profile).
Reader(s, assets, p) ==
    LET baked == Baked(s, p)
        target == IF baked.action = "swap" THEN baked.target ELSE s.id
    IN  Decision(s, baked.action, target, assets,
                 IF baked.action = "swap" THEN Failure ELSE Omit)

\* BVFPlayer.resolve_playback_sequence.
Player(s, assets, p) ==
    LET baked == Baked(s, p)
    IN  Decision(s, baked.action, baked.target, assets, Omit)

\* ResolveSegmentsForRequest: who is asking decides which way is taken.
Server(s, assets, viewer) ==
    IF ~viewer.signedIn THEN ServerProfile(s, assets, viewer.profile, None)
    ELSE IF viewer.avoided # {}
         THEN ServerTopics(s, assets, viewer.avoided, viewer.hitAction)
         ELSE ServerProfile(s, assets, viewer.profile, viewer.hitAction)

\* The decisions about the narrative segments of a manifest, in its order.
Playlist(manifest, decision) ==
    LET decided == Each(Where(manifest, {s \in Range(manifest) : ~s.filler}), decision)
    IN  [failed |-> \E d \in Range(decided) : d.kind = "fail",
         entries |-> Where(decided, {d \in Range(decided) : d.kind = "entry"})]

=============================================================================
