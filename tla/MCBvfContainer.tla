--------------------------- MODULE MCBvfContainer ---------------------------
(* Small instances of BvfContainer: a scene, a second one and a filler for *)
(* it, and packages that differ in what the probe should find in them.     *)
EXTENDS BvfContainer

CONSTANTS a, b, f, x  \* two scenes, a filler, and an id nothing has

MCIds == {a, b, f, x}
MCProfiles == {"child", "teen", "teen_f"}

Whole(n, d) == [size |-> n, duration |-> d, video |-> TRUE, keyframe |-> TRUE]
AssetOf(id, d, media) == [id |-> id, duration |-> d, media |-> media]
Segment(id, filler, profiles) ==
    [id |-> id, labels |-> {}, filler |-> filler, target |-> None, profiles |-> profiles]
Does(action, target) == [action |-> action, target |-> target]

\* A package of two scenes and a filler; the child's entry for b varies.
Movie(medias, durations, childsB) ==
    [assets |-> <<AssetOf(a, durations[1], medias[1]), AssetOf(b, durations[2], medias[2]),
                  AssetOf(f, durations[3], medias[3])>>,
     segments |-> <<Segment(a, FALSE, [child |-> Does("play", a), teen |-> Does("play", a)]),
                    Segment(b, FALSE, [child |-> childsB]),
                    Segment(f, TRUE, [child |-> Does("play", f), teen |-> Does("play", f)])>>,
     profiles |-> <<"teen", "child">>]

\* One scene only, which lasts no time, as authored segments may; the teen's
\* entry for it varies.
Short(media, teensA) ==
    [assets |-> <<AssetOf(a, 0, media)>>,
     segments |-> <<Segment(a, FALSE, [teen |-> teensA])>>,
     profiles |-> <<"teen", "teen_f">>]

Good == <<Whole(1, 2), Whole(1, 0), Whole(2, 4)>>
Drifting == <<Whole(1, 3), Whole(1, 4), Whole(1, 2)>>
NoKeyframe == [Whole(1, 0) EXCEPT !.keyframe = FALSE]
Empty == Whole(0, 0)

\* A filler in place of a scene; a swap into nothing; a play of what is not
\* there, with drift within the tolerance of every asset; media that cannot be
\* cut; and an action that only the editor knows, with an empty asset.
MCPackages ==
    {Movie(Good, <<2, 0, 4>>, Does("swap", f)), Movie(Good, <<2, 0, 4>>, Does("swap", x)),
     Movie(Drifting, <<2, 3, 1>>, Does("play", x)),
     Short(NoKeyframe, Does("play", a)), Short(Empty, Does("mute", a))}

User(override, age, sex, default) ==
    [override |-> override, age |-> age, sex |-> sex, default |-> default]
Capital(word) == [word |-> word, lower |-> FALSE]
Unset == [word |-> "unset", lower |-> TRUE]

\* An override that no manifest names, both sides of a thirteenth birthday, a
\* sex in two spellings, and viewers who are left to a default or to none.
MCUsers ==
    {User("strict", 12, Unset, None), User(None, 12, Unset, "teen"), User(None, 13, Female, None),
     User(None, 13, Capital("female"), None), User(None, None, Unset, "child"),
     User(None, None, Unset, None)}

=============================================================================
