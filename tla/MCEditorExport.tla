--------------------------- MODULE MCEditorExport ---------------------------
(* A source of five frames, sampled at every other one, and two clips.     *)
EXTENDS EditorExport

CONSTANTS pride, war, short, long

TwoTopics == {pride, war}
\* Any samples for one topic, and perhaps one of another between them.
SomeFlags ==
    {hits \cup other : hits \in SUBSET ({0, 2, 4} \X {pride}), other \in {{}, {<<2, war>>}}}
TwoClips ==
    [c \in {short, long} |->
        IF c = short THEN [duration |-> 1, audio |-> FALSE] ELSE [duration |-> 9, audio |-> TRUE]]

=============================================================================
