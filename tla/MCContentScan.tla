---------------------------- MODULE MCContentScan ----------------------------
(* A film of three whole buckets and a part, with one bad stretch, another *)
(* stretch of any kind over it, and one frame that may be unreadable.      *)
EXTENDS ContentScan

Frame(sd, falcon, cartoon) ==
    [sd |-> sd, falcon |-> falcon, cartoon |-> cartoon,
     dark |-> FALSE, sdBoosted |-> 0, falconBoosted |-> 0, visual |-> {}]

Safe == Frame(0, 0, FALSE)
Shown == Frame(3, 0, FALSE)
Suspicious == Frame(0, 1, FALSE)
\* Above the threshold when brightened, but below the gate.
Doubtful == [Safe EXCEPT !.dark = TRUE, !.falconBoosted = 2]
\* Flagged only when brightened.
Hidden == [Safe EXCEPT !.dark = TRUE, !.sdBoosted = 3]
\* Passes the threshold of live action but not its own.
MildCartoon == Frame(0, 3, TRUE)
StrongCartoon == Frame(4, 0, TRUE)

\* Nothing but a topic that only the visual scan knows.
Pride == [Safe EXCEPT !.visual = {"lgbtq"}]

Kinds == {Safe, Pride, Suspicious, Doubtful, Hidden, MildCartoon, StrongCartoon}

Stretches == {<<a, b>> \in Time \X Time : a < b}

SmallFilms ==
    {[t \in 0 .. Duration - 1 |->
         IF t = hole THEN Unreadable
         ELSE IF q[1] <= t /\ t < q[2] THEN kind
         ELSE IF p[1] <= t /\ t < p[2] THEN Shown ELSE Safe] :
     p \in Stretches, q \in Stretches, kind \in Kinds, hole \in Time}

\* A word across two buckets, one at the start of the last bucket, and one
\* after the end.
SomeSpeech ==
    {{}, {[start |-> 2, end |-> 4, profane |-> TRUE, topics |-> {"war"}],
          [start |-> 9, end |-> 10, profane |-> TRUE, topics |-> {}],
          [start |-> 11, end |-> 12, profane |-> FALSE, topics |-> {"war"}]}}

=============================================================================
