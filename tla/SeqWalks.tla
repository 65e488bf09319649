------------------------------ MODULE SeqWalks ------------------------------
(* Walks over a sequence that several components make: keeping what meets  *)
(* a condition, doing something to each element, adding numbers up, making *)
(* something of all elements in turn.  They recurse by functions, which    *)
(* proofs can unfold.                                                      *)
EXTENDS Integers, Sequences, FiniteSets

\* The elements of s that are in P, in their order.
Where(s, P) ==
    LET kept[i \in 0 .. Len(s)] ==
            IF i = 0 THEN <<>>
            ELSE IF s[i] \in P THEN Append(kept[i - 1], s[i]) ELSE kept[i - 1]
    IN  kept[Len(s)]

\* What f makes of each element.
Each(s, f) == [i \in DOMAIN s |-> f[s[i]]]

\* The sum of a sequence of numbers.
Total(s) ==
    LET sum[i \in 0 .. Len(s)] == IF i = 0 THEN 0 ELSE sum[i - 1] + s[i]
    IN  sum[Len(s)]

\* What becomes of base when each element e of s in turn makes step[e] of it.
Folded(s, base, step) ==
    LET done[i \in 0 .. Len(s)] == IF i = 0 THEN base ELSE step[s[i]][done[i - 1]]
    IN  done[Len(s)]

\* The sequences of ss, one after the other.
Flat(ss) ==
    LET flat[i \in 0 .. Len(ss)] == IF i = 0 THEN <<>> ELSE flat[i - 1] \o ss[i]
    IN  flat[Len(ss)]

\* The elements of the finite set S, none of them after one that it is before.
InOrder(S, before) ==
    LET First(T) == CHOOSE a \in T : \A b \in T : <<b, a>> \notin before
        left[i \in 0 .. Cardinality(S)] ==
            IF i = 0 THEN S ELSE LET rest == left[i - 1] IN rest \ {First(rest)}
    IN  [i \in 1 .. Cardinality(S) |-> First(left[i - 1])]

=============================================================================
