--------------------------- MODULE SequenceLemmas ---------------------------
(* Lemmas that the proofs about sequences rest on: induction over an       *)
(* interval and recursion along it, stated with sets and functions, and    *)
(* what the walks of SeqWalks return.                                      *)
EXTENDS SeqWalks, FiniteSetsExt, SequenceTheorems, FiniteSetTheorems, WellFoundedInduction, TLAPS

-----------------------------------------------------------------------------
(* Numbers. *)

\* The greater of two numbers, and the less.
LEMMA MaxOfTwo ==
    ASSUME NEW a \in Int, NEW b \in Int PROVE Max({a, b}) = IF a >= b THEN a ELSE b
<1> DEFINE m == IF a >= b THEN a ELSE b
<1>1. m \in {a, b} /\ \A y \in {a, b} : m >= y
  OBVIOUS
<1>2. \A x \in {a, b} : (\A y \in {a, b} : x >= y) => x = m
  OBVIOUS
<1> HIDE DEF m
<1>3. Max({a, b}) = m
  BY <1>1, <1>2 DEF Max
<1> QED BY <1>3 DEF m

LEMMA MinOfTwo ==
    ASSUME NEW a \in Int, NEW b \in Int PROVE Min({a, b}) = IF a <= b THEN a ELSE b
<1> DEFINE m == IF a <= b THEN a ELSE b
<1>1. m \in {a, b} /\ \A y \in {a, b} : m <= y
  OBVIOUS
<1>2. \A x \in {a, b} : (\A y \in {a, b} : x <= y) => x = m
  OBVIOUS
<1> HIDE DEF m
<1>3. Min({a, b}) = m
  BY <1>1, <1>2 DEF Min
<1> QED BY <1>3 DEF m

\* Division with a remainder.
LEMMA Division ==
    ASSUME NEW a \in Nat, NEW n \in Nat, n > 0 PROVE a = n * (a \div n) + (a % n)
OBVIOUS

-----------------------------------------------------------------------------
(* Induction. *)

\* A nonempty set of natural numbers has a least element.
LEMMA LeastNatural ==
    ASSUME NEW T \in SUBSET Nat, T # {}
    PROVE  \E m \in T : \A k \in T : m <= k
<1> DEFINE Less == {p \in Nat \X Nat : p[1] < p[2]}
<1>1. IsWellFoundedOn(Less, Nat)
  <2>1. Less = OpToRel(<, Nat)
    BY Zenon DEF OpToRel
  <2> HIDE DEF Less
  <2> QED BY <2>1, NatLessThanWellFounded, Zenon
<1>2. \E x \in T : \A y \in T : <<y, x>> \notin Less
  <2> HIDE DEF Less
  <2> QED BY <1>1, WFMin
<1>3. \A x, y \in Nat : <<y, x>> \in Less <=> y < x
  OBVIOUS
<1>4. PICK x \in T : \A y \in T : <<y, x>> \notin Less
  BY <1>2
<1>5. ASSUME NEW k \in T PROVE x <= k
  <2>1. k \in Nat /\ x \in Nat /\ ~(k < x)
    <3> HIDE DEF Less
    <3> QED BY <1>3, <1>4
  <2> QED BY <2>1
<1> QED BY <1>5

\* A nonempty set of numbers below a bound has a greatest element.
LEMMA GreatestBelow ==
    ASSUME NEW n \in Nat, NEW T \in SUBSET (0 .. n), T # {}
    PROVE  \E m \in T : \A k \in T : k <= m
<1> DEFINE U == {u \in 0 .. n : n - u \in T}
<1>1. U \in SUBSET Nat /\ U # {}
  <2>1. PICK k \in T : TRUE
    OBVIOUS
  <2>2. n - k \in 0 .. n /\ n - (n - k) = k
    OBVIOUS
  <2>3. n - k \in U
    BY <2>2
  <2>4. U \in SUBSET Nat
    OBVIOUS
  <2> HIDE DEF U
  <2> QED BY <2>3, <2>4
<1>2. PICK u \in U : \A v \in U : u <= v
  <2> HIDE DEF U
  <2> QED BY <1>1, LeastNatural
<1>3. PICK m \in T : u = n - m
  <2>1. n - u \in T
    BY <1>2
  <2> QED BY <2>1, <1>2
<1>4. ASSUME NEW k \in T PROVE k <= m
  <2>1. n - k \in 0 .. n /\ n - (n - k) = k
    OBVIOUS
  <2>2. n - k \in U
    BY <2>1
  <2>3. u <= n - k /\ u = n - m /\ u \in 0 .. n /\ m \in 0 .. n /\ k \in 0 .. n
    BY <1>2, <1>3, <2>2
  <2> QED BY <2>3
<1> QED BY <1>4

\* Induction along an interval; T is the set of the numbers that have the
\* property.
LEMMA IntervalInduction ==
    ASSUME NEW n \in Nat, NEW T, 0 \in T,
           \A i \in 0 .. n - 1 : i \in T => i + 1 \in T
    PROVE  \A i \in 0 .. n : i \in T
<1> DEFINE U == {i \in 0 .. n : i \notin T}
<1> SUFFICES ASSUME U # {} PROVE FALSE
  OBVIOUS
<1>1. PICK m \in U : \A k \in U : m <= k
  <2>1. U \in SUBSET Nat
    OBVIOUS
  <2> HIDE DEF U
  <2> QED BY <2>1, LeastNatural
<1>2. m # 0 /\ m - 1 \in 0 .. n - 1 /\ m - 1 \notin U
  BY <1>1
<1>3. m - 1 \in T
  BY <1>2
<1>4. (m - 1) + 1 \in T
  BY <1>2, <1>3
<1> QED BY <1>1, <1>4

\* f begins with base, and step says what follows from the value before.
Follows(f, n, A, base, step) ==
    /\ f \in [0 .. n -> A]
    /\ f[0] = base
    /\ \A i \in 1 .. n : f[i] = step[i][f[i - 1]]

\* Recursion along an interval is well founded.
LEMMA IntervalRecursion ==
    ASSUME NEW n \in Nat, NEW A, NEW base \in A, NEW step \in [1 .. n -> [A -> A]]
    PROVE  \E f : Follows(f, n, A, base, step)
<1> DEFINE Upto(m) == {f \in [0 .. m -> A] :
                          f[0] = base /\ \A i \in 1 .. m : f[i] = step[i][f[i - 1]]}
           T == {m \in 0 .. n : Upto(m) # {}}
<1>1. 0 \in T
  <2>1. [i \in 0 .. 0 |-> base] \in Upto(0)
    OBVIOUS
  <2> QED BY <2>1
<1>2. ASSUME NEW m \in 0 .. n - 1, m \in T PROVE m + 1 \in T
  <2>1. PICK f \in [0 .. m -> A] :
           f[0] = base /\ \A i \in 1 .. m : f[i] = step[i][f[i - 1]]
    BY <1>2
  <2>2. m + 1 \in 1 .. n /\ f[m] \in A
    OBVIOUS
  <2>3. step[m + 1][f[m]] \in A
    BY <2>2
  <2> DEFINE g == [i \in 0 .. m + 1 |-> IF i = m + 1 THEN step[m + 1][f[m]] ELSE f[i]]
  <2>4. g \in [0 .. m + 1 -> A]
    BY <2>3
  <2>5. g[0] = base
    BY <2>1
  <2>6. ASSUME NEW i \in 1 .. m + 1 PROVE g[i] = step[i][g[i - 1]]
    <3>1. CASE i = m + 1
      BY <3>1
    <3>2. CASE i # m + 1
      <4>1. i \in 1 .. m /\ i - 1 \in 0 .. m /\ i - 1 # m + 1
        BY <3>2
      <4> QED BY <2>1, <4>1
    <3> QED BY <3>1, <3>2
  <2>7. g \in Upto(m + 1)
    <3> HIDE DEF g
    <3> QED BY <2>4, <2>5, <2>6
  <2>8. Upto(m + 1) # {}
    <3> HIDE DEF Upto, g
    <3> QED BY <2>7
  <2>9. m + 1 \in 0 .. n
    OBVIOUS
  <2> QED BY <2>8, <2>9
<1>3. \A m \in 0 .. n - 1 : m \in T => m + 1 \in T
  BY <1>2
<1>4. \A m \in 0 .. n : m \in T
  <2> HIDE DEF T
  <2> QED BY <1>1, <1>3, IntervalInduction
<1> QED BY <1>4 DEF Follows

\* The beginnings of a sequence are made by appending its elements in turn.
LEMMA SubSeqGrows ==
    ASSUME NEW S, NEW s \in Seq(S), NEW i \in 0 .. Len(s) - 1
    PROVE  /\ SubSeq(s, 1, i) \in Seq(S) /\ s[i + 1] \in S
           /\ SubSeq(s, 1, i + 1) = Append(SubSeq(s, 1, i), s[i + 1])
<1>0. Len(s) \in Nat /\ \A j \in 1 .. Len(s) : s[j] \in S
  BY LenProperties, ElementOfSeq
<1>1. SubSeq(s, 1, i) \in Seq(S) /\ s[i + 1] \in S
  BY <1>0, SubSeqProperties
<1>2. SubSeq(s, 1, i + 1) = SubSeq(s, 1, (i + 1) - 1) \o <<s[i + 1]>>
  <2>1. 1 \in 1 .. Len(s) /\ i + 1 \in 1 .. Len(s)
    BY <1>0
  <2> QED BY <2>1, SubSeqRecursiveSecond
<1>3. (i + 1) - 1 = i
  OBVIOUS
<1>4. Append(SubSeq(s, 1, i), s[i + 1]) = SubSeq(s, 1, i) \o <<s[i + 1]>>
  BY <1>1, AppendIsConcat
<1> QED BY <1>1, <1>2, <1>3, <1>4

\* Induction over sequences; T is the set of those that have the property.
LEMMA SequenceInduction ==
    ASSUME NEW S, NEW T, <<>> \in T,
           \A s \in Seq(S), e \in S : s \in T => Append(s, e) \in T
    PROVE  \A s \in Seq(S) : s \in T
<1> SUFFICES ASSUME NEW s \in Seq(S) PROVE s \in T
  OBVIOUS
<1> DEFINE U == {i \in 0 .. Len(s) : SubSeq(s, 1, i) \in T}
<1>0. Len(s) \in Nat
  BY LenProperties
<1>1. 0 \in U
  <2>1. SubSeq(s, 1, 0) = <<>>
    BY SubSeqEmpty
  <2>2. SubSeq(s, 1, 0) \in T
    BY <2>1
  <2> QED BY <1>0, <2>2
<1>2. ASSUME NEW i \in 0 .. Len(s) - 1, i \in U PROVE i + 1 \in U
  <2>1. SubSeq(s, 1, i) \in T /\ i + 1 \in 0 .. Len(s)
    BY <1>0, <1>2
  <2>2. Append(SubSeq(s, 1, i), s[i + 1]) \in T
    BY <2>1, SubSeqGrows
  <2> QED BY <2>1, <2>2, SubSeqGrows
<1>3. \A i \in 0 .. Len(s) : i \in U
  <2> HIDE DEF U
  <2> QED BY <1>0, <1>1, <1>2, IntervalInduction
<1>4. SubSeq(s, 1, Len(s)) \in T
  BY <1>0, <1>3
<1> QED BY <1>4, SubSeqFull

-----------------------------------------------------------------------------
(* Where. *)

\* What Where has kept after each element.
Keeps(s, P, kept) ==
    /\ kept[0] = <<>>
    /\ \A i \in 1 .. Len(s) :
          kept[i] = IF s[i] \in P THEN Append(kept[i - 1], s[i]) ELSE kept[i - 1]

\* The recursion of Where is well founded: next says what is kept after an
\* element.
LEMMA WhereUnfolds ==
    ASSUME NEW S, NEW s \in Seq(S), NEW P
    PROVE  \E kept \in [0 .. Len(s) -> Seq(S)] :
              Keeps(s, P, kept) /\ Where(s, P) = kept[Len(s)]
<1> DEFINE n == Len(s)
           A == Seq(S)
           base == <<>>
           Next(i, r) == IF s[i] \in P THEN Append(r, s[i]) ELSE r
           Walk(f) == [i \in 0 .. n |-> IF i = 0 THEN base ELSE Next(i, f[i - 1])]
           walked == CHOOSE f : f = Walk(f)
<1>1. n \in Nat /\ base \in A
  BY LenProperties, EmptySeq
<1>2. ASSUME NEW i \in 1 .. n, NEW r \in A PROVE Next(i, r) \in A
  <2>1. s[i] \in S
    BY ElementOfSeq
  <2>2. Append(r, s[i]) \in Seq(S)
    BY <2>1, AppendProperties
  <2> QED BY <2>2
<1>3. Where(s, P) = walked[n]
  BY DEF Where
<1>4. ASSUME NEW f
      PROVE  Keeps(s, P, f) <=>
                f[0] = base /\ \A i \in 1 .. n : f[i] = Next(i, f[i - 1])
  BY DEF Keeps
<1> HIDE DEF n, A, base, Next
<1>5. walked \in [0 .. n -> A] /\ walked[0] = base
      /\ \A i \in 1 .. n : walked[i] = Next(i, walked[i - 1])
  <2> DEFINE step == [i \in 1 .. n |-> [r \in A |-> Next(i, r)]]
  <2>1. step \in [1 .. n -> [A -> A]]
    BY <1>2
  <2>2. \A i \in 1 .. n, r \in A : step[i][r] = Next(i, r)
    OBVIOUS
  <2>3. PICK f \in [0 .. n -> A] :
           f[0] = base /\ \A i \in 1 .. n : f[i] = step[i][f[i - 1]]
    <3>1. \E f : Follows(f, n, A, base, step)
      <4> HIDE DEF step
      <4> QED BY <1>1, <2>1, IntervalRecursion
    <3> HIDE DEF step
    <3> QED BY <3>1 DEF Follows
  <2>4. \A i \in 1 .. n : f[i] = Next(i, f[i - 1])
    <3> SUFFICES ASSUME NEW i \in 1 .. n PROVE f[i] = Next(i, f[i - 1])
      OBVIOUS
    <3>1. f[i - 1] \in A
      BY <1>1
    <3> HIDE DEF step
    <3> QED BY <2>2, <2>3, <3>1
  <2>5. f = Walk(f)
    BY <1>1, <2>3, <2>4
  <2>6. walked = Walk(walked)
    BY <2>5, Zenon
  <2> HIDE DEF walked
  <2>7. walked[0] = base /\ \A i \in 1 .. n : walked[i] = Next(i, walked[i - 1])
    BY <1>1, <2>6
  <2> DEFINE U == {i \in 0 .. n : walked[i] \in A}
  <2>8. 0 \in U
    BY <1>1, <2>7
  <2>9. ASSUME NEW i \in 0 .. n - 1, i \in U PROVE i + 1 \in U
    <3>1. i + 1 \in 1 .. n /\ (i + 1) - 1 = i /\ walked[i] \in A
      BY <1>1, <2>9
    <3>2. walked[i + 1] \in A
      BY <1>2, <2>7, <3>1
    <3> QED BY <1>1, <3>1, <3>2
  <2>10. \A i \in 0 .. n : i \in U
    <3>1. \A i \in 0 .. n - 1 : i \in U => i + 1 \in U
      BY <2>9
    <3> HIDE DEF U
    <3> QED BY <1>1, <2>8, <3>1, IntervalInduction
  <2>11. walked = [i \in 0 .. n |-> walked[i]]
    BY <2>6
  <2> QED BY <2>7, <2>10, <2>11
<1>6. \E kept \in [0 .. n -> A] : Keeps(s, P, kept) /\ Where(s, P) = kept[n]
  <2> HIDE DEF walked
  <2> QED BY <1>3, <1>4, <1>5
<1> QED BY <1>6 DEF n, A

LEMMA WhereEmpty == ASSUME NEW P PROVE Where(<<>>, P) = <<>>
<1>1. <<>> \in Seq({})
  BY EmptySeq
<1>2. PICK kept \in [0 .. Len(<<>>) -> Seq({})] :
         Keeps(<<>>, P, kept) /\ Where(<<>>, P) = kept[Len(<<>>)]
  BY <1>1, WhereUnfolds
<1> QED BY <1>2, EmptySeq DEF Keeps

LEMMA WhereAppend ==
    ASSUME NEW S, NEW s \in Seq(S), NEW e \in S, NEW P
    PROVE  Where(Append(s, e), P) =
              IF e \in P THEN Append(Where(s, P), e) ELSE Where(s, P)
<1> DEFINE t == Append(s, e)
<1>0. /\ Len(s) \in Nat /\ t \in Seq(S) /\ Len(t) = Len(s) + 1
      /\ t[Len(s) + 1] = e /\ \A i \in 1 .. Len(s) : t[i] = s[i]
  BY LenProperties, AppendProperties
<1> HIDE DEF t
<1>1. PICK kept \in [0 .. Len(s) -> Seq(S)] :
         Keeps(s, P, kept) /\ Where(s, P) = kept[Len(s)]
  BY WhereUnfolds
<1>2. PICK more \in [0 .. Len(t) -> Seq(S)] :
         Keeps(t, P, more) /\ Where(t, P) = more[Len(t)]
  BY <1>0, WhereUnfolds
<1> DEFINE U == {i \in 0 .. Len(s) : more[i] = kept[i]}
<1>3. 0 \in U
  BY <1>0, <1>1, <1>2 DEF Keeps
<1>4. \A i \in 0 .. Len(s) - 1 : i \in U => i + 1 \in U
  <2> SUFFICES ASSUME NEW i \in 0 .. Len(s) - 1, i \in U PROVE i + 1 \in U
    OBVIOUS
  <2>1. i + 1 \in 1 .. Len(s) /\ i + 1 \in 1 .. Len(t) /\ (i + 1) - 1 = i
    BY <1>0
  <2>2. /\ kept[i + 1] = IF s[i + 1] \in P THEN Append(kept[i], s[i + 1]) ELSE kept[i]
        /\ more[i + 1] = IF t[i + 1] \in P THEN Append(more[i], t[i + 1]) ELSE more[i]
    BY <1>1, <1>2, <2>1 DEF Keeps
  <2>3. t[i + 1] = s[i + 1] /\ more[i] = kept[i]
    BY <1>0, <2>1
  <2>4. more[i + 1] = kept[i + 1] /\ i + 1 \in 0 .. Len(s)
    BY <1>0, <2>2, <2>3
  <2> QED BY <2>4
<1>5. \A i \in 0 .. Len(s) : i \in U
  <2> HIDE DEF U
  <2> QED BY <1>0, <1>3, <1>4, IntervalInduction
<1>6. more[Len(s)] = kept[Len(s)]
  BY <1>0, <1>5
<1>7. more[Len(s) + 1] = IF e \in P THEN Append(more[Len(s)], e) ELSE more[Len(s)]
  <2>1. Len(s) + 1 \in 1 .. Len(t) /\ (Len(s) + 1) - 1 = Len(s)
    BY <1>0
  <2> QED BY <1>0, <1>2, <2>1 DEF Keeps
<1>8. Where(t, P) = IF e \in P THEN Append(Where(s, P), e) ELSE Where(s, P)
  BY <1>0, <1>1, <1>2, <1>6, <1>7
<1> QED BY <1>8 DEF t

LEMMA WhereType ==
    ASSUME NEW S, NEW s \in Seq(S), NEW P PROVE Where(s, P) \in Seq(S)
<1>1. Len(s) \in Nat
  BY LenProperties
<1> QED BY <1>1, WhereUnfolds

LEMMA RangeAppend ==
    ASSUME NEW S, NEW s \in Seq(S), NEW e \in S
    PROVE  Range(Append(s, e)) = Range(s) \cup {e}
<1>1. Append(s, e) = s \o <<e>> /\ <<e>> \in Seq(S)
  BY AppendIsConcat
<1>2. Range(<<e>>) = {e}
  BY DEF Range
<1>3. Range(s \o <<e>>) = Range(s) \cup Range(<<e>>)
  BY <1>1, RangeConcatenation
<1> QED BY <1>1, <1>2, <1>3

LEMMA RangeEmpty == Range(<<>>) = {}
BY DEF Range

\* Where keeps the elements that are in P and no others.
LEMMA WhereRange ==
    ASSUME NEW S, NEW s \in Seq(S), NEW P PROVE Range(Where(s, P)) = Range(s) \cap P
<1> DEFINE T == {t \in Seq(S) : Range(Where(t, P)) = Range(t) \cap P}
<1>1. <<>> \in T
  BY WhereEmpty, RangeEmpty, EmptySeq
<1>2. ASSUME NEW t \in Seq(S), NEW e \in S, t \in T PROVE Append(t, e) \in T
  <2>1. Range(Append(t, e)) = Range(t) \cup {e} /\ Append(t, e) \in Seq(S)
    BY RangeAppend, AppendProperties
  <2>2. Where(t, P) \in Seq(S)
    BY WhereType
  <2>3. Range(Append(Where(t, P), e)) = Range(Where(t, P)) \cup {e}
    BY <2>2, RangeAppend
  <2>4. Range(Where(Append(t, e), P)) =
           IF e \in P THEN Range(Where(t, P)) \cup {e} ELSE Range(Where(t, P))
    BY <2>3, WhereAppend
  <2> QED BY <1>2, <2>1, <2>4
<1> HIDE DEF T
<1>3. \A t \in Seq(S) : t \in T
  BY <1>1, <1>2, SequenceInduction
<1> QED BY <1>3 DEF T

LEMMA InjectiveAppend ==
    ASSUME NEW S, NEW s \in Seq(S), NEW e \in S
    PROVE  IsInjective(Append(s, e)) <=> IsInjective(s) /\ e \notin Range(s)
<1> DEFINE t == Append(s, e)
<1>0. /\ Len(s) \in Nat /\ DOMAIN s = 1 .. Len(s) /\ DOMAIN t = 1 .. Len(s) + 1
      /\ t[Len(s) + 1] = e /\ \A i \in 1 .. Len(s) : t[i] = s[i]
  BY LenProperties, AppendProperties
<1> HIDE DEF t
<1>1. ASSUME IsInjective(t) PROVE IsInjective(s) /\ e \notin Range(s)
  BY <1>0, <1>1 DEF IsInjective, Range
<1>2. ASSUME IsInjective(s), e \notin Range(s) PROVE IsInjective(t)
  BY <1>0, <1>2 DEF IsInjective, Range
<1>3. IsInjective(t) <=> IsInjective(s) /\ e \notin Range(s)
  BY <1>1, <1>2
<1> QED BY <1>3 DEF t

LEMMA WhereInjective ==
    ASSUME NEW S, NEW s \in Seq(S), NEW P, IsInjective(s) PROVE IsInjective(Where(s, P))
<1> DEFINE T == {t \in Seq(S) : IsInjective(t) => IsInjective(Where(t, P))}
<1>1. <<>> \in T
  BY WhereEmpty, EmptySeq
<1>2. ASSUME NEW t \in Seq(S), NEW e \in S, t \in T PROVE Append(t, e) \in T
  <2>1. Append(t, e) \in Seq(S) /\ Where(t, P) \in Seq(S)
    BY WhereType, AppendProperties
  <2>2. SUFFICES ASSUME IsInjective(Append(t, e)) PROVE IsInjective(Where(Append(t, e), P))
    BY <2>1
  <2>3. IsInjective(t) /\ e \notin Range(t)
    BY <2>2, InjectiveAppend
  <2>4. IsInjective(Where(t, P)) /\ e \notin Range(Where(t, P))
    BY <1>2, <2>3, WhereRange
  <2>5. IsInjective(Append(Where(t, P), e))
    BY <2>1, <2>4, InjectiveAppend
  <2> QED BY <2>4, <2>5, WhereAppend
<1> HIDE DEF T
<1>3. \A t \in Seq(S) : t \in T
  BY <1>1, <1>2, SequenceInduction
<1> QED BY <1>3 DEF T

\* Keeping commutes with joining.
LEMMA AppendConcat ==
    ASSUME NEW S, NEW s \in Seq(S), NEW t \in Seq(S), NEW e \in S
    PROVE  s \o Append(t, e) = Append(s \o t, e)
<1>1. <<e>> \in Seq(S) /\ s \o t \in Seq(S)
  BY ConcatProperties
<1>2. Append(t, e) = t \o <<e>> /\ Append(s \o t, e) = (s \o t) \o <<e>>
  BY <1>1, AppendIsConcat
<1> QED BY <1>1, <1>2, ConcatAssociative

LEMMA WhereConcat ==
    ASSUME NEW S, NEW s \in Seq(S), NEW t \in Seq(S), NEW P
    PROVE  Where(s \o t, P) = Where(s, P) \o Where(t, P)
<1> DEFINE T == {u \in Seq(S) : Where(s \o u, P) = Where(s, P) \o Where(u, P)}
<1>0. Where(s, P) \in Seq(S)
  BY WhereType
<1>1. <<>> \in T
  BY <1>0, WhereEmpty, EmptySeq, ConcatEmptySeq
<1>2. ASSUME NEW u \in Seq(S), NEW e \in S, u \in T PROVE Append(u, e) \in T
  <2>1. Append(u, e) \in Seq(S) /\ s \o u \in Seq(S) /\ Where(u, P) \in Seq(S)
    BY AppendProperties, ConcatProperties, WhereType
  <2>2. s \o Append(u, e) = Append(s \o u, e)
        /\ Where(s, P) \o Append(Where(u, P), e) = Append(Where(s, P) \o Where(u, P), e)
    BY <1>0, <2>1, AppendConcat
  <2>3. Where(Append(s \o u, e), P) =
           IF e \in P THEN Append(Where(s \o u, P), e) ELSE Where(s \o u, P)
    BY <2>1, WhereAppend
  <2>4. Where(Append(u, e), P) =
           IF e \in P THEN Append(Where(u, P), e) ELSE Where(u, P)
    BY WhereAppend
  <2>5. Where(s \o u, P) = Where(s, P) \o Where(u, P)
    BY <1>2
  <2>6. Where(s \o Append(u, e), P) = Where(s, P) \o Where(Append(u, e), P)
    BY <2>2, <2>3, <2>4, <2>5
  <2> QED BY <2>1, <2>6
<1> HIDE DEF T
<1>3. \A u \in Seq(S) : u \in T
  BY <1>1, <1>2, SequenceInduction
<1> QED BY <1>3 DEF T

\* Conditions that agree on the elements keep the same elements.
LEMMA WhereSame ==
    ASSUME NEW S, NEW s \in Seq(S), NEW P, NEW Q,
           \A e \in Range(s) : e \in P <=> e \in Q
    PROVE  Where(s, P) = Where(s, Q)
<1> DEFINE T == {t \in Seq(S) : (\A e \in Range(t) : e \in P <=> e \in Q)
                                   => Where(t, P) = Where(t, Q)}
<1>1. <<>> \in T
  BY WhereEmpty, EmptySeq
<1>2. ASSUME NEW t \in Seq(S), NEW e \in S, t \in T PROVE Append(t, e) \in T
  <2>1. Append(t, e) \in Seq(S) /\ Range(Append(t, e)) = Range(t) \cup {e}
    BY AppendProperties, RangeAppend
  <2>2. SUFFICES ASSUME \A x \in Range(Append(t, e)) : x \in P <=> x \in Q
                 PROVE  Where(Append(t, e), P) = Where(Append(t, e), Q)
    BY <2>1
  <2>3. Where(t, P) = Where(t, Q) /\ (e \in P <=> e \in Q)
    BY <1>2, <2>1, <2>2
  <2>4. /\ Where(Append(t, e), P) = IF e \in P THEN Append(Where(t, P), e) ELSE Where(t, P)
        /\ Where(Append(t, e), Q) = IF e \in Q THEN Append(Where(t, Q), e) ELSE Where(t, Q)
    BY WhereAppend
  <2> QED BY <2>3, <2>4
<1> HIDE DEF T
<1>3. \A t \in Seq(S) : t \in T
  BY <1>1, <1>2, SequenceInduction
<1> QED BY <1>3 DEF T

LEMMA WhereAll ==
    ASSUME NEW S, NEW s \in Seq(S) PROVE Where(s, S) = s
<1> DEFINE T == {t \in Seq(S) : Where(t, S) = t}
<1>1. <<>> \in T
  BY WhereEmpty, EmptySeq
<1>2. ASSUME NEW t \in Seq(S), NEW e \in S, t \in T PROVE Append(t, e) \in T
  BY <1>2, AppendProperties, WhereAppend
<1> HIDE DEF T
<1>3. \A t \in Seq(S) : t \in T
  BY <1>1, <1>2, SequenceInduction
<1> QED BY <1>3 DEF T

\* Keeping twice keeps what meets both conditions.
LEMMA WhereTwice ==
    ASSUME NEW S, NEW s \in Seq(S), NEW P, NEW Q
    PROVE  Where(Where(s, P), Q) = Where(s, P \cap Q)
<1> DEFINE T == {t \in Seq(S) : Where(Where(t, P), Q) = Where(t, P \cap Q)}
<1>1. <<>> \in T
  BY WhereEmpty, EmptySeq
<1>2. ASSUME NEW t \in Seq(S), NEW e \in S, t \in T PROVE Append(t, e) \in T
  <2>1. Append(t, e) \in Seq(S) /\ Where(t, P) \in Seq(S)
    BY AppendProperties, WhereType
  <2>2. Where(Append(t, e), P) = IF e \in P THEN Append(Where(t, P), e) ELSE Where(t, P)
    BY WhereAppend
  <2>3. Where(Append(Where(t, P), e), Q) =
           IF e \in Q THEN Append(Where(Where(t, P), Q), e) ELSE Where(Where(t, P), Q)
    BY <2>1, WhereAppend
  <2>4. Where(Append(t, e), P \cap Q) =
           IF e \in P \cap Q THEN Append(Where(t, P \cap Q), e) ELSE Where(t, P \cap Q)
    BY WhereAppend
  <2>5. Where(Where(Append(t, e), P), Q) = Where(Append(t, e), P \cap Q)
    <3>1. Where(Where(t, P), Q) = Where(t, P \cap Q)
      BY <1>2
    <3>2. CASE e \in P
      <4>1. Where(Append(t, e), P) = Append(Where(t, P), e)
        BY <2>2, <3>2
      <4>2. Where(Where(Append(t, e), P), Q) = Where(Append(Where(t, P), e), Q)
        BY <4>1
      <4>3. e \in P \cap Q <=> e \in Q
        BY <3>2
      <4> QED BY <2>3, <2>4, <3>1, <4>2, <4>3
    <3>3. CASE e \notin P
      BY <2>2, <2>4, <3>1, <3>3
    <3> QED BY <3>2, <3>3
  <2> QED BY <2>1, <2>5
<1> HIDE DEF T
<1>3. \A t \in Seq(S) : t \in T
  BY <1>1, <1>2, SequenceInduction
<1> QED BY <1>3 DEF T

-----------------------------------------------------------------------------
(* A function on each element. *)

\* The values that f takes on S.
Images(f, S) == {f[x] : x \in S}

LEMMA EachType ==
    ASSUME NEW S, NEW s \in Seq(S), NEW f
    PROVE  /\ Each(s, f) \in Seq(Images(f, S)) /\ Len(Each(s, f)) = Len(s)
           /\ \A i \in 1 .. Len(s) : Each(s, f)[i] = f[s[i]]
<1>0. Len(s) \in Nat /\ DOMAIN s = 1 .. Len(s) /\ \A i \in 1 .. Len(s) : s[i] \in S
  BY LenProperties, ElementOfSeq
<1>1. Each(s, f) = [i \in 1 .. Len(s) |-> f[s[i]]]
  BY <1>0 DEF Each
<1>2. Each(s, f) \in [1 .. Len(s) -> Images(f, S)]
  BY <1>0, <1>1 DEF Images
<1>3. Each(s, f) \in Seq(Images(f, S))
  BY <1>0, <1>2, SeqDef
<1>4. Len(Each(s, f)) = Len(s)
  BY <1>0, <1>2, <1>3, LenProperties
<1> QED BY <1>1, <1>3, <1>4

LEMMA EachEmpty == ASSUME NEW f PROVE Each(<<>>, f) = <<>>
<1>1. <<>> \in Seq({}) /\ Len(<<>>) = 0
  BY EmptySeq
<1>2. Each(<<>>, f) \in [1 .. 0 -> {}]
  BY <1>1, LenProperties DEF Each
<1>3. Each(<<>>, f) \in Seq({})
  BY <1>2, SeqDef
<1>4. Len(Each(<<>>, f)) = 0
  BY <1>2, <1>3, LenProperties
<1> QED BY <1>3, <1>4, EmptySeq

LEMMA EachAppend ==
    ASSUME NEW S, NEW s \in Seq(S), NEW e \in S, NEW f
    PROVE  Each(Append(s, e), f) = Append(Each(s, f), f[e])
<1> DEFINE B == Images(f, S)
           t == Append(s, e)
           l == Each(t, f)
           u == Each(s, f)
           v == f[e]
           r == Append(u, v)
<1>0. /\ t \in Seq(S) /\ Len(t) = Len(s) + 1 /\ Len(s) \in Nat /\ t[Len(s) + 1] = e
      /\ \A i \in 1 .. Len(s) : t[i] = s[i]
  BY AppendProperties, LenProperties
<1>1. v \in B
  BY DEF Images
<1> HIDE DEF t, B, v
<1>2. l \in Seq(B) /\ Len(l) = Len(t) /\ \A i \in 1 .. Len(t) : l[i] = f[t[i]]
  BY <1>0, EachType DEF B
<1>3. u \in Seq(B) /\ Len(u) = Len(s) /\ \A i \in 1 .. Len(s) : u[i] = f[s[i]]
  BY EachType DEF B
<1> HIDE DEF u, l
<1>4. /\ r \in Seq(B) /\ Len(r) = Len(u) + 1 /\ r[Len(u) + 1] = v
      /\ \A i \in 1 .. Len(u) : r[i] = u[i]
  BY <1>1, <1>3, AppendProperties
<1> HIDE DEF r
<1>5. l[Len(s) + 1] = v
  <2>1. Len(s) + 1 \in 1 .. Len(t)
    BY <1>0
  <2> QED BY <1>0, <1>2, <2>1 DEF v
<1>6. \A i \in 1 .. Len(l) : l[i] = r[i]
  <2> SUFFICES ASSUME NEW i \in 1 .. Len(l) PROVE l[i] = r[i]
    OBVIOUS
  <2>1. i \in 1 .. Len(s) \/ i = Len(s) + 1
    BY <1>0, <1>2
  <2>2. CASE i \in 1 .. Len(s)
    <3>1. l[i] = f[t[i]] /\ t[i] = s[i]
      BY <1>0, <1>2, <2>2
    <3>2. r[i] = u[i] /\ u[i] = f[s[i]]
      BY <1>3, <1>4, <2>2
    <3> QED BY <3>1, <3>2
  <2>3. CASE i = Len(s) + 1
    BY <1>3, <1>4, <1>5, <2>3
  <2> QED BY <2>1, <2>2, <2>3
<1>7. Len(l) = Len(r)
  BY <1>0, <1>2, <1>3, <1>4
<1>8. l = r
  BY <1>2, <1>4, <1>6, <1>7, SeqEqual
<1> QED BY <1>8 DEF l, r, t, u, v

\* What is kept of the values comes from the elements whose values are kept.
LEMMA WhereEach ==
    ASSUME NEW S, NEW s \in Seq(S), NEW f, NEW Q
    PROVE  Where(Each(s, f), Q) = Each(Where(s, {x \in S : f[x] \in Q}), f)
<1> DEFINE P == {x \in S : f[x] \in Q}
           T == {t \in Seq(S) : Where(Each(t, f), Q) = Each(Where(t, P), f)}
<1>1. <<>> \in T
  BY WhereEmpty, EachEmpty, EmptySeq
<1>2. ASSUME NEW t \in Seq(S), NEW e \in S, t \in T PROVE Append(t, e) \in T
  <2>1. /\ Append(t, e) \in Seq(S) /\ Where(t, P) \in Seq(S) /\ Each(t, f) \in Seq(Images(f, S))
        /\ f[e] \in Images(f, S)
    BY AppendProperties, WhereType, EachType DEF Images
  <2>2. Where(Append(Each(t, f), f[e]), Q) =
           IF f[e] \in Q THEN Append(Where(Each(t, f), Q), f[e]) ELSE Where(Each(t, f), Q)
    <3> DEFINE u == Each(t, f)
               v == f[e]
    <3> HIDE DEF u, v
    <3>1. Where(Append(u, v), Q) = IF v \in Q THEN Append(Where(u, Q), v) ELSE Where(u, Q)
      <4>1. u \in Seq(Images(f, S)) /\ v \in Images(f, S)
        BY <2>1 DEF u, v
      <4> QED BY <4>1, WhereAppend
    <3> QED BY <3>1 DEF u, v
  <2>3. Where(Append(t, e), P) = IF e \in P THEN Append(Where(t, P), e) ELSE Where(t, P)
    BY WhereAppend
  <2>4. Each(Append(Where(t, P), e), f) = Append(Each(Where(t, P), f), f[e])
    <3> HIDE DEF P
    <3> QED BY <2>1, EachAppend
  <2>5. Each(Append(t, e), f) = Append(Each(t, f), f[e])
    <3> HIDE DEF P
    <3> QED BY EachAppend
  <2>6. (e \in P <=> f[e] \in Q) /\ Where(Each(t, f), Q) = Each(Where(t, P), f)
    BY <1>2
  <2> HIDE DEF P
  <2>7. Where(Each(Append(t, e), f), Q) = Each(Where(Append(t, e), P), f)
    BY <2>2, <2>3, <2>4, <2>5, <2>6
  <2> QED BY <2>1, <2>7
<1> HIDE DEF T
<1>3. \A t \in Seq(S) : t \in T
  BY <1>1, <1>2, SequenceInduction
<1> QED BY <1>3 DEF T

LEMMA EachRange ==
    ASSUME NEW S, NEW s \in Seq(S), NEW f
    PROVE  Range(Each(s, f)) = {f[x] : x \in Range(s)}
<1>1. DOMAIN s = DOMAIN Each(s, f) /\ \A i \in DOMAIN s : Each(s, f)[i] = f[s[i]]
  BY DEF Each
<1> DEFINE t == Each(s, f)
<1>2. DOMAIN s = DOMAIN t /\ \A i \in DOMAIN s : t[i] = f[s[i]]
  BY <1>1
<1> HIDE DEF t
<1>3. Range(t) = {f[x] : x \in Range(s)}
  <2>1. ASSUME NEW y \in Range(t) PROVE \E x \in Range(s) : y = f[x]
    BY <1>2 DEF Range
  <2>2. ASSUME NEW x \in Range(s) PROVE f[x] \in Range(t)
    BY <1>2 DEF Range
  <2> QED BY <2>1, <2>2
<1> QED BY <1>3 DEF t

\* Functions that agree on the elements make the same of the sequence.
LEMMA EachSame ==
    ASSUME NEW S, NEW s \in Seq(S), NEW f, NEW g, \A x \in Range(s) : f[x] = g[x]
    PROVE  Each(s, f) = Each(s, g)
<1>1. \A i \in DOMAIN s : f[s[i]] = g[s[i]]
  BY DEF Range
<1> QED BY <1>1, Zenon DEF Each

LEMMA EachTwice ==
    ASSUME NEW S, NEW s \in Seq(S), NEW f, NEW g, NEW h,
           \A x \in Range(s) : h[x] = g[f[x]]
    PROVE  Each(Each(s, f), g) = Each(s, h)
<1>1. \A i \in DOMAIN s : h[s[i]] = g[f[s[i]]]
  BY DEF Range
<1>2. DOMAIN Each(s, f) = DOMAIN s /\ \A i \in DOMAIN s : Each(s, f)[i] = f[s[i]]
  BY DEF Each
<1>3. Each(Each(s, f), g) = [i \in DOMAIN s |-> g[Each(s, f)[i]]]
  BY <1>2, Zenon DEF Each
<1>4. \A i \in DOMAIN s : g[Each(s, f)[i]] = h[s[i]]
  BY <1>1, <1>2
<1> HIDE DEF Each
<1>5. [i \in DOMAIN s |-> g[Each(s, f)[i]]] = [i \in DOMAIN s |-> h[s[i]]]
  BY <1>4
<1> QED BY <1>3, <1>5 DEF Each


LEMMA EachConcat ==
    ASSUME NEW S, NEW s \in Seq(S), NEW t \in Seq(S), NEW f
    PROVE  Each(s \o t, f) = Each(s, f) \o Each(t, f)
<1> DEFINE B == Images(f, S)
           T == {u \in Seq(S) : Each(s \o u, f) = Each(s, f) \o Each(u, f)}
<1>0. Each(s, f) \in Seq(B)
  BY EachType
<1>1. <<>> \in T
  BY <1>0, EachEmpty, EmptySeq, ConcatEmptySeq
<1>2. ASSUME NEW u \in Seq(S), NEW e \in S, u \in T PROVE Append(u, e) \in T
  <2>1. Append(u, e) \in Seq(S) /\ s \o u \in Seq(S) /\ Each(u, f) \in Seq(B) /\ f[e] \in B
    BY AppendProperties, ConcatProperties, EachType DEF Images
  <2>2. Each(s \o Append(u, e), f) = Append(Each(s \o u, f), f[e])
    <3> DEFINE w == s \o u
    <3>1. s \o Append(u, e) = Append(w, e) /\ w \in Seq(S)
      BY <2>1, AppendConcat
    <3> HIDE DEF w
    <3>2. Each(Append(w, e), f) = Append(Each(w, f), f[e])
      BY <3>1, EachAppend
    <3> QED BY <3>1, <3>2 DEF w
  <2>3. Each(s, f) \o Each(Append(u, e), f) = Append(Each(s, f) \o Each(u, f), f[e])
    <3> DEFINE a == Each(s, f)
               b == Each(u, f)
               v == f[e]
    <3>1. Each(Append(u, e), f) = Append(b, v)
      BY EachAppend
    <3>2. a \in Seq(B) /\ b \in Seq(B) /\ v \in B
      BY <1>0, <2>1
    <3> HIDE DEF a, b, v, B
    <3>3. a \o Append(b, v) = Append(a \o b, v)
      BY <3>2, AppendConcat
    <3> QED BY <3>1, <3>3 DEF a, b, v
  <2> QED BY <1>2, <2>1, <2>2, <2>3
<1> HIDE DEF T
<1>3. \A u \in Seq(S) : u \in T
  BY <1>1, <1>2, SequenceInduction
<1> QED BY <1>3 DEF T

-----------------------------------------------------------------------------
(* Splitting, and sequences without repetition.                             *)

LEMMA SplitSeq ==
    ASSUME NEW S, NEW s \in Seq(S), NEW n \in 0 .. Len(s)
    PROVE  LET front == SubSeq(s, 1, n)
               rest == SubSeq(s, n + 1, Len(s))
           IN  /\ front \in Seq(S) /\ rest \in Seq(S) /\ Len(front) = n
               /\ s = front \o rest
<1> DEFINE front == SubSeq(s, 1, n)
           rest == SubSeq(s, n + 1, Len(s))
<1>0. Len(s) \in Nat /\ \A i \in 1 .. Len(s) : s[i] \in S
  BY LenProperties, ElementOfSeq
<1>1. /\ front \in Seq(S) /\ Len(front) = n
      /\ \A i \in 1 .. n : front[i] = s[i]
  <2>1. \A i \in 1 .. n : s[i] \in S
    BY <1>0
  <2>2. /\ front \in Seq(S) /\ Len(front) = IF 1 <= n THEN n - 1 + 1 ELSE 0
        /\ \A i \in 1 .. n - 1 + 1 : front[i] = s[1 + i - 1]
    BY <2>1, SubSeqProperties
  <2> HIDE DEF front
  <2> QED BY <1>0, <2>2
<1>2. /\ rest \in Seq(S) /\ Len(rest) = Len(s) - n
      /\ \A i \in 1 .. Len(s) - n : rest[i] = s[n + i]
  <2>1. \A i \in n + 1 .. Len(s) : s[i] \in S
    BY <1>0
  <2>2. n + 1 \in Int /\ Len(s) \in Int
    BY <1>0
  <2>3. /\ rest \in Seq(S)
        /\ Len(rest) = IF n + 1 <= Len(s) THEN Len(s) - (n + 1) + 1 ELSE 0
        /\ \A i \in 1 .. Len(s) - (n + 1) + 1 : rest[i] = s[(n + 1) + i - 1]
    BY <2>1, <2>2, SubSeqProperties
  <2> HIDE DEF rest
  <2>4. \A i \in 1 .. Len(s) - n : (n + 1) + i - 1 = n + i
    BY <1>0
  <2>5. Len(s) - (n + 1) + 1 = Len(s) - n /\ Len(s) - n \in Nat
    BY <1>0
  <2>6. Len(rest) = Len(s) - n
    <3>1. CASE n + 1 <= Len(s)
      BY <2>3, <2>5, <3>1
    <3>2. CASE ~(n + 1 <= Len(s))
      <4>1. Len(rest) = 0
        BY <2>3, <3>2
      <4>2. Len(s) - n = 0
        BY <1>0, <3>2
      <4> QED BY <4>1, <4>2
    <3> QED BY <3>1, <3>2
  <2>7. ASSUME NEW i \in 1 .. Len(s) - n PROVE rest[i] = s[n + i]
    <3>1. rest[i] = s[(n + 1) + i - 1]
      BY <2>3, <2>5
    <3> QED BY <2>4, <3>1
  <2> QED BY <2>3, <2>6, <2>7
<1> HIDE DEF front, rest
<1>3. /\ front \o rest \in Seq(S) /\ Len(front \o rest) = Len(s)
      /\ \A i \in 1 .. Len(s) : (front \o rest)[i] = IF i <= n THEN front[i] ELSE rest[i - n]
  <2>1. /\ front \o rest \in Seq(S) /\ Len(front \o rest) = Len(front) + Len(rest)
        /\ \A i \in 1 .. Len(front) + Len(rest) :
              (front \o rest)[i] = IF i <= Len(front) THEN front[i] ELSE rest[i - Len(front)]
    BY <1>1, <1>2, ConcatProperties
  <2>2. Len(front) = n /\ Len(front) + Len(rest) = Len(s)
    BY <1>0, <1>1, <1>2
  <2> QED BY <2>1, <2>2
<1>4. \A i \in 1 .. Len(s) : (front \o rest)[i] = s[i]
  <2> SUFFICES ASSUME NEW i \in 1 .. Len(s) PROVE (front \o rest)[i] = s[i]
    OBVIOUS
  <2>1. CASE i <= n
    BY <1>1, <1>3, <2>1
  <2>2. CASE i > n
    <3>1. i - n \in 1 .. Len(s) - n /\ n + (i - n) = i /\ ~(i <= n)
      BY <1>0, <2>2
    <3>2. rest[i - n] = s[i]
      BY <1>2, <3>1
    <3> QED BY <1>3, <3>1, <3>2
  <2>3. i <= n \/ i > n
    BY <1>0
  <2> QED BY <2>1, <2>2, <2>3
<1>5. s = front \o rest
  <2> DEFINE t == front \o rest
  <2>1. t \in Seq(S) /\ Len(t) = Len(s) /\ \A i \in 1 .. Len(s) : t[i] = s[i]
    BY <1>3, <1>4
  <2> HIDE DEF t
  <2>2. s = t
    BY <2>1, SeqEqual
  <2> QED BY <2>2 DEF t
<1> QED BY <1>1, <1>2, <1>5 DEF front, rest

LEMMA ConcatInjective ==
    ASSUME NEW S, NEW s \in Seq(S), NEW t \in Seq(S)
    PROVE  IsInjective(s \o t) <=>
              IsInjective(s) /\ IsInjective(t) /\ Range(s) \cap Range(t) = {}
<1> DEFINE T == {u \in Seq(S) :
                    IsInjective(s \o u) <=>
                       IsInjective(s) /\ IsInjective(u) /\ Range(s) \cap Range(u) = {}}
<1>1. <<>> \in T
  <2>1. IsInjective(<<>>) /\ <<>> \in Seq(S)
    BY EmptySeq DEF IsInjective
  <2> QED BY <2>1, RangeEmpty, ConcatEmptySeq
<1>2. ASSUME NEW u \in Seq(S), NEW e \in S, u \in T PROVE Append(u, e) \in T
  <2>1. Append(u, e) \in Seq(S) /\ s \o u \in Seq(S) /\ s \o Append(u, e) = Append(s \o u, e)
        /\ Range(Append(u, e)) = Range(u) \cup {e} /\ Range(s \o u) = Range(s) \cup Range(u)
    BY AppendProperties, ConcatProperties, AppendConcat, RangeAppend, RangeConcatenation
  <2>2. IsInjective(Append(s \o u, e)) <=> IsInjective(s \o u) /\ e \notin Range(s \o u)
    BY <2>1, InjectiveAppend
  <2>3. IsInjective(Append(u, e)) <=> IsInjective(u) /\ e \notin Range(u)
    BY InjectiveAppend
  <2> QED BY <1>2, <2>1, <2>2, <2>3
<1> HIDE DEF T
<1>3. \A u \in Seq(S) : u \in T
  BY <1>1, <1>2, SequenceInduction
<1> QED BY <1>3 DEF T

\* Of a sequence without repetition, keeping one element leaves that element.
LEMMA WhereOne ==
    ASSUME NEW S, NEW s \in Seq(S), NEW e \in Range(s), IsInjective(s)
    PROVE  Where(s, {e}) = <<e>>
<1> DEFINE T == {t \in Seq(S) :
                    IsInjective(t) => Where(t, {e}) = IF e \in Range(t) THEN <<e>> ELSE <<>>}
<1>1. <<>> \in T
  BY WhereEmpty, RangeEmpty, EmptySeq
<1>2. ASSUME NEW t \in Seq(S), NEW x \in S, t \in T PROVE Append(t, x) \in T
  <2>1. Append(t, x) \in Seq(S) /\ Range(Append(t, x)) = Range(t) \cup {x}
    BY AppendProperties, RangeAppend
  <2>2. SUFFICES ASSUME IsInjective(Append(t, x))
                 PROVE  Where(Append(t, x), {e}) =
                           IF e \in Range(Append(t, x)) THEN <<e>> ELSE <<>>
    BY <2>1
  <2>3. IsInjective(t) /\ x \notin Range(t)
    BY <2>2, InjectiveAppend
  <2>4. Where(t, {e}) = IF e \in Range(t) THEN <<e>> ELSE <<>>
    BY <1>2, <2>3
  <2>5. Where(Append(t, x), {e}) = IF x = e THEN Append(Where(t, {e}), x) ELSE Where(t, {e})
    <3>1. x \in {e} <=> x = e
      OBVIOUS
    <3> QED BY <3>1, WhereAppend
  <2>6. CASE x = e
    <3>1. Where(t, {e}) = <<>>
      BY <2>3, <2>4, <2>6
    <3>2. Append(<<>>, e) = <<e>>
      OBVIOUS
    <3> QED BY <2>1, <2>5, <2>6, <3>1, <3>2
  <2>7. CASE x # e
    BY <2>1, <2>4, <2>5, <2>7
  <2> QED BY <2>6, <2>7
<1> HIDE DEF T
<1>3. \A t \in Seq(S) : t \in T
  BY <1>1, <1>2, SequenceInduction
<1> QED BY <1>3 DEF T


-----------------------------------------------------------------------------
(* Total, of numbers that a function gives the elements.                    *)

\* What Total has added up after each element.
Sums(s, sum) ==
    /\ sum[0] = 0
    /\ \A i \in 1 .. Len(s) : sum[i] = sum[i - 1] + s[i]

\* The recursion of Total is well founded.
LEMMA TotalUnfolds ==
    ASSUME NEW s \in Seq(Int)
    PROVE  \E sum \in [0 .. Len(s) -> Int] : Sums(s, sum) /\ Total(s) = sum[Len(s)]
<1> DEFINE n == Len(s)
           Walk(f) == [i \in 0 .. n |-> IF i = 0 THEN 0 ELSE f[i - 1] + s[i]]
           walked == CHOOSE f : f = Walk(f)
           step == [i \in 1 .. n |-> [r \in Int |-> r + s[i]]]
<1>1. n \in Nat /\ \A i \in 1 .. n : s[i] \in Int
  BY LenProperties, ElementOfSeq
<1>2. Total(s) = walked[n]
  BY DEF Total
<1> HIDE DEF n
<1>3. step \in [1 .. n -> [Int -> Int]] /\ \A i \in 1 .. n, r \in Int : step[i][r] = r + s[i]
  BY <1>1
<1>4. PICK f \in [0 .. n -> Int] :
         f[0] = 0 /\ \A i \in 1 .. n : f[i] = step[i][f[i - 1]]
  <2>1. \E f : Follows(f, n, Int, 0, step)
    <3>1. 0 \in Int
      OBVIOUS
    <3> HIDE DEF step
    <3> QED BY <1>1, <1>3, <3>1, IntervalRecursion
  <2> HIDE DEF step
  <2> QED BY <2>1 DEF Follows
<1>5. \A i \in 1 .. n : f[i] = f[i - 1] + s[i]
  <2> SUFFICES ASSUME NEW i \in 1 .. n PROVE f[i] = f[i - 1] + s[i]
    OBVIOUS
  <2>1. f[i - 1] \in Int
    BY <1>1
  <2> HIDE DEF step
  <2> QED BY <1>3, <1>4, <2>1
<1>6. f = Walk(f)
  BY <1>1, <1>4, <1>5
<1>7. walked = Walk(walked)
  BY <1>6, Zenon
<1> HIDE DEF walked
<1>8. walked[0] = 0 /\ \A i \in 1 .. n : walked[i] = walked[i - 1] + s[i]
  BY <1>1, <1>7
<1> DEFINE U == {i \in 0 .. n : walked[i] \in Int}
<1>9. 0 \in U
  BY <1>1, <1>8
<1>10. ASSUME NEW i \in 0 .. n - 1, i \in U PROVE i + 1 \in U
  <2>1. i + 1 \in 1 .. n /\ (i + 1) - 1 = i /\ walked[i] \in Int
    BY <1>1, <1>10
  <2>2. walked[i + 1] = walked[i] + s[i + 1] /\ s[i + 1] \in Int
    BY <1>1, <1>8, <2>1
  <2>3. i + 1 \in 0 .. n
    BY <1>1, <2>1
  <2> QED BY <2>1, <2>2, <2>3
<1>11. \A i \in 0 .. n : i \in U
  <2> HIDE DEF U
  <2> QED BY <1>1, <1>9, <1>10, IntervalInduction
<1>12. walked = [i \in 0 .. n |-> walked[i]]
  BY <1>7
<1>13. walked \in [0 .. n -> Int] /\ Sums(s, walked)
  <2>1. \A i \in 0 .. n : walked[i] \in Int
    BY <1>11
  <2>2. walked \in [0 .. n -> Int]
    BY <1>12, <2>1
  <2> QED BY <1>8, <2>2 DEF Sums, n
<1> QED BY <1>2, <1>13 DEF n

LEMMA TotalEmpty == Total(<<>>) = 0
<1>1. <<>> \in Seq(Int) /\ Len(<<>>) = 0
  BY EmptySeq
<1>2. PICK sum \in [0 .. Len(<<>>) -> Int] : Sums(<<>>, sum) /\ Total(<<>>) = sum[Len(<<>>)]
  BY <1>1, TotalUnfolds
<1> QED BY <1>1, <1>2 DEF Sums

LEMMA TotalAppend ==
    ASSUME NEW s \in Seq(Int), NEW e \in Int
    PROVE  Total(s) \in Int /\ Total(Append(s, e)) = Total(s) + e
<1> DEFINE t == Append(s, e)
<1>0. /\ Len(s) \in Nat /\ t \in Seq(Int) /\ Len(t) = Len(s) + 1
      /\ t[Len(s) + 1] = e /\ \A i \in 1 .. Len(s) : t[i] = s[i]
  BY LenProperties, AppendProperties
<1> HIDE DEF t
<1>1. PICK sum \in [0 .. Len(s) -> Int] : Sums(s, sum) /\ Total(s) = sum[Len(s)]
  BY TotalUnfolds
<1>2. PICK more \in [0 .. Len(t) -> Int] : Sums(t, more) /\ Total(t) = more[Len(t)]
  BY <1>0, TotalUnfolds
<1> DEFINE U == {i \in 0 .. Len(s) : more[i] = sum[i]}
<1>3. 0 \in U
  BY <1>0, <1>1, <1>2 DEF Sums
<1>4. ASSUME NEW i \in 0 .. Len(s) - 1, i \in U PROVE i + 1 \in U
  <2>1. i + 1 \in 1 .. Len(s) /\ i + 1 \in 1 .. Len(t) /\ (i + 1) - 1 = i
    BY <1>0
  <2>2. sum[i + 1] = sum[i] + s[i + 1] /\ more[i + 1] = more[i] + t[i + 1]
    BY <1>1, <1>2, <2>1 DEF Sums
  <2>3. t[i + 1] = s[i + 1] /\ more[i] = sum[i]
    BY <1>0, <1>4, <2>1
  <2>4. more[i + 1] = sum[i + 1] /\ i + 1 \in 0 .. Len(s)
    BY <1>0, <2>2, <2>3
  <2> QED BY <2>4
<1>5. \A i \in 0 .. Len(s) : i \in U
  <2> HIDE DEF U
  <2> QED BY <1>0, <1>3, <1>4, IntervalInduction
<1>6. more[Len(s)] = sum[Len(s)]
  BY <1>0, <1>5
<1>7. more[Len(s) + 1] = more[Len(s)] + e
  <2>1. Len(s) + 1 \in 1 .. Len(t) /\ (Len(s) + 1) - 1 = Len(s)
    BY <1>0
  <2> QED BY <1>0, <1>2, <2>1 DEF Sums
<1>8. Total(s) \in Int /\ Total(t) = Total(s) + e
  BY <1>0, <1>1, <1>2, <1>6, <1>7
<1> QED BY <1>8 DEF t

\* A function from S to the numbers.
Weighs(w, S) == \A x \in S : w[x] \in Int

LEMMA WeightType ==
    ASSUME NEW S, NEW s \in Seq(S), NEW w, Weighs(w, S)
    PROVE  Each(s, w) \in Seq(Int) /\ Total(Each(s, w)) \in Int
<1>1. Images(w, S) \subseteq Int
  BY DEF Images, Weighs
<1>2. Each(s, w) \in Seq(Images(w, S))
  BY EachType
<1>3. Each(s, w) \in Seq(Int)
  BY <1>1, <1>2, SeqMonotonic
<1> DEFINE t == Each(s, w)
<1> HIDE DEF t
<1>4. Total(t) \in Int
  <2>1. t \in Seq(Int) /\ 0 \in Int
    BY <1>3 DEF t
  <2> QED BY <2>1, TotalAppend
<1> QED BY <1>3, <1>4 DEF t

LEMMA WeightAppend ==
    ASSUME NEW S, NEW s \in Seq(S), NEW e \in S, NEW w, Weighs(w, S)
    PROVE  Total(Each(Append(s, e), w)) = Total(Each(s, w)) + w[e]
<1> DEFINE t == Each(s, w)
           v == w[e]
<1>1. Each(Append(s, e), w) = Append(t, v)
  BY EachAppend
<1>2. t \in Seq(Int) /\ v \in Int
  BY WeightType DEF Weighs
<1> HIDE DEF t, v
<1>3. Total(Append(t, v)) = Total(t) + v
  BY <1>2, TotalAppend
<1> QED BY <1>1, <1>3 DEF t, v

LEMMA WeightConcat ==
    ASSUME NEW S, NEW s \in Seq(S), NEW t \in Seq(S), NEW w, Weighs(w, S)
    PROVE  Total(Each(s \o t, w)) = Total(Each(s, w)) + Total(Each(t, w))
<1> DEFINE W(u) == Total(Each(u, w))
           T == {u \in Seq(S) : W(s \o u) = W(s) + W(u)}
<1>0. /\ \A u \in Seq(S) : W(u) \in Int
      /\ \A u \in Seq(S), e \in S : W(Append(u, e)) = W(u) + w[e]
      /\ \A e \in S : w[e] \in Int
      /\ W(<<>>) = 0
  BY WeightType, WeightAppend, EachEmpty, TotalEmpty DEF Weighs
<1> HIDE DEF W
<1>1. <<>> \in T
  BY <1>0, EmptySeq, ConcatEmptySeq
<1>2. ASSUME NEW u \in Seq(S), NEW e \in S, u \in T PROVE Append(u, e) \in T
  <2>1. Append(u, e) \in Seq(S) /\ s \o u \in Seq(S) /\ s \o Append(u, e) = Append(s \o u, e)
    BY AppendProperties, ConcatProperties, AppendConcat
  <2>2. W(s \o Append(u, e)) = W(s \o u) + w[e] /\ W(Append(u, e)) = W(u) + w[e]
    BY <1>0, <2>1
  <2>3. W(s \o u) = W(s) + W(u)
    BY <1>2
  <2>4. W(s) \in Int /\ W(u) \in Int /\ w[e] \in Int
    BY <1>0
  <2>5. W(s \o Append(u, e)) = W(s) + W(Append(u, e))
    BY <2>2, <2>3, <2>4
  <2> QED BY <2>1, <2>5
<1> HIDE DEF T
<1>3. \A u \in Seq(S) : u \in T
  BY <1>1, <1>2, SequenceInduction
<1> QED BY <1>3 DEF T, W

\* What is kept and what is not weigh as much as the whole.
LEMMA WeightSplit ==
    ASSUME NEW S, NEW s \in Seq(S), NEW w, Weighs(w, S), NEW P
    PROVE  Total(Each(s, w)) = Total(Each(Where(s, P), w)) + Total(Each(Where(s, S \ P), w))
<1> DEFINE W(u) == Total(Each(u, w))
           T == {u \in Seq(S) : W(u) = W(Where(u, P)) + W(Where(u, S \ P))}
<1>0. /\ \A u \in Seq(S) : W(u) \in Int
      /\ \A u \in Seq(S), e \in S : W(Append(u, e)) = W(u) + w[e]
      /\ \A e \in S : w[e] \in Int
      /\ W(<<>>) = 0
  BY WeightType, WeightAppend, EachEmpty, TotalEmpty DEF Weighs
<1> HIDE DEF W
<1>1. <<>> \in T
  BY <1>0, EmptySeq, WhereEmpty
<1>2. ASSUME NEW u \in Seq(S), NEW e \in S, u \in T PROVE Append(u, e) \in T
  <2> DEFINE in == Where(u, P)
             out == Where(u, S \ P)
  <2>1. Append(u, e) \in Seq(S) /\ in \in Seq(S) /\ out \in Seq(S)
    BY AppendProperties, WhereType
  <2>2. Where(Append(u, e), P) = IF e \in P THEN Append(in, e) ELSE in
    BY WhereAppend
  <2>3. Where(Append(u, e), S \ P) = IF e \notin P THEN Append(out, e) ELSE out
    <3> DEFINE Q == S \ P
    <3>1. e \in Q <=> e \notin P
      OBVIOUS
    <3> HIDE DEF Q
    <3>2. Where(Append(u, e), Q) = IF e \in Q THEN Append(Where(u, Q), e) ELSE Where(u, Q)
      BY WhereAppend
    <3>3. Where(Append(u, e), Q) = IF e \notin P THEN Append(Where(u, Q), e) ELSE Where(u, Q)
      BY <3>1, <3>2
    <3> QED BY <3>3 DEF Q
  <2>4. W(u) = W(in) + W(out)
    BY <1>2
  <2> HIDE DEF in, out
  <2>5. /\ W(u) \in Int /\ W(in) \in Int /\ W(out) \in Int /\ w[e] \in Int
        /\ W(Append(u, e)) = W(u) + w[e] /\ W(Append(in, e)) = W(in) + w[e]
        /\ W(Append(out, e)) = W(out) + w[e]
    BY <1>0, <2>1
  <2>6. W(Append(u, e)) = W(Where(Append(u, e), P)) + W(Where(Append(u, e), S \ P))
    <3>1. CASE e \in P
      <4>1. Where(Append(u, e), P) = Append(in, e) /\ Where(Append(u, e), S \ P) = out
        BY <2>2, <2>3, <3>1
      <4>2. W(Append(u, e)) = W(Append(in, e)) + W(out)
        BY <2>4, <2>5
      <4> QED BY <4>1, <4>2
    <3>2. CASE e \notin P
      <4>1. Where(Append(u, e), P) = in /\ Where(Append(u, e), S \ P) = Append(out, e)
        BY <2>2, <2>3, <3>2
      <4>2. W(Append(u, e)) = W(in) + W(Append(out, e))
        BY <2>4, <2>5
      <4> QED BY <4>1, <4>2
    <3> QED BY <3>1, <3>2
  <2> QED BY <2>1, <2>6
<1> HIDE DEF T
<1>3. \A u \in Seq(S) : u \in T
  BY <1>1, <1>2, SequenceInduction
<1> QED BY <1>3 DEF T, W

-----------------------------------------------------------------------------
(* Folded. *)

\* The steps for elements of S stay in A.
StepsIn(step, S, A) == \A e \in S, a \in A : step[e][a] \in A

\* done begins with base, and each element makes of it what step says.
Folding(s, base, step, done) ==
    /\ done[0] = base
    /\ \A i \in 1 .. Len(s) : done[i] = step[s[i]][done[i - 1]]

\* The recursion of Folded is well founded.
LEMMA FoldedUnfolds ==
    ASSUME NEW S, NEW s \in Seq(S), NEW A, NEW base \in A, NEW step,
           StepsIn(step, S, A)
    PROVE  \E done \in [0 .. Len(s) -> A] :
              Folding(s, base, step, done) /\ Folded(s, base, step) = done[Len(s)]
<1> DEFINE n == Len(s)
           Next(i, a) == step[s[i]][a]
           Walk(f) == [i \in 0 .. n |-> IF i = 0 THEN base ELSE Next(i, f[i - 1])]
           walked == CHOOSE f : f = Walk(f)
           steps == [i \in 1 .. n |-> [a \in A |-> Next(i, a)]]
<1>1. n \in Nat /\ \A i \in 1 .. n : s[i] \in S
  BY LenProperties, ElementOfSeq
<1>2. \A i \in 1 .. n, a \in A : Next(i, a) \in A
  BY <1>1 DEF StepsIn
<1>3. Folded(s, base, step) = walked[n]
  BY DEF Folded
<1>4. ASSUME NEW f
      PROVE  Folding(s, base, step, f) <=>
                f[0] = base /\ \A i \in 1 .. n : f[i] = Next(i, f[i - 1])
  BY DEF Folding
<1> HIDE DEF n, Next
<1>5. steps \in [1 .. n -> [A -> A]] /\ \A i \in 1 .. n, a \in A : steps[i][a] = Next(i, a)
  BY <1>2
<1>6. PICK f \in [0 .. n -> A] :
         f[0] = base /\ \A i \in 1 .. n : f[i] = steps[i][f[i - 1]]
  <2>1. \E f : Follows(f, n, A, base, steps)
    <3> HIDE DEF steps
    <3> QED BY <1>1, <1>5, IntervalRecursion
  <2> HIDE DEF steps
  <2> QED BY <2>1 DEF Follows
<1>7. \A i \in 1 .. n : f[i] = Next(i, f[i - 1])
  <2> SUFFICES ASSUME NEW i \in 1 .. n PROVE f[i] = Next(i, f[i - 1])
    OBVIOUS
  <2>1. f[i - 1] \in A
    BY <1>1
  <2> HIDE DEF steps
  <2> QED BY <1>5, <1>6, <2>1
<1>8. f = Walk(f)
  BY <1>1, <1>6, <1>7
<1>9. walked = Walk(walked)
  BY <1>8, Zenon
<1> HIDE DEF walked
<1>10. walked[0] = base /\ \A i \in 1 .. n : walked[i] = Next(i, walked[i - 1])
  BY <1>1, <1>9
<1> DEFINE U == {i \in 0 .. n : walked[i] \in A}
<1>11. 0 \in U
  BY <1>1, <1>10
<1>12. ASSUME NEW i \in 0 .. n - 1, i \in U PROVE i + 1 \in U
  <2>1. i + 1 \in 1 .. n /\ (i + 1) - 1 = i /\ walked[i] \in A
    BY <1>1, <1>12
  <2>2. walked[i + 1] \in A
    BY <1>2, <1>10, <2>1
  <2> QED BY <1>1, <2>1, <2>2
<1>13. \A i \in 0 .. n : i \in U
  <2>1. \A i \in 0 .. n - 1 : i \in U => i + 1 \in U
    BY <1>12
  <2> HIDE DEF U
  <2> QED BY <1>1, <1>11, <2>1, IntervalInduction
<1>14. walked = [i \in 0 .. n |-> walked[i]]
  BY <1>9
<1>15. walked \in [0 .. n -> A]
  <2>1. \A i \in 0 .. n : walked[i] \in A
    BY <1>13
  <2> QED BY <1>14, <2>1
<1>16. Folding(s, base, step, walked)
  BY <1>4, <1>10
<1> QED BY <1>3, <1>15, <1>16 DEF n

\* The steps for the elements of s stay in T.
FoldKeeps(T, s, A, step) ==
    \A i \in 1 .. Len(s), a \in A : <<i - 1, a>> \in T => <<i, step[s[i]][a]>> \in T

\* Induction along a fold; T is the set of the pairs <<i, a>> such that a has
\* the property after i elements.
LEMMA FoldedInduction ==
    ASSUME NEW S, NEW s \in Seq(S), NEW A, NEW base \in A, NEW step,
           StepsIn(step, S, A),
           NEW T, <<0, base>> \in T, FoldKeeps(T, s, A, step)
    PROVE  Folded(s, base, step) \in A /\ <<Len(s), Folded(s, base, step)>> \in T
<1>1. PICK done \in [0 .. Len(s) -> A] :
         Folding(s, base, step, done) /\ Folded(s, base, step) = done[Len(s)]
  BY FoldedUnfolds
<1>2. Len(s) \in Nat
  BY LenProperties
<1> DEFINE U == {i \in 0 .. Len(s) : <<i, done[i]>> \in T}
<1>3. 0 \in U
  BY <1>1, <1>2 DEF Folding
<1>4. ASSUME NEW i \in 0 .. Len(s) - 1, i \in U PROVE i + 1 \in U
  <2>1. /\ i + 1 \in 1 .. Len(s) /\ (i + 1) - 1 = i /\ i + 1 \in 0 .. Len(s)
        /\ i \in 0 .. Len(s) /\ <<i, done[i]>> \in T
    BY <1>2, <1>4
  <2>2. done[i] \in A /\ done[i + 1] = step[s[i + 1]][done[i]]
    BY <1>1, <2>1 DEF Folding
  <2>3. <<i + 1, done[i + 1]>> \in T
    BY <2>1, <2>2 DEF FoldKeeps
  <2> QED BY <2>1, <2>3
<1>5. \A i \in 0 .. Len(s) : i \in U
  <2>1. \A i \in 0 .. Len(s) - 1 : i \in U => i + 1 \in U
    BY <1>4
  <2> HIDE DEF U
  <2> QED BY <1>2, <1>3, <2>1, IntervalInduction
<1> QED BY <1>1, <1>2, <1>5

-----------------------------------------------------------------------------
(* InOrder. *)

\* An element of T that none of T is before.
Leads(a, T, before) == a \in T /\ \A b \in T : <<b, a>> \notin before

\* So every part of S that is not empty has a first element.
HasFirsts(S, before) == \A T \in SUBSET S : T # {} => \E a \in T : Leads(a, T, before)

\* What is left after each element, and the element taken from it.
Taking(S, before, s, left) ==
    /\ left[0] = S
    /\ \A i \in 1 .. Cardinality(S) : /\ Leads(s[i], left[i - 1], before)
                                      /\ left[i] = left[i - 1] \ {s[i]}

\* The recursion of InOrder is well founded.
LEMMA InOrderUnfolds ==
    ASSUME NEW S, IsFiniteSet(S), NEW before,
           HasFirsts(S, before)
    PROVE  \E left \in [0 .. Cardinality(S) -> SUBSET S] :
              /\ Taking(S, before, InOrder(S, before), left)
              /\ \A i \in 0 .. Cardinality(S) : Cardinality(left[i]) = Cardinality(S) - i
              /\ InOrder(S, before) \in Seq(S)
              /\ Len(InOrder(S, before)) = Cardinality(S)
<1> DEFINE n == Cardinality(S)
           A == SUBSET S
           First(T) == CHOOSE a \in T : \A b \in T : <<b, a>> \notin before
           Next(T) == T \ {First(T)}
           Walk(f) == [i \in 0 .. n |-> IF i = 0 THEN S ELSE Next(f[i - 1])]
           walked == CHOOSE f : f = Walk(f)
           steps == [i \in 1 .. n |-> [T \in A |-> Next(T)]]
           s == [i \in 1 .. n |-> First(walked[i - 1])]
<1>1. n \in Nat /\ S \in A
  BY FS_CardinalityType
<1>2. \A T \in A : Next(T) \in A
  OBVIOUS
<1>3. InOrder(S, before) = s
  BY DEF InOrder
<1>4. ASSUME NEW T \in A, T # {} PROVE Leads(First(T), T, before)
  BY <1>4, Zenon DEF Leads, HasFirsts
<1>5. ASSUME NEW T \in A, T # {}
      PROVE  Cardinality(Next(T)) = Cardinality(T) - 1 /\ Cardinality(T) \in Nat
  <2>1. IsFiniteSet(T) /\ First(T) \in T
    BY <1>4, <1>5, FS_Subset DEF Leads
  <2> HIDE DEF First
  <2> QED BY <2>1, FS_RemoveElement, FS_CardinalityType
<1> HIDE DEF n, First
<1>6. steps \in [1 .. n -> [A -> A]] /\ \A i \in 1 .. n, T \in A : steps[i][T] = Next(T)
  BY <1>2
<1>7. PICK f \in [0 .. n -> A] :
         f[0] = S /\ \A i \in 1 .. n : f[i] = steps[i][f[i - 1]]
  <2>1. \E f : Follows(f, n, A, S, steps)
    <3> HIDE DEF steps, A
    <3> QED BY <1>1, <1>6, IntervalRecursion
  <2> HIDE DEF steps, A
  <2> QED BY <2>1 DEF Follows
<1> HIDE DEF Next
<1>8. \A i \in 1 .. n : f[i] = Next(f[i - 1])
  <2> SUFFICES ASSUME NEW i \in 1 .. n PROVE f[i] = Next(f[i - 1])
    OBVIOUS
  <2>1. f[i - 1] \in A
    BY <1>1
  <2> HIDE DEF steps
  <2> QED BY <1>6, <1>7, <2>1
<1>9. f = Walk(f)
  BY <1>1, <1>7, <1>8
<1>10. walked = Walk(walked)
  BY <1>9, Zenon
<1> HIDE DEF walked
<1>11. walked[0] = S /\ \A i \in 1 .. n : walked[i] = Next(walked[i - 1])
  BY <1>1, <1>10
<1> DEFINE U == {i \in 0 .. n : walked[i] \in A /\ Cardinality(walked[i]) = n - i}
<1>12. 0 \in U
  BY <1>1, <1>11 DEF n
<1>13. \A i \in 0 .. n - 1 : walked[i] \in A /\ Cardinality(walked[i]) = n - i => walked[i] # {}
  <2> SUFFICES ASSUME NEW i \in 0 .. n - 1, Cardinality({}) = n - i PROVE FALSE
    OBVIOUS
  <2>1. Cardinality({}) = 0
    BY FS_EmptySet
  <2> QED BY <1>1, <2>1
<1>14. ASSUME NEW i \in 0 .. n - 1, i \in U PROVE i + 1 \in U
  <2>1. /\ i + 1 \in 1 .. n /\ (i + 1) - 1 = i /\ walked[i] \in A
        /\ walked[i] # {} /\ Cardinality(walked[i]) = n - i
    BY <1>1, <1>13, <1>14
  <2>2. walked[i + 1] = Next(walked[i])
    BY <1>11, <2>1
  <2>3. walked[i + 1] \in A /\ Cardinality(walked[i + 1]) = (n - i) - 1
    <3> HIDE DEF A
    <3> QED BY <1>2, <1>5, <2>1, <2>2
  <2> QED BY <1>1, <2>1, <2>3
<1>15. \A i \in 0 .. n : i \in U
  <2>1. \A i \in 0 .. n - 1 : i \in U => i + 1 \in U
    BY <1>14
  <2> HIDE DEF U
  <2> QED BY <1>1, <1>12, <2>1, IntervalInduction
<1>16. \A i \in 0 .. n : walked[i] \in A /\ Cardinality(walked[i]) = n - i
  BY <1>15
<1>17. walked \in [0 .. n -> A]
  <2>1. walked = [i \in 0 .. n |-> walked[i]]
    BY <1>10
  <2> QED BY <1>16, <2>1
<1>18. ASSUME NEW i \in 1 .. n
       PROVE  Leads(s[i], walked[i - 1], before) /\ walked[i] = walked[i - 1] \ {s[i]}
  <2>1. i - 1 \in 0 .. n - 1 /\ i - 1 \in 0 .. n
    BY <1>1
  <2>2. walked[i - 1] \in A /\ walked[i - 1] # {}
    <3> HIDE DEF A
    <3> QED BY <1>13, <1>16, <2>1
  <2>3. Leads(First(walked[i - 1]), walked[i - 1], before)
    BY <1>4, <2>2
  <2> QED BY <1>11, <2>3 DEF Next
<1>19. s \in Seq(S) /\ Len(s) = n
  <2>1. \A i \in 1 .. n : s[i] \in S
    <3> SUFFICES ASSUME NEW i \in 1 .. n PROVE s[i] \in S
      OBVIOUS
    <3>1. s[i] \in walked[i - 1]
      <4> HIDE DEF s
      <4> QED BY <1>18 DEF Leads
    <3>2. walked[i - 1] \in A
      BY <1>1, <1>16
    <3> QED BY <3>1, <3>2
  <2> QED BY <1>1, <2>1
<1>20. Taking(S, before, s, walked)
  <2> HIDE DEF s
  <2> QED BY <1>11, <1>18 DEF Taking, n
<1> HIDE DEF s
<1> QED BY <1>3, <1>16, <1>17, <1>19, <1>20 DEF n

\* InOrder lists a finite set, each element once, and none after one that it
\* is before.
LEMMA InOrderFacts ==
    ASSUME NEW S, IsFiniteSet(S), NEW before,
           HasFirsts(S, before)
    PROVE  /\ InOrder(S, before) \in Seq(S)
           /\ Range(InOrder(S, before)) = S
           /\ \A i, j \in 1 .. Len(InOrder(S, before)) :
                 i < j => /\ InOrder(S, before)[i] # InOrder(S, before)[j]
                          /\ <<InOrder(S, before)[j], InOrder(S, before)[i]>> \notin before
<1> DEFINE n == Cardinality(S)
           s == InOrder(S, before)
<1>1. PICK left \in [0 .. n -> SUBSET S] :
         /\ Taking(S, before, s, left)
         /\ \A i \in 0 .. n : Cardinality(left[i]) = n - i
         /\ s \in Seq(S) /\ Len(s) = n
  BY InOrderUnfolds
<1>2. n \in Nat
  BY FS_CardinalityType
<1> HIDE DEF s, n
<1>3. /\ left[0] = S
      /\ \A i \in 1 .. n : /\ Leads(s[i], left[i - 1], before)
                           /\ left[i] = left[i - 1] \ {s[i]}
  BY <1>1 DEF Taking, n
<1>4. ASSUME NEW i \in 1 .. n, NEW j \in 1 .. n, i < j PROVE s[j] \in left[i]
  <2> DEFINE U == {k \in 0 .. n : i <= k => left[k] \subseteq left[i]}
  <2>1. 0 \in U
    BY <1>2
  <2>2. ASSUME NEW k \in 0 .. n - 1, k \in U PROVE k + 1 \in U
    <3>1. k + 1 \in 1 .. n /\ (k + 1) - 1 = k /\ k + 1 \in 0 .. n
      BY <1>2
    <3>2. left[k + 1] = left[k] \ {s[k + 1]}
      BY <1>3, <3>1
    <3>3. CASE i <= k
      BY <2>2, <3>1, <3>2, <3>3
    <3>4. CASE k < i
      BY <3>1, <3>4
    <3> QED BY <3>3, <3>4, <1>2
  <2>3. \A k \in 0 .. n : k \in U
    <3>1. \A k \in 0 .. n - 1 : k \in U => k + 1 \in U
      BY <2>2
    <3> HIDE DEF U
    <3> QED BY <1>2, <2>1, <3>1, IntervalInduction
  <2>4. j - 1 \in 0 .. n /\ i <= j - 1
    BY <1>2, <1>4
  <2>5. left[j - 1] \subseteq left[i]
    BY <2>3, <2>4
  <2> QED BY <1>3, <2>5 DEF Leads
<1>5. ASSUME NEW i \in 1 .. n, NEW j \in 1 .. n, i < j
      PROVE  s[i] # s[j] /\ <<s[j], s[i]>> \notin before
  <2>1. s[j] \in left[i - 1] \ {s[i]}
    BY <1>3, <1>4, <1>5
  <2> QED BY <1>3, <2>1 DEF Leads
<1>6. S \subseteq Range(s)
  <2> DEFINE U == {k \in 0 .. n : S \ left[k] \subseteq Range(s)}
  <2>1. 0 \in U
    BY <1>2, <1>3
  <2>2. ASSUME NEW k \in 0 .. n - 1, k \in U PROVE k + 1 \in U
    <3>1. k + 1 \in 1 .. n /\ (k + 1) - 1 = k /\ k + 1 \in 0 .. n
      BY <1>2
    <3>2. left[k + 1] = left[k] \ {s[k + 1]}
      BY <1>3, <3>1
    <3>3. s[k + 1] \in Range(s)
      BY <1>1, <3>1 DEF Range
    <3> QED BY <2>2, <3>1, <3>2, <3>3
  <2>3. \A k \in 0 .. n : k \in U
    <3>1. \A k \in 0 .. n - 1 : k \in U => k + 1 \in U
      BY <2>2
    <3> HIDE DEF U
    <3> QED BY <1>2, <2>1, <3>1, IntervalInduction
  <2>4. n \in 0 .. n /\ n - n = 0
    BY <1>2
  <2>5. Cardinality(left[n]) = 0 /\ left[n] \in SUBSET S
    BY <1>1, <2>4
  <2>6. left[n] = {}
    BY <2>5, FS_Subset, FS_EmptySet
  <2> QED BY <2>3, <2>4, <2>6
<1>7. Range(s) \subseteq S
  BY <1>1 DEF Range
<1> QED BY <1>1, <1>5, <1>6, <1>7 DEF s, n

\* What has a property T after the numbers of old has it after a greater one.
AscentKeeps(T, hits, A, step) ==
    \A old \in SUBSET hits, t \in hits, a \in A :
        (\A u \in old : u < t) /\ <<old, a>> \in T => <<old \cup {t}, step[t][a]>> \in T

\* Induction along a fold over the numbers of a finite set, the least first;
\* T is the set of the pairs <<old, a>> such that a has the property after the
\* numbers of old.
LEMMA AscendingInduction ==
    ASSUME NEW hits \in SUBSET Nat, IsFiniteSet(hits),
           NEW A, NEW base \in A, NEW step, StepsIn(step, hits, A),
           NEW T, <<{}, base>> \in T, AscentKeeps(T, hits, A, step)
    PROVE  LET last == Folded(InOrder(hits, {p \in hits \X hits : p[1] < p[2]}), base, step)
           IN  last \in A /\ <<hits, last>> \in T
<1> DEFINE order == {p \in hits \X hits : p[1] < p[2]}
           h == InOrder(hits, order)
           Seen(i) == {h[k] : k \in 1 .. i}
           P == {p \in Nat \X A : p[1] \in 0 .. Len(h) => <<Seen(p[1]), p[2]>> \in T}
<1>1. HasFirsts(hits, order)
  <2> SUFFICES ASSUME NEW R \in SUBSET hits, R # {} PROVE \E a \in R : Leads(a, R, order)
    BY Zenon DEF HasFirsts
  <2>1. PICK a \in R : \A b \in R : a <= b
    BY LeastNatural
  <2>2. \A b \in R : <<b, a>> \notin order
    BY <2>1
  <2> HIDE DEF order
  <2> QED BY <2>2 DEF Leads
<1>2. /\ h \in Seq(hits) /\ Range(h) = hits
      /\ \A i, j \in 1 .. Len(h) : i < j => h[i] # h[j] /\ <<h[j], h[i]>> \notin order
  <2> HIDE DEF order
  <2> QED BY <1>1, InOrderFacts
<1> HIDE DEF h
<1>3. Len(h) \in Nat /\ \A i \in 1 .. Len(h) : h[i] \in hits
  BY <1>2, LenProperties, ElementOfSeq
<1>4. \A i, j \in 1 .. Len(h) : i < j => h[i] < h[j]
  <2> SUFFICES ASSUME NEW i \in 1 .. Len(h), NEW j \in 1 .. Len(h), i < j PROVE h[i] < h[j]
    OBVIOUS
  <2>1. h[i] \in hits /\ h[j] \in hits /\ h[i] \in Nat /\ h[j] \in Nat
    BY <1>3
  <2>2. h[i] # h[j] /\ ~(h[j] < h[i])
    BY <1>2, <2>1
  <2> QED BY <2>1, <2>2
<1>5. <<0, base>> \in P
  <2>1. Seen(0) = {}
    OBVIOUS
  <2> HIDE DEF Seen
  <2> QED BY <2>1
<1>6. ASSUME NEW i \in 1 .. Len(h), NEW r \in A, <<Seen(i - 1), r>> \in T
      PROVE  <<Seen(i), step[h[i]][r]>> \in T
  <2>1. \A k \in 1 .. i - 1 : k \in 1 .. Len(h) /\ k < i
    BY <1>3
  <2>2. Seen(i - 1) \in SUBSET hits /\ \A u \in Seen(i - 1) : u < h[i]
    BY <1>3, <1>4, <2>1
  <2>3. Seen(i) = Seen(i - 1) \cup {h[i]}
    <3>1. i \in Nat /\ 1 .. i = (1 .. i - 1) \cup {i}
      OBVIOUS
    <3> QED BY <3>1
  <2>4. h[i] \in hits
    BY <1>3
  <2> HIDE DEF Seen
  <2>5. <<Seen(i - 1) \cup {h[i]}, step[h[i]][r]>> \in T
    BY <1>6, <2>2, <2>4 DEF AscentKeeps
  <2> QED BY <2>3, <2>5
<1>7. ASSUME NEW t \in hits, NEW r \in A PROVE step[t][r] \in A
  BY DEF StepsIn
<1> HIDE DEF Seen
<1>8. FoldKeeps(P, h, A, step)
  <2> SUFFICES ASSUME NEW i \in 1 .. Len(h), NEW r \in A, <<i - 1, r>> \in P
               PROVE  <<i, step[h[i]][r]>> \in P
    BY DEF FoldKeeps
  <2>1. i - 1 \in 0 .. Len(h) /\ i \in Nat /\ h[i] \in hits
    BY <1>3
  <2>2. <<Seen(i - 1), r>> \in T
    BY <2>1
  <2> QED BY <1>6, <1>7, <2>1, <2>2
<1>9. Folded(h, base, step) \in A /\ <<Len(h), Folded(h, base, step)>> \in P
  <2> HIDE DEF P
  <2> QED BY <1>2, <1>5, <1>8, FoldedInduction
<1>10. Seen(Len(h)) = hits
  BY <1>2, <1>3 DEF Range, Seen
<1>11. <<Seen(Len(h)), Folded(h, base, step)>> \in T
  BY <1>3, <1>9
<1> QED BY <1>9, <1>10, <1>11 DEF h

-----------------------------------------------------------------------------
(* Running totals. *)

LEMMA PartialTotals ==
    ASSUME NEW s \in Seq(Int)
    PROVE  /\ \A i \in 0 .. Len(s) : Total(SubSeq(s, 1, i)) \in Int
           /\ Total(SubSeq(s, 1, 0)) = 0
           /\ \A i \in 1 .. Len(s) :
                 Total(SubSeq(s, 1, i)) = Total(SubSeq(s, 1, i - 1)) + s[i]
           /\ Total(SubSeq(s, 1, Len(s))) = Total(s)
<1>1. Len(s) \in Nat /\ \A i \in 1 .. Len(s) : s[i] \in Int
  BY LenProperties, ElementOfSeq
<1>2. ASSUME NEW i \in 0 .. Len(s) PROVE SubSeq(s, 1, i) \in Seq(Int)
  BY <1>1, SubSeqProperties
<1>3. ASSUME NEW i \in 0 .. Len(s) PROVE Total(SubSeq(s, 1, i)) \in Int
  <2>1. 0 \in Int
    OBVIOUS
  <2> QED BY <1>2, <2>1, TotalAppend
<1>4. Total(SubSeq(s, 1, 0)) = 0
  <2>1. 1 \in Int /\ 0 \in Int /\ 0 < 1
    OBVIOUS
  <2>2. SubSeq(s, 1, 0) = <<>>
    BY <2>1, SubSeqEmpty
  <2> QED BY <2>2, TotalEmpty
<1>5. ASSUME NEW i \in 1 .. Len(s)
      PROVE  Total(SubSeq(s, 1, i)) = Total(SubSeq(s, 1, i - 1)) + s[i]
  <2> DEFINE j == i - 1
             t == SubSeq(s, 1, j)
  <2>1. j \in 0 .. Len(s) - 1 /\ j + 1 = i
    BY <1>1
  <2>2. SubSeq(s, 1, j + 1) = Append(t, s[j + 1])
    BY <2>1, SubSeqGrows
  <2>3. t \in Seq(Int) /\ s[i] \in Int
    BY <1>1, <1>2, <2>1
  <2> HIDE DEF j, t
  <2>4. Total(Append(t, s[i])) = Total(t) + s[i]
    BY <2>3, TotalAppend
  <2>5. Total(SubSeq(s, 1, i)) = Total(t) + s[i]
    BY <2>1, <2>2, <2>4
  <2> QED BY <2>5 DEF t, j
<1>6. SubSeq(s, 1, Len(s)) = s
  BY SubSeqFull
<1> QED BY <1>3, <1>4, <1>5, <1>6

\* The running totals of natural numbers grow.
LEMMA TotalsGrow ==
    ASSUME NEW s \in Seq(Nat)
    PROVE  /\ s \in Seq(Int)
           /\ \A j \in 0 .. Len(s) : \A i \in 0 .. j :
                 /\ Total(SubSeq(s, 1, i)) \in Nat
                 /\ Total(SubSeq(s, 1, i)) <= Total(SubSeq(s, 1, j))
<1> DEFINE n == Len(s)
           T(i) == Total(SubSeq(s, 1, i))
           U == {j \in 0 .. n : \A i \in 0 .. j : T(i) \in Nat /\ T(i) <= T(j)}
<1>1. n \in Nat /\ \A i \in 1 .. n : s[i] \in Nat
  BY LenProperties, ElementOfSeq
<1>2. s \in Seq(Int)
  <2>1. Nat \subseteq Int
    OBVIOUS
  <2> QED BY <2>1, SeqMonotonic
<1>3. T(0) = 0 /\ \A i \in 1 .. n : T(i) = T(i - 1) + s[i]
  BY <1>2, PartialTotals
<1> HIDE DEF n, T
<1>4. 0 \in U
  BY <1>1, <1>3
<1>5. ASSUME NEW j \in 0 .. n - 1, j \in U PROVE j + 1 \in U
  <2>1. j + 1 \in 1 .. n /\ (j + 1) - 1 = j /\ j \in 0 .. j
    BY <1>1
  <2>2. T(j + 1) = T(j) + s[j + 1] /\ s[j + 1] \in Nat /\ T(j) \in Nat
    BY <1>1, <1>3, <1>5, <2>1
  <2>3. ASSUME NEW i \in 0 .. j + 1 PROVE T(i) \in Nat /\ T(i) <= T(j + 1)
    <3>1. i \in 0 .. j \/ i = j + 1
      BY <1>1
    <3>2. CASE i \in 0 .. j
      BY <1>5, <2>2, <3>2
    <3>3. CASE i = j + 1
      BY <2>2, <3>3
    <3> QED BY <3>1, <3>2, <3>3
  <2>4. j + 1 \in 0 .. n
    BY <1>1
  <2> QED BY <2>3, <2>4
<1>6. \A j \in 0 .. n : j \in U
  <2> HIDE DEF U
  <2> QED BY <1>1, <1>4, <1>5, IntervalInduction
<1> QED BY <1>2, <1>6 DEF n, T

-----------------------------------------------------------------------------
(* Flat. *)

\* What Flat has put together after each sequence.
Flattens(ss, flat) ==
    /\ flat[0] = <<>>
    /\ \A i \in 1 .. Len(ss) : flat[i] = flat[i - 1] \o ss[i]

\* Flat is the last of the partial concatenations.
LEMMA FlatUnfolds ==
    ASSUME NEW S, NEW ss \in Seq(Seq(S))
    PROVE  \E flat \in [0 .. Len(ss) -> Seq(S)] : Flattens(ss, flat) /\ Flat(ss) = flat[Len(ss)]
<1> DEFINE n == Len(ss)
           A == Seq(S)
           base == <<>>
           Next(i, r) == r \o ss[i]
           Walk(f) == [i \in 0 .. n |-> IF i = 0 THEN base ELSE Next(i, f[i - 1])]
           walked == CHOOSE f : f = Walk(f)
           step == [i \in 1 .. n |-> [r \in A |-> Next(i, r)]]
<1>1. n \in Nat /\ base \in A
  BY LenProperties, EmptySeq
<1>2. ASSUME NEW i \in 1 .. n, NEW r \in A PROVE Next(i, r) \in A
  <2>1. ss[i] \in Seq(S)
    BY ElementOfSeq
  <2> QED BY <2>1, ConcatProperties
<1>3. Flat(ss) = walked[n]
  BY DEF Flat
<1>4. ASSUME NEW f
      PROVE  Flattens(ss, f) <=> f[0] = base /\ \A i \in 1 .. n : f[i] = Next(i, f[i - 1])
  BY DEF Flattens
<1> HIDE DEF n, A, base, Next
<1>5. step \in [1 .. n -> [A -> A]] /\ \A i \in 1 .. n, r \in A : step[i][r] = Next(i, r)
  BY <1>2
<1>6. PICK f \in [0 .. n -> A] :
         f[0] = base /\ \A i \in 1 .. n : f[i] = step[i][f[i - 1]]
  <2>1. \E f : Follows(f, n, A, base, step)
    <3> HIDE DEF step
    <3> QED BY <1>1, <1>5, IntervalRecursion
  <2> HIDE DEF step
  <2> QED BY <2>1 DEF Follows
<1>7. \A i \in 1 .. n : f[i] = Next(i, f[i - 1])
  <2> SUFFICES ASSUME NEW i \in 1 .. n PROVE f[i] = Next(i, f[i - 1])
    OBVIOUS
  <2>1. f[i - 1] \in A
    BY <1>1
  <2> HIDE DEF step
  <2> QED BY <1>5, <1>6, <2>1
<1>8. f = Walk(f)
  BY <1>1, <1>6, <1>7
<1>9. walked = Walk(walked)
  BY <1>8, Zenon
<1> HIDE DEF walked
<1>10. walked[0] = base /\ \A i \in 1 .. n : walked[i] = Next(i, walked[i - 1])
  BY <1>1, <1>9
<1> DEFINE U == {i \in 0 .. n : walked[i] \in A}
<1>11. 0 \in U
  BY <1>1, <1>10
<1>12. ASSUME NEW i \in 0 .. n - 1, i \in U PROVE i + 1 \in U
  <2>1. i + 1 \in 1 .. n /\ (i + 1) - 1 = i /\ walked[i] \in A /\ i + 1 \in 0 .. n
    BY <1>1, <1>12
  <2>2. walked[i + 1] \in A
    BY <1>2, <1>10, <2>1
  <2> QED BY <2>1, <2>2
<1>13. \A i \in 0 .. n : i \in U
  <2> HIDE DEF U
  <2> QED BY <1>1, <1>11, <1>12, IntervalInduction
<1>14. walked = [i \in 0 .. n |-> walked[i]]
  BY <1>9
<1>15. walked \in [0 .. n -> A]
  <2>1. \A i \in 0 .. n : walked[i] \in A
    BY <1>13
  <2> QED BY <1>14, <2>1
<1>16. Flattens(ss, walked)
  BY <1>4, <1>10
<1> QED BY <1>3, <1>15, <1>16 DEF n, A

\* Where the sequences of ss end when they follow each other.
EndsOf(ss, ends) ==
    /\ ends[0] = 0
    /\ \A i \in 1 .. Len(ss) : ends[i] = ends[i - 1] + Len(ss[i])

\* Each sequence is in the whole, after the ones before it.
LEMMA FlatFacts ==
    ASSUME NEW S, NEW ss \in Seq(Seq(S)), NEW ends \in [0 .. Len(ss) -> Nat], EndsOf(ss, ends)
    PROVE  /\ Flat(ss) \in Seq(S) /\ Len(Flat(ss)) = ends[Len(ss)]
           /\ \A i \in 1 .. Len(ss) :
                 /\ ends[i] <= Len(Flat(ss))
                 /\ \A k \in 1 .. Len(ss[i]) : Flat(ss)[ends[i - 1] + k] = ss[i][k]
<1> DEFINE n == Len(ss)
<1>1. n \in Nat /\ \A i \in 1 .. n : ss[i] \in Seq(S) /\ Len(ss[i]) \in Nat
  BY LenProperties, ElementOfSeq
<1>2. PICK flat \in [0 .. n -> Seq(S)] : Flattens(ss, flat) /\ Flat(ss) = flat[n]
  BY FlatUnfolds
<1>3. /\ ends[0] = 0 /\ \A i \in 1 .. n : ends[i] = ends[i - 1] + Len(ss[i])
      /\ flat[0] = <<>> /\ \A i \in 1 .. n : flat[i] = flat[i - 1] \o ss[i]
  BY <1>2 DEF EndsOf, Flattens
<1> HIDE DEF n
<1> DEFINE Has(f, i) == \A k \in 1 .. Len(ss[i]) : f[ends[i - 1] + k] = ss[i][k]
           Done(j) == /\ Len(flat[j]) = ends[j]
                      /\ \A i \in 1 .. n : i <= j => ends[i] <= ends[j] /\ Has(flat[j], i)
           U == {j \in 0 .. n : Done(j)}
<1>4. 0 \in U
  <2>1. Len(flat[0]) = 0
    BY <1>3, EmptySeq
  <2> QED BY <1>1, <1>3, <2>1
<1>5. ASSUME NEW j \in 0 .. n - 1, j \in U PROVE j + 1 \in U
  <2> DEFINE m == j + 1
             f == flat[j]
             g == flat[m]
             t == ss[m]
  <2>1. m \in 1 .. n /\ m - 1 = j /\ j \in 0 .. n /\ m \in 0 .. n
    BY <1>1
  <2>2. /\ f \in Seq(S) /\ t \in Seq(S) /\ Len(f) = ends[j] /\ ends[j] \in Nat /\ Len(t) \in Nat
        /\ ends[m] = ends[j] + Len(t) /\ g = f \o t
    <3>1. Len(f) = ends[j]
      BY <1>5
    <3>2. f \in Seq(S) /\ ends[j] \in Nat
      BY <2>1 DEF n
    <3>3. t \in Seq(S) /\ Len(t) \in Nat
      BY <1>1, <2>1
    <3>4. ends[m] = ends[m - 1] + Len(ss[m]) /\ flat[m] = flat[m - 1] \o ss[m]
      BY <1>3, <2>1
    <3> QED BY <2>1, <3>1, <3>2, <3>3, <3>4
  <2> HIDE DEF m, f, g, t
  <2>3. /\ Len(g) = ends[m]
        /\ \A k \in 1 .. ends[m] : g[k] = IF k <= ends[j] THEN f[k] ELSE t[k - ends[j]]
    <3> DEFINE h == f \o t
    <3>1. /\ Len(h) = Len(f) + Len(t)
          /\ \A k \in 1 .. Len(f) + Len(t) : h[k] = IF k <= Len(f) THEN f[k] ELSE t[k - Len(f)]
      BY <2>2, ConcatProperties
    <3> HIDE DEF h
    <3>2. g = h
      BY <2>2 DEF h
    <3> QED BY <2>2, <3>1, <3>2
  <2>4. ASSUME NEW i \in 1 .. n, i <= j PROVE ends[i] <= ends[m] /\ Has(g, i)
    <3>1. ends[i] <= ends[j] /\ Has(f, i)
      BY <1>5, <2>4 DEF f
    <3>2. ends[i - 1] \in Nat /\ ends[i] \in Nat /\ Len(ss[i]) \in Nat
          /\ ends[i] = ends[i - 1] + Len(ss[i])
      <4>1. i - 1 \in 0 .. n /\ i \in 0 .. n
        BY <1>1
      <4> QED BY <1>1, <1>3, <4>1 DEF n
    <3>3. ends[i] <= ends[m]
      BY <2>2, <3>1, <3>2
    <3>4. ASSUME NEW k \in 1 .. Len(ss[i]) PROVE g[ends[i - 1] + k] = ss[i][k]
      <4> DEFINE x == ends[i - 1] + k
      <4>1. x \in 1 .. ends[m] /\ x <= ends[j]
        <5> DEFINE a == ends[i - 1]
                   b == ends[i]
                   c == Len(ss[i])
                   d == ends[j]
                   e == ends[m]
        <5>1. a \in Nat /\ b \in Nat /\ c \in Nat /\ b = a + c /\ b <= d
          BY <3>1, <3>2
        <5>2. d \in Nat /\ e \in Nat /\ d <= e /\ k \in 1 .. c
          BY <2>2
        <5>3. x = a + k
          OBVIOUS
        <5> HIDE DEF a, b, c, d, e, x
        <5>4. x \in 1 .. e /\ x <= d
          BY <5>1, <5>2, <5>3
        <5> QED BY <5>4 DEF d, e
      <4>2. f[x] = ss[i][k]
        BY <3>1
      <4> HIDE DEF x
      <4>3. g[x] = ss[i][k]
        BY <2>3, <4>1, <4>2
      <4> QED BY <4>3 DEF x
    <3> QED BY <3>3, <3>4
  <2>5. Has(g, m)
    <3> SUFFICES ASSUME NEW k \in 1 .. Len(ss[m]) PROVE g[ends[m - 1] + k] = ss[m][k]
      OBVIOUS
    <3> DEFINE x == ends[j] + k
    <3>1. x \in 1 .. ends[m] /\ ~(x <= ends[j]) /\ x - ends[j] = k
      BY <2>2 DEF t
    <3> HIDE DEF x
    <3>2. g[x] = t[k]
      BY <2>3, <3>1
    <3> QED BY <2>1, <3>2 DEF x, t
  <2>6. ends[m] <= ends[m]
    BY <2>2
  <2>7. \A i \in 1 .. n : i <= m => i <= j \/ i = m
    BY <1>1 DEF m
  <2>8. \A i \in 1 .. n : i <= m => ends[i] <= ends[m] /\ Has(g, i)
    <3> HIDE DEF Has
    <3> QED BY <2>4, <2>5, <2>6, <2>7
  <2> QED BY <2>1, <2>3, <2>8 DEF g, m
<1>6. \A j \in 0 .. n : j \in U
  <2> HIDE DEF U
  <2> QED BY <1>1, <1>4, <1>5, IntervalInduction
<1>7. Done(n)
  <2>1. n \in 0 .. n
    BY <1>1
  <2> HIDE DEF Done
  <2> QED BY <1>6, <2>1
<1>8. Flat(ss) \in Seq(S)
  BY <1>1, <1>2
<1>9. \A i \in 1 .. n : i <= n
  BY <1>1
<1> QED BY <1>2, <1>7, <1>8, <1>9 DEF n

-----------------------------------------------------------------------------

\* The first element that is kept is the first of s that is in P.
LEMMA WhereHead ==
    ASSUME NEW S, NEW s \in Seq(S), NEW P, NEW m \in 1 .. Len(s), s[m] \in P,
           \A j \in 1 .. m - 1 : s[j] \notin P
    PROVE  Where(s, P) # <<>> /\ Head(Where(s, P)) = s[m]
<1> DEFINE n == Len(s)
<1>1. n \in Nat /\ \A i \in 1 .. n : s[i] \in S
  BY LenProperties, ElementOfSeq
<1>2. PICK kept \in [0 .. n -> Seq(S)] : Keeps(s, P, kept) /\ Where(s, P) = kept[n]
  BY WhereUnfolds
<1>3. /\ kept[0] = <<>>
      /\ \A i \in 1 .. n :
            kept[i] = IF s[i] \in P THEN Append(kept[i - 1], s[i]) ELSE kept[i - 1]
  BY <1>2 DEF Keeps
<1> HIDE DEF n
<1> DEFINE Right(j) == IF j < m THEN kept[j] = <<>> ELSE kept[j] # <<>> /\ Head(kept[j]) = s[m]
           U == {j \in 0 .. n : Right(j)}
<1>4. 0 \in U
  BY <1>1, <1>3 DEF n
<1>5. ASSUME NEW j \in 0 .. n - 1, j \in U PROVE j + 1 \in U
  <2> DEFINE i == j + 1
             k == kept[j]
             e == s[i]
  <2>1. i \in 1 .. n /\ i - 1 = j /\ i \in 0 .. n /\ j \in 0 .. n
    BY <1>1
  <2>2. k \in Seq(S) /\ e \in S /\ kept[i] = IF e \in P THEN Append(k, e) ELSE k
    BY <1>1, <1>3, <2>1
  <2>3. Right(j)
    BY <1>5
  <2>4. Head(Append(k, e)) = IF k = <<>> THEN e ELSE Head(k)
    BY <2>2, HeadTailAppend
  <2>5. Append(k, e) # <<>>
    BY <2>2, AppendProperties
  <2>6. CASE i < m
    <3>1. e \notin P /\ k = <<>>
      <4>1. i \in 1 .. m - 1 /\ j < m
        BY <2>1, <2>6 DEF n
      <4> QED BY <2>3, <4>1
    <3> QED BY <2>1, <2>2, <2>6, <3>1
  <2>7. CASE i = m
    <3>1. k = <<>> /\ e \in P /\ e = s[m]
      BY <2>1, <2>3, <2>7
    <3> HIDE DEF e, k
    <3>2. kept[i] # <<>> /\ Head(kept[i]) = s[m]
      BY <2>2, <2>4, <2>5, <3>1
    <3> QED BY <2>1, <2>7, <3>2
  <2>8. CASE i > m
    <3>1. k # <<>> /\ Head(k) = s[m]
      BY <2>1, <2>3, <2>8 DEF n
    <3> HIDE DEF e, k
    <3>2. kept[i] # <<>> /\ Head(kept[i]) = s[m]
      BY <2>2, <2>4, <2>5, <3>1
    <3>3. ~(i < m)
      BY <2>1, <2>8 DEF n
    <3> QED BY <2>1, <3>2, <3>3
  <2> QED BY <2>1, <2>6, <2>7, <2>8 DEF n
<1>6. \A j \in 0 .. n : j \in U
  <2> HIDE DEF U
  <2> QED BY <1>1, <1>4, <1>5, IntervalInduction
<1>7. Right(n) /\ ~(n < m)
  BY <1>1, <1>6 DEF n
<1> QED BY <1>2, <1>7

=============================================================================
