------------------------ MODULE FragmentCacheProofs ------------------------
(* Theorems about FragmentCache for every stream, every limit and any       *)
(* number of threads: the cache is consistent, holds what was answered most *)
(* recently, and answers with what it holds.                                *)
EXTENDS FragmentCache, SequenceLemmas, FiniteSetTheorems

\* Joining lists of parts.
LEMMA PartsAssociate ==
    \A a, b, c \in Seq(Parts) : (a \o b) \o c = a \o (b \o c)
BY ConcatAssociative

USE NumPartsAssumption, SizeAssumption, DurationAssumption, BoundAssumption,
    ThreadAssumption, SwitchAssumption

-----------------------------------------------------------------------------
(* The inductive invariant.                                                 *)

\* Nothing is listed twice, what is listed is indexed with its bytes, and the
\* other way round.
ListMatchesIndex ==
    /\ IsInjective(KeysOf(lru))
    /\ \A e \in Range(lru) : index[e.part] = e.buffer
    /\ \A k \in Parts : Known(k) => [part |-> k, buffer |-> index[k]] \in Range(lru)

\* The parts answered are those listed and, after them, those that were
\* evicted since.
ListLeadsUsed == \E gone \in Seq(Parts) : used = KeysOf(lru) \o gone

\* The inductive invariant.
CacheInv ==
    /\ TypeOK
    /\ \A t \in Threads : thread[t].at = "insert" => thread[t].buffer # NoBuffer
    /\ ListMatchesIndex
    /\ BytesAccounted
    /\ ListLeadsUsed

-----------------------------------------------------------------------------
(* Keys and bytes of a list of entries. *)

PartOf == [e \in Entry |-> e.part]

LEMMA KeysAreEach ==
    ASSUME NEW s \in Seq(Entry)
    PROVE  /\ KeysOf(s) = Each(s, PartOf) /\ KeysOf(s) \in Seq(Parts)
           /\ Range(KeysOf(s)) = {e.part : e \in Range(s)}
<1>1. DOMAIN s = 1 .. Len(s) /\ Range(s) \subseteq Entry /\ \A i \in DOMAIN s : s[i] \in Entry
  BY LenProperties, ElementOfSeq DEF Range
<1>2. \A i \in DOMAIN s : PartOf[s[i]] = s[i].part
  BY <1>1 DEF PartOf
<1>3. KeysOf(s) = Each(s, PartOf)
  BY <1>2, Zenon DEF KeysOf, Each
<1>4. \A e \in Entry : PartOf[e] = e.part /\ e.part \in Parts
  BY DEF PartOf, Entry
<1>5. Images(PartOf, Entry) \subseteq Parts
  BY <1>4 DEF Images
<1>6. KeysOf(s) \in Seq(Parts)
  BY <1>3, <1>5, EachType, SeqMonotonic
<1>7. Range(Each(s, PartOf)) = {PartOf[e] : e \in Range(s)}
  BY EachRange
<1>8. {PartOf[e] : e \in Range(s)} = {e.part : e \in Range(s)}
  BY <1>1, <1>4
<1> QED BY <1>3, <1>6, <1>7, <1>8

LEMMA SizesWeigh == Weighs(Size, Parts)
BY DEF Weighs

\* Keys and bytes of a list that is put together.
LEMMA ConcatFacts ==
    ASSUME NEW s \in Seq(Entry), NEW t \in Seq(Entry)
    PROVE  /\ KeysOf(s \o t) = KeysOf(s) \o KeysOf(t)
           /\ BytesOf(s \o t) = BytesOf(s) + BytesOf(t)
           /\ BytesOf(s) \in Int /\ BytesOf(t) \in Int
<1> DEFINE u == s \o t
<1>1. u \in Seq(Entry)
  BY ConcatProperties
<1>2. KeysOf(u) = KeysOf(s) \o KeysOf(t)
  <2>1. Each(u, PartOf) = Each(s, PartOf) \o Each(t, PartOf)
    BY EachConcat
  <2> HIDE DEF u
  <2>2. KeysOf(s) = Each(s, PartOf) /\ KeysOf(t) = Each(t, PartOf)
    BY KeysAreEach
  <2>3. KeysOf(u) = Each(u, PartOf)
    BY <1>1, KeysAreEach
  <2> QED BY <2>1, <2>2, <2>3
<1>3. KeysOf(s) \in Seq(Parts) /\ KeysOf(t) \in Seq(Parts)
  BY KeysAreEach
<1> QED BY <1>2, <1>3, SizesWeigh, WeightConcat, WeightType DEF BytesOf

LEMMA OneEntryFacts ==
    ASSUME NEW e \in Entry
    PROVE  /\ <<e>> \in Seq(Entry) /\ KeysOf(<<e>>) = <<e.part>>
           /\ BytesOf(<<e>>) = Size[e.part] /\ Range(<<e>>) = {e}
<1>1. <<e>> \in Seq(Entry) /\ Range(<<e>>) = {e}
  BY DEF Range
<1>2. KeysOf(<<e>>) = <<e.part>>
  BY DEF KeysOf
<1> DEFINE k == e.part
           none == <<>>
<1>3. k \in Parts /\ none \in Seq(Parts) /\ Append(none, k) = <<k>>
  BY EmptySeq DEF Entry
<1>4. Total(Each(Append(none, k), Size)) = Total(Each(none, Size)) + Size[k]
  <2>1. \A s \in Seq(Parts), p \in Parts :
           Total(Each(Append(s, p), Size)) = Total(Each(s, Size)) + Size[p]
    BY SizesWeigh, WeightAppend
  <2> HIDE DEF k, none
  <2> QED BY <1>3, <2>1
<1> HIDE DEF k
<1>5. Total(Each(<<>>, Size)) = 0
  BY EachEmpty, TotalEmpty
<1>6. Total(Each(<<k>>, Size)) = Size[k]
  BY <1>3, <1>4, <1>5
<1> QED BY <1>1, <1>2, <1>6 DEF k, BytesOf

\* A list without one of its parts.
LEMMA WithoutFacts ==
    ASSUME NEW s \in Seq(Entry), NEW k \in Parts
    PROVE  /\ Without(s, k) \in Seq(Entry)
           /\ Range(Without(s, k)) = {e \in Range(s) : e.part # k}
           /\ KeysOf(Without(s, k)) = Where(KeysOf(s), Parts \ {k})
<1> DEFINE P == {e \in Range(s) : e.part # k}
           Q == Parts \ {k}
           G == {e \in Entry : PartOf[e] \in Q}
<1>1. Without(s, k) = Where(s, P)
  BY DEF Without
<1>2. Where(s, P) \in Seq(Entry) /\ Range(Where(s, P)) = P
  <2>1. P \subseteq Range(s)
    OBVIOUS
  <2> HIDE DEF P
  <2>2. Where(s, P) \in Seq(Entry)
    BY WhereType
  <2>3. Range(Where(s, P)) = Range(s) \cap P
    BY WhereRange
  <2> QED BY <2>1, <2>2, <2>3
<1>3. Where(s, P) = Where(s, G)
  <2>1. Range(s) \subseteq Entry
    BY LenProperties DEF Range
  <2>2. \A e \in Range(s) : e \in P <=> e \in G
    BY <2>1 DEF PartOf, Entry
  <2> HIDE DEF P, G
  <2> QED BY <2>2, WhereSame
<1>4. Where(Each(s, PartOf), Q) = Each(Where(s, G), PartOf)
  <2> HIDE DEF Q
  <2> QED BY WhereEach
<1>5. KeysOf(Where(s, P)) = Where(KeysOf(s), Q)
  <2> HIDE DEF P, Q, G
  <2> QED BY <1>2, <1>3, <1>4, KeysAreEach
<1> HIDE DEF P, Q
<1> QED BY <1>1, <1>2, <1>5 DEF P, Q

-----------------------------------------------------------------------------
(* The private methods. *)

\* Touch of a part that is known reorders the list and nothing else.
LEMMA TouchFacts ==
    ASSUME TypeOK, ListMatchesIndex, BytesAccounted, NEW k \in Parts, Known(k), Touch(k)
    PROVE  /\ lru' \in Seq(Entry) /\ Range(lru') = Range(lru)
           /\ KeysOf(lru') = <<k>> \o Where(KeysOf(lru), Parts \ {k})
           /\ IsInjective(KeysOf(lru')) /\ BytesOf(lru') = BytesOf(lru)
<1> DEFINE e == [part |-> k, buffer |-> index[k]]
           w == Without(lru, k)
           keys == KeysOf(lru)
           rest == Where(keys, Parts \ {k})
<1>1. e \in Entry /\ e.part = k /\ e \in Range(lru) /\ lru \in Seq(Entry)
  BY DEF TypeOK, Buffer, Known, ListMatchesIndex, Entry
<1>2. /\ w \in Seq(Entry) /\ Range(w) = {x \in Range(lru) : x.part # k}
      /\ KeysOf(w) = rest
  BY <1>1, WithoutFacts
<1>3. lru' = <<e>> \o w
  BY DEF Touch
<1>4. \A x \in Range(lru) : x.part = k => x = e
  <2> SUFFICES ASSUME NEW x \in Range(lru), x.part = k PROVE x = e
    OBVIOUS
  <2>1. x \in Entry
    BY <1>1, LenProperties DEF Range
  <2>2. x.buffer = index[k]
    BY DEF ListMatchesIndex
  <2> QED BY <2>1, <2>2 DEF Entry
<1>5. /\ <<e>> \in Seq(Entry) /\ KeysOf(<<e>>) = <<k>> /\ BytesOf(<<e>>) = Size[k]
      /\ Range(<<e>>) = {e}
  BY <1>1, OneEntryFacts
<1>6. keys \in Seq(Parts) /\ IsInjective(keys) /\ k \in Range(keys)
  BY <1>1, KeysAreEach DEF ListMatchesIndex
<1> HIDE DEF e, w, keys, rest
<1>7. lru' \in Seq(Entry) /\ Range(lru') = {e} \cup Range(w)
  <2> DEFINE first == <<e>>
  <2>1. first \in Seq(Entry) /\ Range(first) = {e} /\ lru' = first \o w
    BY <1>3, <1>5
  <2> HIDE DEF first
  <2>2. first \o w \in Seq(Entry) /\ Range(first \o w) = Range(first) \cup Range(w)
    BY <1>2, <2>1, ConcatProperties, RangeConcatenation
  <2> QED BY <2>1, <2>2
<1>8. Range(lru') = Range(lru)
  BY <1>1, <1>2, <1>4, <1>7
<1>9. KeysOf(lru') = <<k>> \o rest /\ BytesOf(lru') = Size[k] + BytesOf(w)
  BY <1>2, <1>3, <1>5, ConcatFacts
<1>10. rest \in Seq(Parts) /\ IsInjective(rest) /\ Range(rest) = Range(keys) \ {k}
  <2> DEFINE Q == Parts \ {k}
  <2>1. Range(keys) \subseteq Parts
    BY <1>6, LenProperties DEF Range
  <2>2. Range(keys) \cap Q = Range(keys) \ {k}
    BY <2>1
  <2> HIDE DEF Q
  <2>3. Where(keys, Q) \in Seq(Parts) /\ IsInjective(Where(keys, Q))
    BY <1>6, WhereType, WhereInjective
  <2>4. Range(Where(keys, Q)) = Range(keys) \cap Q
    BY <1>6, WhereRange
  <2> QED BY <2>2, <2>3, <2>4 DEF rest, Q
<1>11. IsInjective(<<k>> \o rest)
  <2> DEFINE first == <<k>>
  <2>1. first \in Seq(Parts) /\ IsInjective(first) /\ Range(first) = {k}
    BY DEF IsInjective, Range
  <2>2. Range(first) \cap Range(rest) = {}
    BY <1>10, <2>1
  <2> HIDE DEF first
  <2>3. IsInjective(first \o rest)
    BY <1>10, <2>1, <2>2, ConcatInjective
  <2> QED BY <2>3 DEF first
<1>12. BytesOf(lru) = Size[k] + BytesOf(w)
  <2>1. Total(Each(keys, Size)) =
           Total(Each(Where(keys, {k}), Size)) + Total(Each(Where(keys, Parts \ {k}), Size))
    BY <1>6, SizesWeigh, WeightSplit
  <2>2. Where(keys, {k}) = <<k>>
    BY <1>6, WhereOne
  <2>3. Total(Each(<<k>>, Size)) = Size[k]
    BY <1>5 DEF BytesOf
  <2> QED BY <1>2, <2>1, <2>2, <2>3 DEF BytesOf, keys, rest
<1> QED BY <1>7, <1>8, <1>9, <1>11, <1>12 DEF keys, rest

\* What eviction keeps of a list exists, fits, and is all of it that fits.
LEMMA KeptFacts ==
    ASSUME NEW s \in Seq(Entry)
    PROVE  LET n == Kept(s, BytesOf(s))
           IN  /\ n \in 0 .. Len(s)
               /\ n = 0 \/ BytesOf(SubSeq(s, 1, n)) <= MaxBytes
               /\ \A m \in n + 1 .. Len(s) : BytesOf(SubSeq(s, 1, m)) > MaxBytes
<1> DEFINE Left(m) == BytesOf(s) - BytesOf(SubSeq(s, m + 1, Len(s)))
           Good(n) == /\ n = 0 \/ Left(n) <= MaxBytes
                      /\ \A m \in n + 1 .. Len(s) : Left(m) > MaxBytes
<1>0. Len(s) \in Nat
  BY LenProperties
<1>1. \A m \in 0 .. Len(s) : Left(m) = BytesOf(SubSeq(s, 1, m)) /\ Left(m) \in Int
  <2> SUFFICES ASSUME NEW m \in 0 .. Len(s)
               PROVE  Left(m) = BytesOf(SubSeq(s, 1, m)) /\ Left(m) \in Int
    OBVIOUS
  <2> DEFINE front == SubSeq(s, 1, m)
             rest == SubSeq(s, m + 1, Len(s))
  <2>1. front \in Seq(Entry) /\ rest \in Seq(Entry) /\ s = front \o rest
    BY SplitSeq
  <2> HIDE DEF front, rest
  <2>2. BytesOf(s) = BytesOf(front) + BytesOf(rest)
        /\ BytesOf(front) \in Int /\ BytesOf(rest) \in Int
    BY <2>1, ConcatFacts
  <2>3. BytesOf(s) - BytesOf(rest) = BytesOf(front)
    BY <2>2
  <2> QED BY <2>2, <2>3 DEF front, rest
<1>2. \E n \in 0 .. Len(s) : Good(n)
  <2> DEFINE U == {m \in 0 .. Len(s) : m = 0 \/ Left(m) <= MaxBytes}
  <2>1. U \in SUBSET (0 .. Len(s)) /\ 0 \in U
    BY <1>0
  <2>2. PICK n \in U : \A m \in U : m <= n
    <3> HIDE DEF U
    <3>1. U # {}
      BY <2>1
    <3> QED BY <1>0, <2>1, <3>1, GreatestBelow
  <2>3. n \in 0 .. Len(s) /\ (n = 0 \/ Left(n) <= MaxBytes)
    BY <2>2
  <2>4. ASSUME NEW m \in n + 1 .. Len(s) PROVE Left(m) > MaxBytes
    <3>1. m \in 0 .. Len(s) /\ ~(m <= n)
      BY <1>0, <2>3
    <3>2. m \notin U
      <4> HIDE DEF U
      <4> QED BY <2>2, <3>1
    <3>3. ~(Left(m) <= MaxBytes) /\ Left(m) \in Int
      BY <1>1, <3>1, <3>2
    <3> HIDE DEF Left
    <3> QED BY <3>3
  <2> HIDE DEF Left
  <2> QED BY <2>3, <2>4
<1>3. Kept(s, BytesOf(s)) = CHOOSE n \in 0 .. Len(s) : Good(n)
  BY DEF Kept
<1> HIDE DEF Left
<1>4. /\ Kept(s, BytesOf(s)) \in 0 .. Len(s)
      /\ Good(Kept(s, BytesOf(s)))
  <2> HIDE DEF Good
  <2> QED BY <1>2, <1>3
<1>5. \A n \in 0 .. Len(s) : \A m \in n + 1 .. Len(s) : m \in 0 .. Len(s)
  BY <1>0
<1> QED BY <1>1, <1>4, <1>5

LEMMA NoKeys == KeysOf(<<>>) = <<>> /\ BytesOf(<<>>) = 0
<1>1. KeysOf(<<>>) = <<>>
  BY DEF KeysOf
<1>2. Total(Each(<<>>, Size)) = 0
  BY EachEmpty, TotalEmpty
<1> QED BY <1>1, <1>2 DEF BytesOf

\* Insert of a part that is not known: the list stays consistent, and the part
\* is dropped at once only when it is above the limit alone.
LEMMA InsertFacts ==
    ASSUME TypeOK, ListMatchesIndex, BytesAccounted,
           NEW k \in Parts, NEW b \in Buffer \ {NoBuffer}, ~Known(k), Insert(k, b)
    PROVE  /\ lru' \in Seq(Entry) /\ index' \in [Parts -> Buffer] /\ totalBytes' \in Int
           /\ ListMatchesIndex' /\ BytesAccounted'
           /\ index'[k] = b \/ (index'[k] = NoBuffer /\ Size[k] > MaxBytes)
           /\ \E gone \in Seq(Parts) : <<k>> \o KeysOf(lru) = KeysOf(lru') \o gone
<1> DEFINE e == [part |-> k, buffer |-> b]
           list == <<e>> \o lru
           n == Kept(list, BytesOf(list))
           kept == SubSeq(list, 1, n)
           dropped == SubSeq(list, n + 1, Len(list))
           gone == Range(KeysOf(dropped))
<1>1. e \in Entry /\ e.part = k /\ e.buffer = b /\ lru \in Seq(Entry)
  BY DEF TypeOK, Buffer, Entry
<1>2. /\ list \in Seq(Entry) /\ Range(list) = {e} \cup Range(lru)
      /\ KeysOf(list) = <<k>> \o KeysOf(lru)
      /\ BytesOf(list) = totalBytes + Size[k] /\ BytesOf(list) \in Int
      /\ list[1] = e /\ Len(list) \in Nat \ {0}
  <2> DEFINE first == <<e>>
  <2>1. /\ first \in Seq(Entry) /\ KeysOf(first) = <<k>> /\ BytesOf(first) = Size[k]
        /\ Range(first) = {e}
    BY <1>1, OneEntryFacts
  <2>2. list[1] = e /\ Len(list) \in Nat \ {0}
    BY <1>1
  <2> HIDE DEF first
  <2>3. first \o lru \in Seq(Entry) /\ Range(first \o lru) = Range(first) \cup Range(lru)
    BY <1>1, <2>1, ConcatProperties, RangeConcatenation
  <2>4. /\ KeysOf(first \o lru) = KeysOf(first) \o KeysOf(lru)
        /\ BytesOf(first \o lru) = BytesOf(first) + BytesOf(lru)
        /\ BytesOf(first) \in Int /\ BytesOf(lru) \in Int
    BY <1>1, <2>1, ConcatFacts
  <2>5. list = first \o lru
    BY DEF first
  <2>6. totalBytes = BytesOf(lru)
    BY DEF BytesAccounted
  <2> HIDE DEF list
  <2> QED BY <2>1, <2>2, <2>3, <2>4, <2>5, <2>6
<1>3. /\ n \in 0 .. Len(list)
      /\ n = 0 \/ BytesOf(kept) <= MaxBytes
      /\ \A m \in n + 1 .. Len(list) : BytesOf(SubSeq(list, 1, m)) > MaxBytes
  <2> HIDE DEF list
  <2> QED BY <1>2, KeptFacts
<1>4. kept \in Seq(Entry) /\ dropped \in Seq(Entry) /\ list = kept \o dropped /\ Len(kept) = n
  <2> HIDE DEF list, n
  <2>1. \A m \in 0 .. Len(list) :
           /\ SubSeq(list, 1, m) \in Seq(Entry) /\ Len(SubSeq(list, 1, m)) = m
           /\ SubSeq(list, m + 1, Len(list)) \in Seq(Entry)
           /\ list = SubSeq(list, 1, m) \o SubSeq(list, m + 1, Len(list))
    BY <1>2, SplitSeq
  <2> QED BY <1>3, <2>1
<1>5. /\ lru' = kept /\ totalBytes' = BytesOf(list) - BytesOf(dropped)
      /\ index' = [p \in Parts |-> IF p \in gone THEN NoBuffer
                                   ELSE IF p = k THEN b ELSE index[p]]
  BY <1>2, Zenon DEF Insert
<1>6. SubSeq(list, 1, 1) = <<e>>
  <2> HIDE DEF list, e
  <2>1. 0 \in 0 .. Len(list) - 1
    BY <1>2
  <2>2. SubSeq(list, 1, 0 + 1) = Append(SubSeq(list, 1, 0), list[0 + 1])
    BY <1>2, <2>1, SubSeqGrows
  <2>3. SubSeq(list, 1, 0) = <<>>
    BY <1>2, SubSeqEmpty
  <2>4. SubSeq(list, 1, 1) = Append(<<>>, e)
    <3>1. 0 + 1 = 1 /\ list[1] = e
      BY <1>2
    <3> QED BY <2>2, <2>3, <3>1, Zenon
  <2>5. Append(<<>>, e) = <<e>>
    OBVIOUS
  <2> QED BY <2>4, <2>5
<1> HIDE DEF list, n, kept, dropped, e
<1>7. /\ KeysOf(list) = KeysOf(kept) \o KeysOf(dropped)
      /\ BytesOf(list) = BytesOf(kept) + BytesOf(dropped)
      /\ BytesOf(kept) \in Int /\ BytesOf(dropped) \in Int
  BY <1>4, ConcatFacts
<1>8. /\ KeysOf(lru) \in Seq(Parts) /\ Range(KeysOf(lru)) = {x.part : x \in Range(lru)}
      /\ KeysOf(kept) \in Seq(Parts) /\ Range(KeysOf(kept)) = {x.part : x \in Range(kept)}
      /\ KeysOf(dropped) \in Seq(Parts)
      /\ Range(KeysOf(dropped)) = {x.part : x \in Range(dropped)}
  BY <1>1, <1>4, KeysAreEach
<1>9. \A x \in Range(lru) : x \in Entry /\ x.part \in Parts /\ x.part # k
                            /\ index[x.part] = x.buffer
  <2> SUFFICES ASSUME NEW x \in Range(lru)
               PROVE  x \in Entry /\ x.part \in Parts /\ x.part # k /\ index[x.part] = x.buffer
    OBVIOUS
  <2>1. x \in Entry
    BY <1>1, LenProperties DEF Range
  <2>2. index[x.part] = x.buffer
    BY DEF ListMatchesIndex
  <2> QED BY <2>1, <2>2 DEF Entry, Known
<1>10. IsInjective(KeysOf(list))
  <2> DEFINE first == <<k>>
             keys == KeysOf(lru)
  <2>1. first \in Seq(Parts) /\ IsInjective(first) /\ Range(first) = {k}
    BY DEF IsInjective, Range
  <2>2. keys \in Seq(Parts) /\ IsInjective(keys) /\ Range(first) \cap Range(keys) = {}
    BY <1>8, <1>9, <2>1 DEF ListMatchesIndex
  <2>3. KeysOf(list) = first \o keys
    BY <1>2
  <2> HIDE DEF first, keys
  <2>4. IsInjective(first \o keys)
    BY <2>1, <2>2, ConcatInjective
  <2> QED BY <2>3, <2>4
<1>11. IsInjective(KeysOf(kept)) /\ Range(KeysOf(kept)) \cap gone = {}
  <2> DEFINE a == KeysOf(kept)
             z == KeysOf(dropped)
  <2>1. a \in Seq(Parts) /\ z \in Seq(Parts) /\ IsInjective(a \o z)
    BY <1>7, <1>8, <1>10
  <2> HIDE DEF a, z
  <2>2. IsInjective(a) /\ Range(a) \cap Range(z) = {}
    BY <2>1, ConcatInjective
  <2> QED BY <2>2 DEF a, z
<1>12. Range(list) = Range(kept) \cup Range(dropped)
  BY <1>4, RangeConcatenation
<1>13. index' \in [Parts -> Buffer]
  BY <1>5 DEF TypeOK, Buffer, NoBuffer
<1>14. \A p \in Parts : /\ p \in gone => index'[p] = NoBuffer
                        /\ p \notin gone /\ p = k => index'[p] = b
                        /\ p \notin gone /\ p # k => index'[p] = index[p]
  BY <1>5
<1> HIDE DEF gone
<1>15. \A x \in Range(kept) : index'[x.part] = x.buffer
  <2> SUFFICES ASSUME NEW x \in Range(kept) PROVE index'[x.part] = x.buffer
    OBVIOUS
  <2>1. x.part \notin gone /\ (x = e \/ x \in Range(lru))
    BY <1>2, <1>8, <1>11, <1>12
  <2> QED BY <1>1, <1>9, <1>14, <2>1
<1>16. \A p \in Parts : index'[p] # NoBuffer => [part |-> p, buffer |-> index'[p]] \in Range(kept)
  <2> SUFFICES ASSUME NEW p \in Parts, index'[p] # NoBuffer
               PROVE  [part |-> p, buffer |-> index'[p]] \in Range(kept)
    OBVIOUS
  <2> DEFINE x == [part |-> p, buffer |-> index'[p]]
  <2>1. p \notin gone
    BY <1>14
  <2>2. x \in Range(list)
    <3>1. CASE p = k
      BY <1>2, <1>14, <2>1, <3>1 DEF e
    <3>2. CASE p # k
      <4>1. index'[p] = index[p]
        BY <1>14, <2>1, <3>2
      <4>2. [part |-> p, buffer |-> index[p]] \in Range(lru)
        BY <4>1 DEF ListMatchesIndex, Known
      <4> QED BY <1>2, <4>1, <4>2
    <3> QED BY <3>1, <3>2
  <2>3. x.part = p
    OBVIOUS
  <2> HIDE DEF x
  <2>4. x \notin Range(dropped)
    BY <1>8, <2>1, <2>3 DEF gone
  <2> QED BY <1>12, <2>2, <2>4 DEF x
<1>17. ListMatchesIndex'
  BY <1>5, <1>11, <1>15, <1>16 DEF ListMatchesIndex, Known
<1>18. totalBytes' = BytesOf(kept) /\ totalBytes' \in Int
  BY <1>5, <1>7
<1>19. BytesOf(kept) <= MaxBytes
  <2>1. CASE n = 0
    <3>1. kept = <<>>
      BY <1>4, <2>1, EmptySeq
    <3> QED BY <3>1, NoKeys
  <2> QED BY <1>3, <2>1
<1>20. BytesAccounted'
  BY <1>5, <1>18, <1>19 DEF BytesAccounted
<1>21. index'[k] = b \/ (index'[k] = NoBuffer /\ Size[k] > MaxBytes)
  <2>1. CASE k \notin gone
    BY <1>14, <2>1
  <2> SUFFICES ASSUME k \in gone PROVE index'[k] = NoBuffer /\ Size[k] > MaxBytes
    BY <2>1
  <2>2. n = 0
    <3> SUFFICES ASSUME n # 0 PROVE FALSE
      OBVIOUS
    <3>1. 1 \in 1 .. n /\ n \in Nat
      BY <1>2, <1>3
    <3>2. kept[1] = list[1]
      BY <1>4, <3>1, ConcatProperties
    <3>3. e \in Range(kept)
      BY <1>2, <1>4, <3>1, <3>2, LenProperties DEF Range
    <3> QED BY <1>1, <1>8, <1>11, <3>3
  <2>3. 1 \in n + 1 .. Len(list)
    BY <1>2, <2>2
  <2>4. BytesOf(<<e>>) > MaxBytes
    BY <1>3, <1>6, <2>3
  <2>5. index'[k] = NoBuffer
    BY <1>14
  <2> QED BY <1>1, <2>4, <2>5, OneEntryFacts
<1>22. \E g \in Seq(Parts) : <<k>> \o KeysOf(lru) = KeysOf(lru') \o g
  BY <1>2, <1>5, <1>7, <1>8
<1> QED BY <1>4, <1>5, <1>13, <1>17, <1>18, <1>20, <1>21, <1>22

-----------------------------------------------------------------------------
(* The threads. *)

\* A thread that is about to insert holds what it assembled.
SoundThread(s) == s \in ThreadState /\ (s.at = "insert" => s.buffer # NoBuffer)

LEMMA ThreadsAreSound ==
    ASSUME CacheInv, NEW t \in Threads PROVE SoundThread(thread[t])
BY DEF CacheInv, TypeOK, SoundThread

\* There is always a number that no buffer in use has: the parts indexed and
\* the threads do not use up the numbers it is chosen from.
LEMMA FreshBufferIsNew ==
    ASSUME TypeOK, ListMatchesIndex PROVE FreshBuffer \in Buffer \ {NoBuffer}
<1> DEFINE N == NumParts + Cardinality(Threads) + 1
           free(c) == /\ \A i \in DOMAIN lru : lru[i].buffer # c
                      /\ \A t \in Threads : thread[t].buffer # c
           cached == Range(index)
           buffers == [t \in Threads |-> thread[t].buffer]
           held == Range(buffers)
           U == {c \in 1 .. N : free(c)}
<1>1. Cardinality(Threads) \in Nat /\ N \in Nat
  BY FS_CardinalityType
<1>2. IsFiniteSet(cached) /\ Cardinality(cached) <= NumParts /\ Cardinality(cached) \in Nat
  <2>1. index \in Surjection(Parts, cached)
    BY DEF TypeOK, Surjection, Range
  <2>2. IsFiniteSet(Parts) /\ Cardinality(Parts) = NumParts
    BY FS_Interval DEF Parts
  <2> QED BY <2>1, <2>2, FS_Surjection, FS_CardinalityType
<1>3. IsFiniteSet(held) /\ Cardinality(held) <= Cardinality(Threads) /\ Cardinality(held) \in Nat
  <2>1. buffers \in Surjection(Threads, held)
    BY DEF Surjection, Range
  <2> HIDE DEF buffers
  <2> QED BY <2>1, FS_Surjection, FS_CardinalityType
<1> HIDE DEF cached
<1>4. IsFiniteSet(cached \cup held) /\ Cardinality(cached \cup held) < N
  <2> HIDE DEF held
  <2>1. /\ IsFiniteSet(cached \cup held) /\ Cardinality(cached \cap held) \in Nat
        /\ Cardinality(cached \cup held) =
              Cardinality(cached) + Cardinality(held) - Cardinality(cached \cap held)
    <3>1. IsFiniteSet(cached \cap held)
      BY <1>2, FS_Subset
    <3> QED BY <1>2, <1>3, <3>1, FS_Union, FS_CardinalityType
  <2> QED BY <1>1, <1>2, <1>3, <2>1
<1>5. \A c \in 1 .. N : ~free(c) => c \in cached \cup held
  <2> SUFFICES ASSUME NEW c \in 1 .. N, ~free(c) PROVE c \in cached \cup held
    OBVIOUS
  <2>1. CASE \E t \in Threads : thread[t].buffer = c
    BY <2>1 DEF Range
  <2>2. CASE \E i \in DOMAIN lru : lru[i].buffer = c
    <3>1. PICK i \in DOMAIN lru : lru[i].buffer = c
      BY <2>2
    <3>2. lru[i] \in Range(lru) /\ lru[i].part \in Parts
      <4>1. lru[i] \in Entry
        BY LenProperties, ElementOfSeq DEF TypeOK
      <4> QED BY <4>1 DEF Entry, Range
    <3>3. index[lru[i].part] = c
      BY <3>1, <3>2 DEF ListMatchesIndex
    <3> QED BY <3>2, <3>3 DEF cached, TypeOK, Range
  <2> QED BY <2>1, <2>2
<1>6. U # {}
  <2> SUFFICES ASSUME U = {} PROVE FALSE
    OBVIOUS
  <2>1. 1 .. N \subseteq cached \cup held
    BY <1>5
  <2>2. Cardinality(1 .. N) = N
    BY <1>1, FS_Interval
  <2> HIDE DEF held, N
  <2>3. Cardinality(1 .. N) <= Cardinality(cached \cup held)
    BY <1>4, <2>1, FS_Subset
  <2>4. Cardinality(cached \cup held) \in Nat
    BY <1>4, FS_CardinalityType
  <2> QED BY <1>1, <1>4, <2>2, <2>3, <2>4
<1>7. \E b \in 1 .. N : free(b) /\ \A c \in 1 .. b - 1 : ~free(c)
  <2>1. U \in SUBSET Nat
    BY <1>1
  <2>2. PICK b \in U : \A c \in U : b <= c
    <3> HIDE DEF U
    <3> QED BY <1>6, <2>1, LeastNatural
  <2>3. b \in 1 .. N /\ free(b)
    BY <2>2
  <2>4. ASSUME NEW c \in 1 .. b - 1 PROVE ~free(c)
    <3>1. c \in 1 .. N /\ ~(b <= c)
      BY <1>1, <2>3
    <3> HIDE DEF free
    <3> QED BY <2>2, <3>1
  <2> HIDE DEF free
  <2> QED BY <2>3, <2>4
<1>8. FreshBuffer = CHOOSE b \in 1 .. N : free(b) /\ \A c \in 1 .. b - 1 : ~free(c)
  BY DEF FreshBuffer
<1> HIDE DEF free, N
<1>9. FreshBuffer \in 1 .. N
  BY <1>7, <1>8
<1> QED BY <1>1, <1>9 DEF Buffer, NoBuffer

LEMMA OneThreadChanges ==
    ASSUME NEW f \in [Threads -> ThreadState], \A u \in Threads : SoundThread(f[u]),
           NEW t \in Threads, NEW s, SoundThread(s)
    PROVE  /\ [f EXCEPT ![t] = s] \in [Threads -> ThreadState]
           /\ \A u \in Threads : SoundThread([f EXCEPT ![t] = s][u])
BY DEF SoundThread

LEMMA IdleIsSound ==
    /\ SoundThread(Idle)
    /\ \A k \in Parts : /\ SoundThread([Idle EXCEPT !.at = "lookup", !.part = k])
                        /\ SoundThread([Idle EXCEPT !.at = "check", !.part = k])
<1>1. 1 \in Parts
  BY DEF Parts
<1> QED BY <1>1 DEF SoundThread, Idle, ThreadState, Buffer, NoBuffer

LEMMA AdvanceIsSound ==
    ASSUME NEW s, SoundThread(s)
    PROVE  SoundThread(Advance(s)) /\ Advance(s).at # "answered"
<1>1. s \in ThreadState /\ s.part \in Parts /\ s.ahead \in Nat
  BY DEF SoundThread, ThreadState
<1> DEFINE ahead == s.ahead + Duration[s.part]
           next == [s EXCEPT !.at = "check", !.part = @ + 1, !.ahead = ahead, !.buffer = NoBuffer]
<1>2. ahead \in Nat
  BY <1>1
<1>3. CASE s.part < NumParts /\ ahead < AheadSeconds
  <2>1. s.part + 1 \in Parts
    BY <1>1, <1>3 DEF Parts
  <2>2. Advance(s) = next
    BY <1>3 DEF Advance
  <2> HIDE DEF ahead
  <2>3. SoundThread(next) /\ next.at = "check"
    BY <1>1, <1>2, <2>1 DEF SoundThread, ThreadState, Buffer, NoBuffer
  <2> QED BY <2>2, <2>3
<1>4. CASE ~(s.part < NumParts /\ ahead < AheadSeconds)
  <2>1. Advance(s) = Idle
    BY <1>4, Zenon DEF Advance
  <2>2. Idle.at # "answered"
    BY DEF Idle
  <2> QED BY <2>1, <2>2, IdleIsSound
<1> QED BY <1>3, <1>4

\* Whoever is answered gets what the cache holds at that moment, unless it is
\* above the limit alone.
AnsweredFromCache ==
    \A r \in Requests :
        thread[r].at # "answered" /\ thread'[r].at = "answered" =>
            LET k == thread[r].part
            IN  \/ index'[k] = thread'[r].buffer
                \/ index'[k] = NoBuffer /\ Size[k] > MaxBytes

\* A thread gets a buffer from GetOrAdd.
LEMMA ReturnFacts ==
    ASSUME CacheInv, NEW t \in Threads, NEW b \in Buffer, Return(t, b),
           \/ index'[thread[t].part] = b
           \/ index'[thread[t].part] = NoBuffer /\ Size[thread[t].part] > MaxBytes
    PROVE  /\ thread' \in [Threads -> ThreadState]
           /\ \A u \in Threads : SoundThread(thread'[u])
           /\ AnsweredFromCache
<1> DEFINE old == thread[t]
           answered == [old EXCEPT !.at = "answered", !.buffer = b]
           new == IF t \in Requests THEN answered ELSE Advance(old)
<1>1. /\ thread \in [Threads -> ThreadState] /\ SoundThread(old)
      /\ \A u \in Threads : SoundThread(thread[u])
  BY ThreadsAreSound DEF CacheInv, TypeOK
<1>2. thread' = [thread EXCEPT ![t] = new]
  BY DEF Return
<1> HIDE DEF old
<1>3. SoundThread(answered) /\ answered.buffer = b
  BY <1>1 DEF SoundThread, ThreadState
<1>4. SoundThread(new) /\ (t \in Requests => new.buffer = b)
      /\ (t \notin Requests => new.at # "answered")
  <2> HIDE DEF answered
  <2> QED BY <1>1, <1>3, AdvanceIsSound
<1> HIDE DEF new
<1>5. thread'[t] = new /\ \A u \in Threads \ {t} : thread'[u] = thread[u]
  BY <1>1, <1>2
<1>6. AnsweredFromCache
  <2> SUFFICES ASSUME NEW r \in Requests, thread[r].at # "answered", thread'[r].at = "answered"
               PROVE  \/ index'[thread[r].part] = thread'[r].buffer
                      \/ index'[thread[r].part] = NoBuffer /\ Size[thread[r].part] > MaxBytes
    BY DEF AnsweredFromCache
  <2>1. r \in Threads /\ r = t
    BY <1>5 DEF Threads
  <2> QED BY <1>4, <1>5, <2>1
<1> QED BY <1>1, <1>2, <1>4, <1>6, OneThreadChanges

-----------------------------------------------------------------------------
(* The order of use. *)

\* Without a part, the list still leads the parts answered.
LEMMA WithoutUsed ==
    ASSUME CacheInv, NEW k \in Parts
    PROVE  \E gone \in Seq(Parts) :
              Where(used, Parts \ {k}) = Where(KeysOf(lru), Parts \ {k}) \o gone
<1> DEFINE keys == KeysOf(lru)
           Q == Parts \ {k}
<1>1. keys \in Seq(Parts)
  BY KeysAreEach DEF CacheInv, TypeOK
<1>2. PICK gone \in Seq(Parts) : used = keys \o gone
  BY DEF CacheInv, ListLeadsUsed
<1> HIDE DEF keys, Q
<1>3. Where(keys \o gone, Q) = Where(keys, Q) \o Where(gone, Q)
  BY <1>1, WhereConcat
<1>4. Where(gone, Q) \in Seq(Parts)
  BY WhereType
<1> QED BY <1>2, <1>3, <1>4 DEF keys, Q

LEMMA UsedType ==
    ASSUME CacheInv, NEW k \in Parts
    PROVE  <<k>> \o Where(used, Parts \ {k}) \in Seq(Parts)
<1> DEFINE first == <<k>>
           rest == Where(used, Parts \ {k})
<1>1. first \in Seq(Parts) /\ rest \in Seq(Parts)
  BY WhereType DEF CacheInv, TypeOK
<1> HIDE DEF first, rest
<1>2. first \o rest \in Seq(Parts)
  BY <1>1, ConcatProperties
<1> QED BY <1>2 DEF first, rest

LEMMA UsedAfterTouch ==
    ASSUME CacheInv, NEW k \in Parts,
           KeysOf(lru') = <<k>> \o Where(KeysOf(lru), Parts \ {k}),
           used' = <<k>> \o Where(used, Parts \ {k})
    PROVE  ListLeadsUsed'
<1> DEFINE first == <<k>>
           rest == Where(KeysOf(lru), Parts \ {k})
<1>1. PICK gone \in Seq(Parts) : Where(used, Parts \ {k}) = rest \o gone
  BY WithoutUsed
<1>2. first \in Seq(Parts) /\ rest \in Seq(Parts)
  BY KeysAreEach, WhereType DEF CacheInv, TypeOK
<1> HIDE DEF first, rest
<1>3. (first \o rest) \o gone = first \o (rest \o gone)
  BY <1>2, PartsAssociate
<1>4. KeysOf(lru') = first \o rest /\ used' = first \o (rest \o gone)
  BY <1>1 DEF first, rest
<1> QED BY <1>3, <1>4 DEF ListLeadsUsed

LEMMA UsedAfterInsert ==
    ASSUME CacheInv, NEW k \in Parts, ~Known(k), lru' \in Seq(Entry),
           NEW gone \in Seq(Parts), <<k>> \o KeysOf(lru) = KeysOf(lru') \o gone,
           used' = <<k>> \o Where(used, Parts \ {k})
    PROVE  ListLeadsUsed'
<1> DEFINE first == <<k>>
           keys == KeysOf(lru)
           left == KeysOf(lru')
           Q == Parts \ {k}
<1>1. /\ first \in Seq(Parts) /\ keys \in Seq(Parts) /\ left \in Seq(Parts)
      /\ Range(keys) = {x.part : x \in Range(lru)}
  BY KeysAreEach DEF CacheInv, TypeOK
<1>2. \A p \in Range(keys) : p \in Parts /\ p # k
  <2> SUFFICES ASSUME NEW x \in Range(lru) PROVE x.part \in Parts /\ x.part # k
    BY <1>1
  <2>1. x \in Entry
    BY LenProperties DEF CacheInv, TypeOK, Range
  <2>2. index[x.part] = x.buffer
    BY DEF CacheInv, ListMatchesIndex
  <2> QED BY <2>1, <2>2 DEF Entry, Known
<1>3. PICK more \in Seq(Parts) : Where(used, Q) = Where(keys, Q) \o more
  BY WithoutUsed
<1>4. first \o keys = left \o gone
  OBVIOUS
<1>5. used' = first \o Where(used, Q)
  OBVIOUS
<1>6. \A p \in Range(keys) : p \in Parts <=> p \in Q
  BY <1>2
<1> HIDE DEF first, keys, left, Q
<1>7. Where(keys, Q) = keys
  <2>1. Where(keys, Parts) = Where(keys, Q)
    BY <1>1, <1>6, WhereSame
  <2>2. Where(keys, Parts) = keys
    BY <1>1, WhereAll
  <2> QED BY <2>1, <2>2
<1>8. gone \o more \in Seq(Parts) /\ first \o (keys \o more) = left \o (gone \o more)
  <2>1. (first \o keys) \o more = first \o (keys \o more)
    BY <1>1, PartsAssociate, Zenon
  <2>2. (left \o gone) \o more = left \o (gone \o more)
    BY <1>1, PartsAssociate, Zenon
  <2>3. gone \o more \in Seq(Parts)
    BY ConcatProperties
  <2> QED BY <1>4, <2>1, <2>2, <2>3, Zenon
<1>9. used' = left \o (gone \o more)
  BY <1>3, <1>5, <1>7, <1>8
<1> QED BY <1>8, <1>9 DEF ListLeadsUsed, left

-----------------------------------------------------------------------------
(* The steps. *)

LEMMA NothingUsed == \E gone \in Seq(Parts) : <<>> = KeysOf(<<>>) \o gone
<1> DEFINE none == <<>>
<1>1. none \in Seq(Parts) /\ none \o none = none
  BY EmptySeq, ConcatEmptySeq
<1>2. KeysOf(none) = none
  BY NoKeys
<1> HIDE DEF none
<1>3. \E gone \in Seq(Parts) : none = KeysOf(none) \o gone
  BY <1>1, <1>2
<1> QED BY <1>3 DEF none

LEMMA Initially == Init => CacheInv
<1> SUFFICES ASSUME Init PROVE CacheInv
  OBVIOUS
<1>1. /\ lru = <<>> /\ totalBytes = 0 /\ used = <<>>
      /\ index = [k \in Parts |-> NoBuffer] /\ thread = [t \in Threads |-> Idle]
  BY DEF Init
<1>2. TypeOK /\ \A t \in Threads : thread[t].at = "insert" => thread[t].buffer # NoBuffer
  <2>1. Idle \in ThreadState /\ Idle.at = "idle"
    BY IdleIsSound DEF SoundThread, Idle
  <2> QED BY <1>1, <2>1 DEF TypeOK, Buffer, NoBuffer
<1>3. ListMatchesIndex
  <2>1. Range(lru) = {} /\ IsInjective(KeysOf(lru))
    BY <1>1, NoKeys, RangeEmpty DEF IsInjective
  <2> QED BY <1>1, <2>1 DEF ListMatchesIndex, Known
<1>4. BytesAccounted
  BY <1>1, NoKeys DEF BytesAccounted
<1>5. ListLeadsUsed
  BY <1>1, NothingUsed DEF ListLeadsUsed
<1> QED BY <1>2, <1>3, <1>4, <1>5 DEF CacheInv

\* A step of the threads that leaves the cache alone and answers nobody.
LEMMA CacheUntouched ==
    ASSUME CacheInv, UNCHANGED <<lru, index, totalBytes, used>>,
           thread' \in [Threads -> ThreadState], \A u \in Threads : SoundThread(thread'[u]),
           \A r \in Requests : thread'[r].at = "answered" => thread[r].at = "answered"
    PROVE  CacheInv' /\ AnsweredFromCache
<1>1. TypeOK' /\ \A t \in Threads : thread'[t].at = "insert" => thread'[t].buffer # NoBuffer
  BY DEF CacheInv, TypeOK, SoundThread
<1>2. ListMatchesIndex' /\ BytesAccounted' /\ ListLeadsUsed'
  BY DEF CacheInv, ListMatchesIndex, BytesAccounted, ListLeadsUsed, Known
<1>3. AnsweredFromCache
  BY DEF AnsweredFromCache
<1> QED BY <1>1, <1>2, <1>3 DEF CacheInv

\* A critical section that finds the part.
LEMMA HitStep ==
    ASSUME CacheInv, NEW t \in Threads, NEW k \in Parts, thread[t].part = k,
           Known(k), Touch(k), Return(t, index[k]), UNCHANGED <<index, totalBytes>>
    PROVE  CacheInv' /\ AnsweredFromCache
<1>1. /\ lru' \in Seq(Entry) /\ Range(lru') = Range(lru)
      /\ KeysOf(lru') = <<k>> \o Where(KeysOf(lru), Parts \ {k})
      /\ IsInjective(KeysOf(lru')) /\ BytesOf(lru') = BytesOf(lru)
  BY TouchFacts DEF CacheInv
<1>2. index[k] \in Buffer /\ index'[thread[t].part] = index[k]
  BY DEF CacheInv, TypeOK
<1>3. /\ thread' \in [Threads -> ThreadState]
      /\ \A u \in Threads : SoundThread(thread'[u])
      /\ AnsweredFromCache
  BY <1>2, ReturnFacts
<1>4. used' = <<k>> \o Where(used, Parts \ {k})
  BY DEF Return
<1>5. used' \in Seq(Parts) /\ ListLeadsUsed'
  BY <1>1, <1>4, UsedType, UsedAfterTouch
<1>6. ListMatchesIndex'
  BY <1>1 DEF CacheInv, ListMatchesIndex, Known
<1>7. BytesAccounted'
  BY <1>1 DEF CacheInv, BytesAccounted
<1>8. TypeOK'
  BY <1>1, <1>3, <1>5 DEF CacheInv, TypeOK
<1> QED BY <1>3, <1>5, <1>6, <1>7, <1>8 DEF CacheInv, SoundThread

\* The second critical section, when nobody has added the part.
LEMMA InsertStep ==
    ASSUME CacheInv, NEW t \in Threads, NEW k \in Parts, thread[t].part = k,
           NEW b \in Buffer \ {NoBuffer}, ~Known(k), Insert(k, b), Return(t, b)
    PROVE  CacheInv' /\ AnsweredFromCache
<1>1. /\ lru' \in Seq(Entry) /\ index' \in [Parts -> Buffer] /\ totalBytes' \in Int
      /\ ListMatchesIndex' /\ BytesAccounted'
      /\ index'[k] = b \/ (index'[k] = NoBuffer /\ Size[k] > MaxBytes)
  BY InsertFacts DEF CacheInv
<1>2. PICK gone \in Seq(Parts) : <<k>> \o KeysOf(lru) = KeysOf(lru') \o gone
  BY InsertFacts DEF CacheInv
<1>3. /\ thread' \in [Threads -> ThreadState]
      /\ \A u \in Threads : SoundThread(thread'[u])
      /\ AnsweredFromCache
  BY <1>1, ReturnFacts
<1>4. used' = <<k>> \o Where(used, Parts \ {k})
  BY DEF Return
<1>5. used' \in Seq(Parts)
  BY <1>4, UsedType
<1>6. ListLeadsUsed'
  BY <1>1, <1>2, <1>4, UsedAfterInsert
<1>7. TypeOK'
  BY <1>1, <1>3, <1>5 DEF TypeOK
<1> QED BY <1>1, <1>3, <1>6, <1>7 DEF CacheInv, SoundThread

LEMMA ThreadStepKeeps ==
    ASSUME CacheInv, NEW t \in Threads, ThreadStep(t)
    PROVE  CacheInv' /\ AnsweredFromCache
<1> DEFINE s == thread[t]
           k == s.part
           b == s.buffer
<1>1. /\ thread \in [Threads -> ThreadState] /\ \A u \in Threads : SoundThread(thread[u])
      /\ s \in ThreadState /\ k \in Parts /\ b \in Buffer
      /\ s.at = "insert" => b # NoBuffer
  BY ThreadsAreSound DEF CacheInv, TypeOK, SoundThread, ThreadState
<1>2. ASSUME NEW new, SoundThread(new), new.at # "answered",
             thread' = [thread EXCEPT ![t] = new], UNCHANGED <<lru, index, totalBytes, used>>
      PROVE  CacheInv' /\ AnsweredFromCache
  <2>1. /\ thread' \in [Threads -> ThreadState]
        /\ \A u \in Threads : SoundThread(thread'[u])
    BY <1>1, <1>2, OneThreadChanges
  <2>2. \A r \in Requests : thread'[r].at = "answered" => thread[r].at = "answered"
    BY <1>1, <1>2 DEF Threads
  <2> QED BY <1>2, <2>1, <2>2, CacheUntouched
<1> HIDE DEF s
<1>3. CASE Lookup(t)
  <2>1. CASE Known(k) /\ Touch(k) /\ Return(t, index[k]) /\ UNCHANGED <<index, totalBytes>>
    BY <1>1, <2>1, HitStep DEF s
  <2>2. CASE /\ thread' = [thread EXCEPT ![t] = [s EXCEPT !.at = "assemble"]]
             /\ UNCHANGED <<lru, index, totalBytes, used>>
    <3>1. SoundThread([s EXCEPT !.at = "assemble"])
          /\ [s EXCEPT !.at = "assemble"].at # "answered"
      BY <1>1 DEF SoundThread, ThreadState
    <3> QED BY <1>2, <2>2, <3>1
  <2> QED BY <1>3, <2>1, <2>2 DEF Lookup, s
<1>4. CASE Assemble(t)
  <2> DEFINE new == [s EXCEPT !.at = "insert", !.buffer = FreshBuffer]
  <2>1. FreshBuffer \in Buffer \ {NoBuffer}
    BY FreshBufferIsNew DEF CacheInv
  <2>2. SoundThread(new) /\ new.at # "answered"
    BY <1>1, <2>1 DEF SoundThread, ThreadState
  <2>3. thread' = [thread EXCEPT ![t] = new] /\ UNCHANGED <<lru, index, totalBytes, used>>
    BY <1>1, <1>4 DEF Assemble, s
  <2> HIDE DEF new
  <2> QED BY <1>2, <2>2, <2>3
<1>5. CASE AssembleThrows(t)
  <2>1. Idle.at # "answered"
    BY DEF Idle
  <2>2. thread' = [thread EXCEPT ![t] = Idle] /\ UNCHANGED <<lru, index, totalBytes, used>>
    BY <1>5 DEF AssembleThrows
  <2> QED BY <1>2, <2>1, <2>2, IdleIsSound
<1>6. CASE Store(t)
  <2>1. CASE Known(k) /\ Touch(k) /\ Return(t, index[k]) /\ UNCHANGED <<index, totalBytes>>
    BY <1>1, <2>1, HitStep DEF s
  <2>2. CASE ~Known(k) /\ Insert(k, b) /\ Return(t, b)
    <3>1. b \in Buffer \ {NoBuffer}
      BY <1>1, <1>6 DEF Store, s
    <3> QED BY <1>1, <2>2, <3>1, InsertStep DEF s
  <2> QED BY <1>6, <2>1, <2>2 DEF Store, s
<1> QED BY <1>3, <1>4, <1>5, <1>6 DEF ThreadStep

\* Every step keeps the invariant and answers from the cache.
LEMMA StepKeeps ==
    ASSUME CacheInv, [Next]_vars PROVE CacheInv' /\ AnsweredFromCache
<1>1. /\ thread \in [Threads -> ThreadState] /\ \A u \in Threads : SoundThread(thread[u])
      /\ Requests \subseteq Threads /\ Tasks \subseteq Threads
  BY ThreadsAreSound DEF CacheInv, TypeOK, Threads
<1>2. ASSUME NEW t \in Threads, NEW new, SoundThread(new), new.at # "answered",
             thread' = [thread EXCEPT ![t] = new], UNCHANGED <<lru, index, totalBytes, used>>
      PROVE  CacheInv' /\ AnsweredFromCache
  <2>1. /\ thread' \in [Threads -> ThreadState]
        /\ \A u \in Threads : SoundThread(thread'[u])
    BY <1>1, <1>2, OneThreadChanges
  <2>2. \A r \in Requests : thread'[r].at = "answered" => thread[r].at = "answered"
    BY <1>1, <1>2
  <2> QED BY <1>2, <2>1, <2>2, CacheUntouched
<1>3. \A k \in Parts : /\ SoundThread([Idle EXCEPT !.at = "lookup", !.part = k])
                       /\ SoundThread([Idle EXCEPT !.at = "check", !.part = k])
                       /\ [Idle EXCEPT !.at = "lookup", !.part = k].at # "answered"
                       /\ [Idle EXCEPT !.at = "check", !.part = k].at # "answered"
  BY IdleIsSound DEF Idle
<1>4. SoundThread(Idle) /\ Idle.at # "answered"
  BY IdleIsSound DEF Idle
<1>5. ASSUME NEW t \in Threads, ThreadStep(t) PROVE CacheInv' /\ AnsweredFromCache
  BY <1>5, ThreadStepKeeps
<1>6. ASSUME NEW r \in Requests, NEW k \in Parts, Request(r, k)
      PROVE  CacheInv' /\ AnsweredFromCache
  <2> DEFINE new == [Idle EXCEPT !.at = "lookup", !.part = k]
  <2>1. thread' = [thread EXCEPT ![r] = new] /\ UNCHANGED <<lru, index, totalBytes, used>>
    BY <1>6 DEF Request
  <2>2. SoundThread(new) /\ new.at # "answered" /\ r \in Threads
    BY <1>1, <1>3
  <2> HIDE DEF new
  <2> QED BY <1>2, <2>1, <2>2
<1>7. ASSUME NEW r \in Requests, Answer(r) PROVE CacheInv' /\ AnsweredFromCache
  <2>1. CASE thread' = [thread EXCEPT ![r] = Idle]
    BY <1>1, <1>2, <1>4, <1>7, <2>1 DEF Answer
  <2>2. CASE /\ thread[r].part < NumParts
             /\ \E p \in Tasks : thread' = [thread EXCEPT ![r] = Idle,
                   ![p] = [Idle EXCEPT !.at = "check", !.part = thread[r].part + 1]]
    <3> DEFINE k == thread[r].part + 1
               new == [Idle EXCEPT !.at = "check", !.part = k]
               mid == [thread EXCEPT ![r] = Idle]
    <3>1. k \in Parts
      <4>1. thread[r].part \in Parts
        BY <1>1 DEF ThreadState
      <4> QED BY <2>2, <4>1 DEF Parts
    <3>2. SoundThread(new) /\ new.at # "answered"
      BY <1>3, <3>1
    <3>3. PICK p \in Tasks : thread' = [mid EXCEPT ![p] = new]
      BY <2>2
    <3>4. mid \in [Threads -> ThreadState] /\ \A u \in Threads : SoundThread(mid[u])
      BY <1>1, <1>4, OneThreadChanges
    <3>5. \A u \in Threads : mid[u].at = "answered" => thread[u].at = "answered"
      BY <1>1, <1>4
    <3> HIDE DEF mid, new, k
    <3>6. thread' \in [Threads -> ThreadState] /\ \A u \in Threads : SoundThread(thread'[u])
      BY <1>1, <3>2, <3>3, <3>4, OneThreadChanges
    <3>7. \A u \in Requests : thread'[u].at = "answered" => thread[u].at = "answered"
      BY <1>1, <3>2, <3>3, <3>4, <3>5
    <3>8. UNCHANGED <<lru, index, totalBytes, used>>
      BY <1>7 DEF Answer
    <3> QED BY <3>6, <3>7, <3>8, CacheUntouched
  <2> QED BY <1>7, <2>1, <2>2 DEF Answer
<1>8. ASSUME NEW p \in Tasks, CheckKnown(p) PROVE CacheInv' /\ AnsweredFromCache
  <2> DEFINE s == thread[p]
             waiting == [s EXCEPT !.at = "lookup"]
             new == IF Known(s.part) THEN Advance(s) ELSE waiting
  <2>1. thread' = [thread EXCEPT ![p] = new] /\ UNCHANGED <<lru, index, totalBytes, used>>
    BY <1>1, <1>8 DEF CheckKnown
  <2>2. SoundThread(s)
    BY <1>1
  <2> HIDE DEF s
  <2>3. SoundThread(waiting) /\ waiting.at # "answered"
    BY <2>2 DEF SoundThread, ThreadState
  <2> HIDE DEF waiting
  <2>4. SoundThread(new) /\ new.at # "answered"
    BY <2>2, <2>3, AdvanceIsSound
  <2> HIDE DEF new
  <2> QED BY <1>1, <1>2, <2>1, <2>4
<1>9. CASE Warm
  <2> DEFINE new == [Idle EXCEPT !.at = "check", !.part = 1]
  <2>1. 1 \in Parts
    BY DEF Parts
  <2>2. SoundThread(new) /\ new.at # "answered"
    BY <1>3, <2>1
  <2>3. PICK p \in Tasks : thread' = [thread EXCEPT ![p] = new]
    BY <1>9 DEF Warm, Prefetch
  <2>4. UNCHANGED <<lru, index, totalBytes, used>>
    BY <1>9 DEF Warm
  <2> HIDE DEF new
  <2> QED BY <1>1, <1>2, <2>2, <2>3, <2>4
<1>10. CASE Clear
  <2>1. /\ lru' = <<>> /\ totalBytes' = 0 /\ used' = <<>> /\ thread' = thread
        /\ index' = [k \in Parts |-> NoBuffer]
    BY <1>10 DEF Clear
  <2>2. TypeOK'
    BY <1>1, <2>1 DEF TypeOK, Buffer, NoBuffer
  <2>3. ListMatchesIndex'
    <3>1. Range(lru') = {} /\ IsInjective(KeysOf(lru'))
      BY <2>1, NoKeys, RangeEmpty DEF IsInjective
    <3> QED BY <2>1, <3>1 DEF ListMatchesIndex, Known
  <2>4. BytesAccounted'
    BY <2>1, NoKeys DEF BytesAccounted
  <2>5. ListLeadsUsed'
    BY <2>1, NothingUsed DEF ListLeadsUsed
  <2>6. AnsweredFromCache
    BY <2>1 DEF AnsweredFromCache
  <2> QED BY <2>1, <2>2, <2>3, <2>4, <2>5, <2>6 DEF CacheInv
<1>11. CASE UNCHANGED vars
  BY <1>1, <1>11, CacheUntouched DEF vars
<1> QED BY <1>1, <1>5, <1>6, <1>7, <1>8, <1>9, <1>10, <1>11 DEF Next

LEMMA CacheInvHolds == Spec => []CacheInv
BY Initially, StepKeeps, PTL DEF Spec

-----------------------------------------------------------------------------
(* What follows. *)

\* For any number of threads and any parts, however two threads that assemble
\* one part, evictions, parts above the limit and Clear interleave: whenever
\* the lock is free the dictionary and the linked list describe the same
\* entries, and the byte count is what they weigh, within the limit.
THEOREM CacheConsistent == Spec => []CacheIsConsistent
<1>1. CacheInv => CacheIsConsistent
  <2> SUFFICES ASSUME CacheInv PROVE IndexMatchesList
    BY DEF CacheInv, CacheIsConsistent
  <2>1. /\ lru \in Seq(Entry) /\ \A i \in DOMAIN lru : lru[i] \in Entry /\ lru[i] \in Range(lru)
    BY LenProperties, ElementOfSeq DEF CacheInv, TypeOK, Range
  <2>2. \A i, j \in DOMAIN lru : lru[i].part = lru[j].part => i = j
    <3>1. DOMAIN KeysOf(lru) = DOMAIN lru /\ \A i \in DOMAIN lru : KeysOf(lru)[i] = lru[i].part
      BY DEF KeysOf
    <3> QED BY <3>1 DEF CacheInv, ListMatchesIndex, IsInjective
  <2>3. \A i \in DOMAIN lru : index[lru[i].part] = lru[i].buffer
    BY <2>1 DEF CacheInv, ListMatchesIndex
  <2>4. ASSUME NEW k \in Parts, NEW b \in {index[p] : p \in Parts} \ {NoBuffer}
        PROVE  index[k] = b <=> [part |-> k, buffer |-> b] \in Range(lru)
    <3>1. ASSUME index[k] = b PROVE [part |-> k, buffer |-> b] \in Range(lru)
      BY <3>1 DEF CacheInv, ListMatchesIndex, Known
    <3>2. ASSUME [part |-> k, buffer |-> b] \in Range(lru) PROVE index[k] = b
      BY <3>2 DEF CacheInv, ListMatchesIndex
    <3> QED BY <3>1, <3>2
  <2> QED BY <2>2, <2>3, <2>4 DEF IndexMatchesList
<1> QED BY <1>1, CacheInvHolds, PTL

\* Eviction is least recently used for every limit: what is cached is always
\* the parts answered most recently, in that order.
THEOREM CacheMostRecent == Spec => []CacheHoldsMostRecent
<1>1. CacheInv => CacheHoldsMostRecent
  <2> SUFFICES ASSUME CacheInv PROVE IsPrefix(KeysOf(lru), used)
    BY DEF CacheHoldsMostRecent
  <2> DEFINE keys == KeysOf(lru)
  <2>1. keys \in Seq(Parts)
    BY KeysAreEach DEF CacheInv, TypeOK
  <2>2. PICK gone \in Seq(Parts) : used = keys \o gone
    BY DEF CacheInv, ListLeadsUsed
  <2> HIDE DEF keys
  <2>3. /\ Len(keys) \in Nat /\ Len(gone) \in Nat /\ Len(keys \o gone) = Len(keys) + Len(gone)
        /\ SubSeq(keys \o gone, 1, Len(keys)) = keys
    BY <2>1, LenProperties, ConcatProperties, SubSeqOfConcat1
  <2>4. SubSeq(keys, 1, Len(keys)) = keys
    BY <2>1, SubSeqFull
  <2> QED BY <2>2, <2>3, <2>4 DEF IsPrefix, keys
<1> QED BY <1>1, CacheInvHolds, PTL

\* A request is always answered with the copy the cache holds at that moment,
\* another thread's included, or with a part that is above the limit alone.
THEOREM CachedCopyAnswered == Spec => AnswerIsCachedCopy
<1>1. CacheInv /\ [Next]_vars => [AnsweredFromCache]_vars
  BY StepKeeps
<1> QED BY <1>1, CacheInvHolds, PTL DEF Spec, AnswerIsCachedCopy, AnsweredFromCache

=============================================================================
