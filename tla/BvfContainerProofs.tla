------------------------- MODULE BvfContainerProofs -------------------------
(* Theorems about BvfContainer for any packages, sizes, users and muxer    *)
(* runs: what is written, and what every reader makes of it.               *)
EXTENDS BvfContainer, SequenceLemmas

F == FILE_HEADER_SIZE
I == INDEX_ENTRY_SIZE
B == ASSET_BLOCK_HEADER_SIZE
M == ManifestSize

\* What the assumption on the sizes says of each.
LEMMA SizeFacts ==
    /\ F \in Nat /\ F > 0 /\ I \in Nat /\ I > 0
    /\ B \in Nat /\ B > 0 /\ M \in Nat /\ M > 0 /\ Tolerance \in Nat
<1>1. {F, I, B, M} \subseteq Nat \ {0} /\ Tolerance \in Nat
  BY SizesAssumption DEF F, I, B, M
<1>2. F \in Nat \ {0} /\ I \in Nat \ {0} /\ B \in Nat \ {0} /\ M \in Nat \ {0}
  BY <1>1
<1> QED BY <1>1, <1>2

-----------------------------------------------------------------------------
(* What is in a file. *)

Count(p) == Len(p.assets)
BlockValue(asset) == [kind |-> "block", id |-> asset.id]
MediaValue(asset) == [kind |-> "media", id |-> asset.id, media |-> asset.media]

Values(p) ==
    {Header(p), Manifest(p)} \cup {IndexEntry(p, i) : i \in 1 .. Count(p)}
        \cup {BlockValue(p.assets[i]) : i \in 1 .. Count(p)}
        \cup {MediaValue(p.assets[i]) : i \in 1 .. Count(p)}

Cells(p) == [val : Values(p), at : Nat]

\* The cells of b that follow offset are an encoding of v.
Encoded(b, offset, v, n) ==
    /\ offset + n <= Len(b)
    /\ \A k \in 1 .. n : b[offset + k] = [val |-> v, at |-> k]

\* Encode gives n cells, of one value, numbered from one.
LEMMA EncodeFacts ==
    ASSUME NEW V, NEW v \in V, NEW n \in Nat
    PROVE  /\ Encode(v, n) \in Seq([val : V, at : Nat]) /\ Len(Encode(v, n)) = n
           /\ \A k \in 1 .. n : Encode(v, n)[k] = [val |-> v, at |-> k]
<1> DEFINE C == [val : V, at : Nat]
           e == [k \in 1 .. n |-> [val |-> v, at |-> k]]
<1>1. e \in [1 .. n -> C]
  OBVIOUS
<1>2. Encode(v, n) = e
  BY DEF Encode
<1> HIDE DEF C
<1>3. e \in Seq(C) /\ Len(e) = n
  BY <1>1
<1> QED BY <1>2, <1>3 DEF C

\* The parts of an asset and the length of its block.
LEMMA AssetFacts ==
    ASSUME NEW p \in Packages
    PROVE  /\ p.assets \in Seq(Asset) /\ Count(p) \in Nat /\ DOMAIN p.assets = 1 .. Count(p)
           /\ \A i \in 1 .. Count(p) :
                 /\ p.assets[i] \in Asset /\ p.assets[i].id \in Ids
                 /\ p.assets[i].duration \in Nat
                 /\ p.assets[i].media.size \in Nat /\ p.assets[i].media.duration \in Nat
                 /\ BlockLength(p.assets[i]) = B + p.assets[i].media.size
                 /\ BlockLength(p.assets[i]) \in Nat
<1>1. p.assets \in Seq(Asset)
  BY PackagesAssumption
<1>2. Count(p) \in Nat /\ DOMAIN p.assets = 1 .. Count(p)
  BY <1>1, LenProperties DEF Count
<1>3. \A i \in 1 .. Count(p) : p.assets[i] \in Asset
  BY <1>1, ElementOfSeq DEF Count
<1>4. \A a \in Asset : /\ a.id \in Ids /\ a.duration \in Nat
                       /\ a.media.size \in Nat /\ a.media.duration \in Nat
                       /\ BlockLength(a) = B + a.media.size /\ BlockLength(a) \in Nat
  BY SizeFacts DEF Asset, Media, BlockLength, B
<1> QED BY <1>1, <1>2, <1>3, <1>4

\* Where the blocks end, counted from the first one.
Lengths(p) == [i \in DOMAIN p.assets |-> BlockLength(p.assets[i])]
Ends(p) == [i \in 0 .. Count(p) |-> Total(SubSeq(Lengths(p), 1, i))]
FirstBlock(p) == ManifestOffset(p) + M
Offset(p, i) == BlockOffsets(p)[i]

\* Where the manifest and the blocks of a package are: one after the other.
LEMMA OffsetFacts ==
    ASSUME NEW p \in Packages
    PROVE  /\ ManifestOffset(p) = F + Count(p) * I /\ ManifestOffset(p) \in Nat
           /\ Ends(p) \in [0 .. Count(p) -> Nat] /\ Ends(p)[0] = 0
           /\ \A i \in 1 .. Count(p) :
                 /\ Ends(p)[i] = Ends(p)[i - 1] + BlockLength(p.assets[i])
                 /\ Offset(p, i) = FirstBlock(p) + Ends(p)[i - 1]
                 /\ Offset(p, i) \in Nat
                 /\ Offset(p, i) + BlockLength(p.assets[i]) = FirstBlock(p) + Ends(p)[i]
<1> DEFINE n == Count(p)
           s == Lengths(p)
           e == Ends(p)
<1>1. n \in Nat /\ DOMAIN p.assets = 1 .. n
      /\ \A i \in 1 .. n : BlockLength(p.assets[i]) \in Nat
  BY AssetFacts
<1>2. s \in Seq(Nat) /\ Len(s) = n /\ \A i \in 1 .. n : s[i] = BlockLength(p.assets[i])
  <2>1. s \in [1 .. n -> Nat] /\ \A i \in 1 .. n : s[i] = BlockLength(p.assets[i])
    BY <1>1 DEF Lengths
  <2> HIDE DEF s, n
  <2> QED BY <1>1, <2>1
<1>3. ManifestOffset(p) = F + n * I /\ ManifestOffset(p) \in Nat
  <2>1. ManifestOffset(p) = F + n * I
    BY DEF ManifestOffset, F, I, Count
  <2> HIDE DEF n
  <2>2. n * I \in Nat
    BY <1>1, SizeFacts
  <2> QED BY <2>1, <2>2, SizeFacts
<1>4. \A i \in 0 .. n : e[i] = Total(SubSeq(s, 1, i))
  BY DEF Ends
<1> HIDE DEF s, n
<1>5. s \in Seq(Int) /\ \A i \in 0 .. n : Total(SubSeq(s, 1, i)) \in Nat
  <2>1. s \in Seq(Int)
    BY <1>2, TotalsGrow
  <2>2. ASSUME NEW i \in 0 .. n PROVE Total(SubSeq(s, 1, i)) \in Nat
    <3>1. n \in 0 .. Len(s) /\ i \in 0 .. n
      BY <1>1, <1>2
    <3> QED BY <1>2, <3>1, TotalsGrow
  <2> QED BY <2>1, <2>2
<1>6. /\ Total(SubSeq(s, 1, 0)) = 0
      /\ \A i \in 1 .. n : Total(SubSeq(s, 1, i)) = Total(SubSeq(s, 1, i - 1)) + s[i]
  BY <1>2, <1>5, PartialTotals
<1>7. e \in [0 .. n -> Nat]
  BY <1>5 DEF Ends, n, s
<1>8. e[0] = 0
  BY <1>1, <1>4, <1>6
<1>9. ASSUME NEW i \in 1 .. n
      PROVE  /\ e[i] = e[i - 1] + BlockLength(p.assets[i]) /\ e[i - 1] \in Nat
             /\ Offset(p, i) = FirstBlock(p) + e[i - 1]
  <2>1. i - 1 \in 0 .. n /\ i \in 0 .. n
    BY <1>1
  <2>2. e[i - 1] = Total(SubSeq(s, 1, i - 1)) /\ e[i] = Total(SubSeq(s, 1, i))
    BY <1>4, <2>1
  <2>3. e[i] = e[i - 1] + BlockLength(p.assets[i]) /\ e[i - 1] \in Nat
    BY <1>2, <1>5, <1>6, <2>1, <2>2
  <2>4. Offset(p, i) = FirstBlock(p) + Total(SubSeq(s, 1, i - 1))
    BY <1>1 DEF Offset, BlockOffsets, FirstBlock, M, s, Lengths
  <2> QED BY <2>2, <2>3, <2>4
<1>10. FirstBlock(p) \in Nat
  BY <1>3, SizeFacts DEF FirstBlock
<1>11. ASSUME NEW i \in 1 .. n
       PROVE  /\ Offset(p, i) \in Nat
              /\ Offset(p, i) + BlockLength(p.assets[i]) = FirstBlock(p) + e[i]
  <2> DEFINE len == BlockLength(p.assets[i])
             before == e[i - 1]
             first == FirstBlock(p)
  <2>1. len \in Nat /\ before \in Nat /\ first \in Nat /\ e[i] = before + len
        /\ Offset(p, i) = first + before
    BY <1>1, <1>9, <1>10
  <2> HIDE DEF len, before, first
  <2>2. Offset(p, i) \in Nat /\ Offset(p, i) + len = first + e[i]
    BY <2>1
  <2> QED BY <2>2 DEF len, first
<1> QED BY <1>3, <1>7, <1>8, <1>9, <1>11 DEF n


\* What is encoded in one of two sequences is encoded in both together.
LEMMA EncodedConcat ==
    ASSUME NEW S, NEW s \in Seq(S), NEW t \in Seq(S), NEW v, NEW n \in Nat, NEW o \in Nat
    PROVE  /\ Encoded(s, o, v, n) => Encoded(s \o t, o, v, n)
           /\ Encoded(t, o, v, n) => Encoded(s \o t, Len(s) + o, v, n)
<1> DEFINE w == s \o t
           a == Len(s)
           c == Len(t)
<1>1. a \in Nat /\ c \in Nat
  BY LenProperties
<1>2. Len(w) = a + c /\ \A i \in 1 .. a + c : w[i] = IF i <= a THEN s[i] ELSE t[i - a]
  BY ConcatProperties
<1> HIDE DEF w
<1>3. ASSUME Encoded(s, o, v, n) PROVE Encoded(w, o, v, n)
  <2>1. o + n <= a /\ \A k \in 1 .. n : s[o + k] = [val |-> v, at |-> k]
    BY <1>3 DEF Encoded
  <2> HIDE DEF a, c
  <2>2. ASSUME NEW k \in 1 .. n PROVE w[o + k] = s[o + k]
    BY <1>1, <1>2, <2>1
  <2> QED BY <1>1, <1>2, <2>1, <2>2 DEF Encoded
<1>4. ASSUME Encoded(t, o, v, n) PROVE Encoded(w, a + o, v, n)
  <2>1. o + n <= c /\ \A k \in 1 .. n : t[o + k] = [val |-> v, at |-> k]
    BY <1>4 DEF Encoded
  <2> HIDE DEF a, c
  <2>2. ASSUME NEW k \in 1 .. n PROVE w[(a + o) + k] = t[o + k]
    <3>1. (a + o) + k \in 1 .. a + c /\ ~((a + o) + k <= a) /\ ((a + o) + k) - a = o + k
      BY <1>1, <2>1
    <3> QED BY <1>2, <3>1
  <2> QED BY <1>1, <1>2, <2>1, <2>2 DEF Encoded
<1> QED BY <1>3, <1>4 DEF w, a

\* An encoding encodes its value, from its first cell on.
LEMMA EncodeIsEncoded ==
    ASSUME NEW v, NEW n \in Nat PROVE Encoded(Encode(v, n), 0, v, n)
<1>1. v \in {v}
  OBVIOUS
<1>2. Len(Encode(v, n)) = n /\ \A k \in 1 .. n : Encode(v, n)[k] = [val |-> v, at |-> k]
  BY <1>1, EncodeFacts
<1>3. \A k \in 1 .. n : 0 + k = k
  OBVIOUS
<1> QED BY <1>2, <1>3 DEF Encoded

\* What is encoded in one of the sequences is encoded in all of them together.
LEMMA EncodedFlat ==
    ASSUME NEW S, NEW ss \in Seq(Seq(S)), NEW ends \in [0 .. Len(ss) -> Nat], EndsOf(ss, ends),
           NEW i \in 1 .. Len(ss), NEW v, NEW n \in Nat, NEW o \in Nat, Encoded(ss[i], o, v, n)
    PROVE  Encoded(Flat(ss), ends[i - 1] + o, v, n)
<1> DEFINE a == ends[i - 1]
           f == Flat(ss)
           t == ss[i]
           m == Len(ss)
<1>1. m \in Nat /\ t \in Seq(S) /\ Len(t) \in Nat
  BY LenProperties, ElementOfSeq
<1>2. a \in Nat /\ ends[i] = a + Len(t)
  <2>1. i - 1 \in 0 .. m
    BY <1>1
  <2> QED BY <2>1 DEF EndsOf
<1>3. f \in Seq(S) /\ ends[i] <= Len(f) /\ \A k \in 1 .. Len(t) : f[a + k] = t[k]
  BY FlatFacts
<1>4. o + n <= Len(t) /\ \A k \in 1 .. n : t[o + k] = [val |-> v, at |-> k]
  BY DEF Encoded
<1>5. Len(f) \in Nat
  BY <1>3, LenProperties
<1> HIDE DEF a, f, t
<1>6. (a + o) + n <= Len(f)
  BY <1>1, <1>2, <1>3, <1>4, <1>5
<1>7. ASSUME NEW k \in 1 .. n PROVE f[(a + o) + k] = [val |-> v, at |-> k]
  <2>1. o + k \in 1 .. Len(t) /\ a + (o + k) = (a + o) + k
    BY <1>1, <1>2, <1>4
  <2>2. f[a + (o + k)] = t[o + k]
    BY <1>3, <2>1
  <2> QED BY <1>4, <2>1, <2>2
<1>8. Encoded(f, a + o, v, n)
  BY <1>6, <1>7 DEF Encoded
<1> QED BY <1>8 DEF f, a

IndexBytes(p) == [i \in DOMAIN p.assets |-> Encode(IndexEntry(p, i), INDEX_ENTRY_SIZE)]
BlockBytes(p) == [i \in DOMAIN p.assets |-> Block(p.assets[i])]

\* A block is its header, then the media.
LEMMA BlockFacts ==
    ASSUME NEW p \in Packages, NEW i \in 1 .. Count(p)
    PROVE  /\ Block(p.assets[i]) \in Seq(Cells(p))
           /\ Len(Block(p.assets[i])) = BlockLength(p.assets[i])
           /\ Encoded(Block(p.assets[i]), 0, BlockValue(p.assets[i]), B)
           /\ Encoded(Block(p.assets[i]), B, MediaValue(p.assets[i]), p.assets[i].media.size)
<1> DEFINE a == p.assets[i]
           v == BlockValue(a)
           w == MediaValue(a)
           n == a.media.size
           V == Values(p)
           C == Cells(p)
           s == Encode(v, B)
           t == Encode(w, n)
<1>1. n \in Nat /\ BlockLength(a) = B + n
  BY AssetFacts
<1>2. v \in V /\ w \in V
  BY DEF Values
<1>3. C = [val : V, at : Nat]
  BY DEF Cells
<1>4. Block(a) = s \o t
  BY DEF Block, BlockValue, MediaValue, B
<1> HIDE DEF v, w, n, V, C
<1>5. s \in Seq(C) /\ Len(s) = B /\ t \in Seq(C) /\ Len(t) = n
  BY <1>1, <1>2, <1>3, EncodeFacts, SizeFacts
<1>6. Encoded(s, 0, v, B) /\ Encoded(t, 0, w, n)
  BY <1>1, SizeFacts, EncodeIsEncoded
<1> HIDE DEF s, t
<1>7. s \o t \in Seq(C) /\ Len(s \o t) = B + n
  BY <1>5, ConcatProperties
<1>8. 0 \in Nat /\ B \in Nat /\ B + 0 = B
  BY SizeFacts
<1>9. Encoded(s \o t, 0, v, B)
  BY <1>5, <1>6, <1>8, EncodedConcat
<1>10. Encoded(s \o t, B + 0, w, n)
  BY <1>1, <1>5, <1>6, <1>8, EncodedConcat
<1> QED BY <1>1, <1>4, <1>7, <1>8, <1>9, <1>10 DEF v, w, n, C

\* The index: entry i is encoded i - 1 entries after its start.
LEMMA IndexFacts ==
    ASSUME NEW p \in Packages
    PROVE  /\ Flat(IndexBytes(p)) \in Seq(Cells(p)) /\ Len(Flat(IndexBytes(p))) = Count(p) * I
           /\ \A i \in 1 .. Count(p) :
                 /\ (i - 1) * I \in Nat
                 /\ Encoded(Flat(IndexBytes(p)), (i - 1) * I, IndexEntry(p, i), I)
<1> DEFINE n == Count(p)
           ss == IndexBytes(p)
           C == Cells(p)
           ends == [i \in 0 .. n |-> i * I]
           v(i) == IndexEntry(p, i)
<1>1. n \in Nat /\ DOMAIN p.assets = 1 .. n /\ I \in Nat
  BY AssetFacts, SizeFacts
<1>2. \A i \in 1 .. n : ss[i] = Encode(v(i), I)
  BY <1>1 DEF IndexBytes, I
<1>3. ASSUME NEW i \in 1 .. n
      PROVE  ss[i] \in Seq(C) /\ Len(ss[i]) = I /\ Encoded(ss[i], 0, v(i), I)
  <2> DEFINE V == Values(p)
             u == v(i)
  <2>1. u \in V
    BY DEF Values
  <2>2. C = [val : V, at : Nat]
    BY DEF Cells
  <2> HIDE DEF u, V, C
  <2>3. Encode(u, I) \in Seq(C) /\ Len(Encode(u, I)) = I /\ Encoded(Encode(u, I), 0, u, I)
    BY <1>1, <2>1, <2>2, EncodeFacts, EncodeIsEncoded
  <2> QED BY <1>2, <2>3 DEF u
<1>4. ss \in Seq(Seq(C)) /\ Len(ss) = n
  <2>1. ss = [i \in 1 .. n |-> ss[i]]
    BY <1>1 DEF IndexBytes
  <2> HIDE DEF ss, C, n
  <2>2. ss \in [1 .. n -> Seq(C)]
    BY <1>3, <2>1
  <2> QED BY <1>1, <2>2
<1> HIDE DEF n, ss, C, v
<1>5. \A i \in 0 .. n : i * I \in Nat
  <2> SUFFICES ASSUME NEW i \in 0 .. n PROVE i * I \in Nat
    OBVIOUS
  <2>1. i \in Nat
    BY <1>1
  <2> QED BY <1>1, <2>1
<1>6. ends \in [0 .. Len(ss) -> Nat]
  BY <1>4, <1>5
<1>7. EndsOf(ss, ends)
  <2>1. ends[0] = 0
    BY <1>1
  <2>2. ASSUME NEW i \in 1 .. n PROVE ends[i] = ends[i - 1] + Len(ss[i])
    <3>1. i - 1 \in 0 .. n /\ i \in 0 .. n
      BY <1>1
    <3>2. ends[i] = i * I /\ ends[i - 1] = (i - 1) * I
      BY <3>1
    <3>3. i * I = (i - 1) * I + I
      BY <1>1
    <3> QED BY <1>3, <3>2, <3>3
  <2> QED BY <1>4, <2>1, <2>2 DEF EndsOf
<1>8. ends[n] = n * I /\ \A i \in 1 .. n : ends[i - 1] = (i - 1) * I /\ (i - 1) * I \in Nat
  BY <1>1, <1>5
<1> HIDE DEF ends
<1>9. Flat(ss) \in Seq(C) /\ Len(Flat(ss)) = ends[n]
  BY <1>4, <1>6, <1>7, FlatFacts
<1>10. ASSUME NEW i \in 1 .. n PROVE Encoded(Flat(ss), ends[i - 1] + 0, v(i), I)
  <2> DEFINE u == v(i)
  <2>1. Encoded(ss[i], 0, u, I) /\ 0 \in Nat /\ i \in 1 .. Len(ss)
    BY <1>3, <1>4
  <2> HIDE DEF u
  <2>2. Encoded(Flat(ss), ends[i - 1] + 0, u, I)
    BY <1>1, <1>4, <1>6, <1>7, <2>1, EncodedFlat
  <2> QED BY <2>2 DEF u
<1>11. ASSUME NEW i \in 1 .. n PROVE Encoded(Flat(ss), (i - 1) * I, v(i), I)
  <2>1. ends[i - 1] + 0 = (i - 1) * I
    BY <1>8
  <2> QED BY <1>10, <2>1
<1> QED BY <1>8, <1>9, <1>11 DEF n, ss, C, v

\* The blocks: each one starts where the one before it ends.
LEMMA BlocksFacts ==
    ASSUME NEW p \in Packages
    PROVE  /\ Flat(BlockBytes(p)) \in Seq(Cells(p))
           /\ Len(Flat(BlockBytes(p))) = Ends(p)[Count(p)]
           /\ \A i \in 1 .. Count(p) :
                 /\ Ends(p)[i - 1] \in Nat
                 /\ Encoded(Flat(BlockBytes(p)), Ends(p)[i - 1], BlockValue(p.assets[i]), B)
                 /\ Encoded(Flat(BlockBytes(p)), Ends(p)[i - 1] + B,
                            MediaValue(p.assets[i]), p.assets[i].media.size)
<1> DEFINE n == Count(p)
           ss == BlockBytes(p)
           C == Cells(p)
           ends == Ends(p)
<1>1. n \in Nat /\ DOMAIN p.assets = 1 .. n /\ B \in Nat
      /\ \A i \in 1 .. n : p.assets[i].media.size \in Nat
  BY AssetFacts, SizeFacts
<1>2. \A i \in 1 .. n : ss[i] = Block(p.assets[i])
  BY <1>1 DEF BlockBytes
<1>3. \A i \in 1 .. n : ss[i] \in Seq(C) /\ Len(ss[i]) = BlockLength(p.assets[i])
  BY <1>2, BlockFacts
<1>4. ss \in Seq(Seq(C)) /\ Len(ss) = n
  <2>1. ss = [i \in 1 .. n |-> ss[i]]
    BY <1>1 DEF BlockBytes
  <2> HIDE DEF ss, C, n
  <2>2. ss \in [1 .. n -> Seq(C)]
    BY <1>3, <2>1
  <2> QED BY <1>1, <2>2
<1>5. /\ ends \in [0 .. n -> Nat] /\ ends[0] = 0
      /\ \A i \in 1 .. n : ends[i] = ends[i - 1] + BlockLength(p.assets[i])
  BY OffsetFacts
<1> HIDE DEF n, ss, C, ends
<1>6. EndsOf(ss, ends)
  BY <1>3, <1>4, <1>5 DEF EndsOf
<1>7. Flat(ss) \in Seq(C) /\ Len(Flat(ss)) = ends[n]
  BY <1>4, <1>5, <1>6, FlatFacts
<1>8. ASSUME NEW i \in 1 .. n
      PROVE  /\ ends[i - 1] \in Nat
             /\ Encoded(Flat(ss), ends[i - 1], BlockValue(p.assets[i]), B)
             /\ Encoded(Flat(ss), ends[i - 1] + B, MediaValue(p.assets[i]),
                        p.assets[i].media.size)
  <2> DEFINE v == BlockValue(p.assets[i])
             w == MediaValue(p.assets[i])
             m == p.assets[i].media.size
  <2>1. Encoded(ss[i], 0, v, B) /\ Encoded(ss[i], B, w, m)
    BY <1>2, BlockFacts DEF n
  <2>2. i \in 1 .. Len(ss) /\ 0 \in Nat /\ m \in Nat /\ i - 1 \in 0 .. n
    BY <1>1, <1>4
  <2>3. ends[i - 1] \in Nat /\ ends[i - 1] + 0 = ends[i - 1]
    BY <1>5, <2>2
  <2> HIDE DEF v, w, m
  <2>4. Encoded(Flat(ss), ends[i - 1] + 0, v, B)
    BY <1>1, <1>4, <1>5, <1>6, <2>1, <2>2, EncodedFlat
  <2>5. Encoded(Flat(ss), ends[i - 1] + B, w, m)
    BY <1>1, <1>4, <1>5, <1>6, <2>1, <2>2, EncodedFlat
  <2> QED BY <2>3, <2>4, <2>5 DEF v, w, m
<1> QED BY <1>7, <1>8 DEF n, ss, C, ends

\* The length of a file, and where everything is in it.
FileLength(p) == FirstBlock(p) + Ends(p)[Count(p)]

\* What is at each offset of a whole file.
LEMMA BytesFacts ==
    ASSUME NEW p \in Packages
    PROVE  /\ Bytes(p) \in Seq(Cells(p)) /\ Len(Bytes(p)) = FileLength(p) /\ FileLength(p) \in Nat
           /\ Encoded(Bytes(p), 0, Header(p), F)
           /\ \A i \in 1 .. Count(p) :
                 /\ Encoded(Bytes(p), F + (i - 1) * I, IndexEntry(p, i), I)
                 /\ Encoded(Bytes(p), Offset(p, i), BlockValue(p.assets[i]), B)
                 /\ Encoded(Bytes(p), Offset(p, i) + B, MediaValue(p.assets[i]),
                            p.assets[i].media.size)
           /\ Encoded(Bytes(p), ManifestOffset(p), Manifest(p), M)
<1> DEFINE n == Count(p)
           C == Cells(p)
           h == Encode(Header(p), F)
           x == Flat(IndexBytes(p))
           m == Encode(Manifest(p), M)
           b == Flat(BlockBytes(p))
           u == Header(p)
           v == Manifest(p)
           hx == h \o x
           hxm == hx \o m
           all == hxm \o b
<1>1. Bytes(p) = all
  BY DEF Bytes, IndexBytes, BlockBytes, F, M
<1>2. h \in Seq(C) /\ Len(h) = F /\ m \in Seq(C) /\ Len(m) = M
  <2> DEFINE V == Values(p)
  <2>1. u \in V /\ v \in V
    BY DEF Values
  <2>2. C = [val : V, at : Nat]
    BY DEF Cells
  <2> HIDE DEF u, v, V, C
  <2> QED BY <2>1, <2>2, EncodeFacts, SizeFacts DEF u, v
<1>3. Encoded(h, 0, u, F) /\ Encoded(m, 0, v, M)
  BY EncodeIsEncoded, SizeFacts
<1>4. /\ x \in Seq(C) /\ Len(x) = n * I
      /\ \A i \in 1 .. n : (i - 1) * I \in Nat /\ Encoded(x, (i - 1) * I, IndexEntry(p, i), I)
  BY IndexFacts
<1>5. /\ b \in Seq(C) /\ Len(b) = Ends(p)[n]
      /\ \A i \in 1 .. n :
            /\ Ends(p)[i - 1] \in Nat
            /\ Encoded(b, Ends(p)[i - 1], BlockValue(p.assets[i]), B)
            /\ Encoded(b, Ends(p)[i - 1] + B, MediaValue(p.assets[i]), p.assets[i].media.size)
  BY BlocksFacts
<1>6. /\ F \in Nat /\ I \in Nat /\ B \in Nat /\ M \in Nat /\ 0 \in Nat
      /\ \A i \in 1 .. n : p.assets[i].media.size \in Nat
  BY SizeFacts, AssetFacts
<1> HIDE DEF C, h, x, m, b, u, v
<1>7. hx \in Seq(C) /\ Len(hx) = F + n * I
  BY <1>2, <1>4, ConcatProperties
<1>8. Encoded(hx, 0, u, F)
  BY <1>2, <1>3, <1>4, <1>6, EncodedConcat
<1>9. ASSUME NEW i \in 1 .. n PROVE Encoded(hx, F + (i - 1) * I, IndexEntry(p, i), I)
  <2> DEFINE e == IndexEntry(p, i)
             o == (i - 1) * I
  <2>1. o \in Nat /\ Encoded(x, o, e, I)
    BY <1>4
  <2> HIDE DEF e, o
  <2>2. Encoded(hx, Len(h) + o, e, I)
    BY <1>2, <1>4, <1>6, <2>1, EncodedConcat
  <2> QED BY <1>2, <2>2 DEF e, o
<1> HIDE DEF hx
<1>10. ManifestOffset(p) = F + n * I /\ ManifestOffset(p) \in Nat
  BY OffsetFacts
<1>11. hxm \in Seq(C) /\ Len(hxm) = FirstBlock(p) /\ FirstBlock(p) \in Nat
  <2>1. hxm \in Seq(C) /\ Len(hxm) = Len(hx) + M
    BY <1>2, <1>7, ConcatProperties
  <2> HIDE DEF hxm
  <2> QED BY <1>6, <1>7, <1>10, <2>1 DEF FirstBlock
<1>12. Encoded(hxm, 0, u, F)
  BY <1>2, <1>6, <1>7, <1>8, EncodedConcat
<1>13. ASSUME NEW i \in 1 .. n PROVE Encoded(hxm, F + (i - 1) * I, IndexEntry(p, i), I)
  <2> DEFINE e == IndexEntry(p, i)
             o == F + (i - 1) * I
  <2>1. o \in Nat /\ Encoded(hx, o, e, I)
    <3>1. (i - 1) * I \in Nat
      BY <1>4
    <3> QED BY <1>6, <1>9, <3>1
  <2> HIDE DEF e, o
  <2>2. Encoded(hxm, o, e, I)
    BY <1>2, <1>6, <1>7, <2>1, EncodedConcat
  <2> QED BY <2>2 DEF e, o
<1>14. Encoded(hxm, ManifestOffset(p), v, M)
  <2>1. Encoded(hxm, Len(hx) + 0, v, M)
    BY <1>2, <1>3, <1>6, <1>7, EncodedConcat
  <2>2. Len(hx) + 0 = ManifestOffset(p)
    BY <1>7, <1>10
  <2> QED BY <2>1, <2>2
<1> HIDE DEF hxm
<1>15. all \in Seq(C) /\ Len(all) = FileLength(p)
  <2>1. all \in Seq(C) /\ Len(all) = Len(hxm) + Len(b)
    BY <1>5, <1>11, ConcatProperties
  <2> HIDE DEF all
  <2>2. FileLength(p) = FirstBlock(p) + Ends(p)[n]
    BY DEF FileLength, n
  <2> QED BY <1>5, <1>11, <2>1, <2>2
<1>16. FileLength(p) \in Nat
  BY <1>15, LenProperties
<1>17. Encoded(all, 0, u, F)
  BY <1>5, <1>6, <1>11, <1>12, EncodedConcat
<1>18. ASSUME NEW i \in 1 .. n PROVE Encoded(all, F + (i - 1) * I, IndexEntry(p, i), I)
  <2> DEFINE e == IndexEntry(p, i)
             o == F + (i - 1) * I
  <2>1. o \in Nat /\ Encoded(hxm, o, e, I)
    <3>1. (i - 1) * I \in Nat
      BY <1>4
    <3> QED BY <1>6, <1>13, <3>1
  <2> HIDE DEF e, o
  <2>2. Encoded(all, o, e, I)
    BY <1>5, <1>6, <1>11, <2>1, EncodedConcat
  <2> QED BY <2>2 DEF e, o
<1>19. Encoded(all, ManifestOffset(p), v, M)
  BY <1>5, <1>6, <1>10, <1>11, <1>14, EncodedConcat
<1>20. ASSUME NEW i \in 1 .. n
       PROVE  /\ Encoded(all, Offset(p, i), BlockValue(p.assets[i]), B)
              /\ Encoded(all, Offset(p, i) + B, MediaValue(p.assets[i]), p.assets[i].media.size)
  <2> DEFINE e == BlockValue(p.assets[i])
             g == MediaValue(p.assets[i])
             o == Ends(p)[i - 1]
             z == p.assets[i].media.size
  <2>1. o \in Nat /\ Encoded(b, o, e, B) /\ Encoded(b, o + B, g, z) /\ z \in Nat
    BY <1>5, <1>6
  <2>2. Offset(p, i) = FirstBlock(p) + o
    BY OffsetFacts DEF n
  <2> HIDE DEF e, g, o, z, all
  <2>3. o + B \in Nat
    BY <1>6, <2>1
  <2>4. Encoded(all, FirstBlock(p) + o, e, B)
    BY <1>5, <1>6, <1>11, <2>1, EncodedConcat DEF all
  <2>5. Encoded(all, FirstBlock(p) + (o + B), g, z)
    BY <1>5, <1>6, <1>11, <2>1, <2>3, EncodedConcat DEF all
  <2>6. FirstBlock(p) + (o + B) = (FirstBlock(p) + o) + B
    BY <1>6, <1>11, <2>1
  <2> QED BY <2>2, <2>4, <2>5, <2>6 DEF e, g, z
<1> QED BY <1>1, <1>15, <1>16, <1>17, <1>18, <1>19, <1>20 DEF n, C, u, v

-----------------------------------------------------------------------------
(* What a reader finds in the front of a file. *)

\* raw is what a muxer has written of p so far.
Front(raw, p) == \E m \in 0 .. FileLength(p) : raw = SubSeq(Bytes(p), 1, m)

\* The front of a file agrees with it as far as it goes.
LEMMA FrontFacts ==
    ASSUME NEW p \in Packages, NEW raw, Front(raw, p)
    PROVE  /\ raw \in Seq(Cells(p)) /\ Len(raw) \in 0 .. FileLength(p)
           /\ raw = SubSeq(Bytes(p), 1, Len(raw))
           /\ \A k \in 1 .. Len(raw) : raw[k] = Bytes(p)[k]
           /\ Len(raw) = FileLength(p) => raw = Bytes(p)
<1> DEFINE b == Bytes(p)
           C == Cells(p)
           N == FileLength(p)
<1>1. b \in Seq(C) /\ Len(b) = N /\ N \in Nat
  BY BytesFacts
<1>2. PICK m \in 0 .. N : raw = SubSeq(b, 1, m)
  BY DEF Front
<1> HIDE DEF b, C, N
<1>3. \A i \in 1 .. m : b[i] \in C
  BY <1>1, ElementOfSeq
<1>4. /\ raw \in Seq(C) /\ Len(raw) = IF 1 <= m THEN (m - 1) + 1 ELSE 0
      /\ \A i \in 1 .. (m - 1) + 1 : raw[i] = b[(1 + i) - 1]
  <2>1. 1 \in Int /\ m \in Int
    BY <1>1
  <2> QED BY <1>2, <1>3, <2>1, SubSeqProperties
<1>5. Len(raw) = m
  BY <1>1, <1>4
<1>6. \A k \in 1 .. m : raw[k] = b[k]
  BY <1>1, <1>4
<1>7. m = N => raw = b
  BY <1>1, <1>2, SubSeqFull
<1> QED BY <1>2, <1>4, <1>5, <1>6, <1>7 DEF b, C, N

\* A whole file is one of its fronts.
LEMMA WholeIsFront == ASSUME NEW p \in Packages PROVE Front(Bytes(p), p)
<1>1. Bytes(p) \in Seq(Cells(p)) /\ Len(Bytes(p)) = FileLength(p) /\ FileLength(p) \in Nat
  BY BytesFacts
<1>2. Bytes(p) = SubSeq(Bytes(p), 1, FileLength(p))
  BY <1>1, SubSeqFull
<1>3. FileLength(p) \in 0 .. FileLength(p)
  BY <1>1
<1> QED BY <1>2, <1>3 DEF Front

\* A slice that is all of an encoding is that encoding.
LEMMA SliceEncoded ==
    ASSUME NEW S, NEW raw \in Seq(S), NEW v, NEW n \in Nat, NEW o \in Nat,
           Encoded(raw, o, v, n)
    PROVE  Slice(raw, o, n) = Encode(v, n)
<1> DEFINE len == Len(raw)
           cells == Slice(raw, o, n)
           end == Min({o + n, len})
<1>1. len \in Nat /\ \A i \in 1 .. len : raw[i] \in S
  BY LenProperties, ElementOfSeq
<1>2. o + n <= len /\ \A k \in 1 .. n : raw[o + k] = [val |-> v, at |-> k]
  BY DEF Encoded
<1>3. cells = SubSeq(raw, o + 1, end)
  BY DEF Slice
<1> HIDE DEF len, cells
<1>4. end = o + n /\ end \in Int /\ o + 1 \in Int
  <2>1. o + n \in Nat
    OBVIOUS
  <2>2. end = o + n
    BY <1>1, <1>2, <2>1, MinOfTwo
  <2> QED BY <2>1, <2>2
<1> HIDE DEF end
<1>5. \A i \in o + 1 .. end : raw[i] \in S
  BY <1>1, <1>2, <1>4
<1>6. /\ cells \in Seq(S) /\ Len(cells) = IF o + 1 <= end THEN end - (o + 1) + 1 ELSE 0
      /\ \A i \in 1 .. end - (o + 1) + 1 : cells[i] = raw[((o + 1) + i) - 1]
  BY <1>3, <1>4, <1>5, SubSeqProperties
<1>7. Len(cells) = n
  BY <1>4, <1>6
<1>8. ASSUME NEW i \in 1 .. n PROVE cells[i] = [val |-> v, at |-> i]
  <2>1. i \in 1 .. end - (o + 1) + 1 /\ ((o + 1) + i) - 1 = o + i
    BY <1>4
  <2>2. cells[i] = raw[o + i]
    BY <1>6, <2>1
  <2> QED BY <1>2, <2>2
<1>9. cells = [k \in 1 .. n |-> cells[k]]
  BY <1>6, <1>7
<1>10. cells = Encode(v, n)
  BY <1>8, <1>9 DEF Encode
<1> QED BY <1>10 DEF cells

\* What a reader gets of n cells from offset: it knows that they are whole,
\* and what they encode.
Decoded(raw, offset, v, n) ==
    /\ offset + 1 <= Len(raw) => At(raw, offset) = v
    /\ \A kind : Holds(raw, offset, n, kind) <=> offset + n <= Len(raw) /\ v.kind = kind

\* A value of the file is decoded from a front of it that reaches so far.
LEMMA DecodedFacts ==
    ASSUME NEW p \in Packages, NEW raw, Front(raw, p), NEW v, NEW n \in Nat, n > 0,
           NEW o \in Nat, Encoded(Bytes(p), o, v, n)
    PROVE  Decoded(raw, o, v, n)
<1> DEFINE b == Bytes(p)
           C == Cells(p)
           N == FileLength(p)
           len == Len(raw)
           cells == Slice(raw, o, n)
<1>1. /\ raw \in Seq(C) /\ len \in 0 .. N /\ N \in Nat /\ Len(b) = N
      /\ \A k \in 1 .. len : raw[k] = b[k]
  BY FrontFacts, BytesFacts
<1>2. o + n <= N /\ \A k \in 1 .. n : b[o + k] = [val |-> v, at |-> k]
  BY <1>1 DEF Encoded
<1>3. \A i \in 1 .. len : raw[i] \in C
  BY <1>1, ElementOfSeq
<1> HIDE DEF b, C, N
<1>4. ASSUME o + 1 <= len PROVE At(raw, o) = v
  <2>1. o + 1 \in 1 .. len /\ 1 \in 1 .. n
    BY <1>1, <1>4
  <2>2. raw[o + 1] = [val |-> v, at |-> 1]
    BY <1>1, <1>2, <2>1
  <2> QED BY <2>2 DEF At
<1> DEFINE end == Min({o + n, len})
<1>5. end = IF o + n <= len THEN o + n ELSE len
  <2>1. o + n \in Nat /\ len \in Nat
    BY <1>1
  <2> HIDE DEF len
  <2> QED BY <2>1, MinOfTwo
<1>6. cells = SubSeq(raw, o + 1, end)
  BY DEF Slice
<1> HIDE DEF end, cells
<1>7. ASSUME o + n <= len PROVE cells = Encode(v, n) /\ Len(cells) = n /\ cells[1].val = v
  <2>1. ASSUME NEW k \in 1 .. n PROVE raw[o + k] = [val |-> v, at |-> k]
    <3>1. o + k \in 1 .. len
      BY <1>1, <1>7
    <3> QED BY <1>1, <1>2, <3>1
  <2>2. Encoded(raw, o, v, n)
    BY <1>7, <2>1 DEF Encoded
  <2>3. cells = Encode(v, n)
    BY <1>1, <2>2, SliceEncoded DEF cells
  <2>4. v \in {v} /\ 1 \in 1 .. n
    OBVIOUS
  <2>5. Len(Encode(v, n)) = n /\ Encode(v, n)[1] = [val |-> v, at |-> 1]
    BY <2>4, EncodeFacts
  <2> QED BY <2>3, <2>5
<1>8. ASSUME ~(o + n <= len) PROVE Len(cells) # n
  <2>1. end = len /\ end \in Int /\ o + 1 \in Int
    BY <1>1, <1>5, <1>8
  <2>2. \A i \in o + 1 .. end : raw[i] \in C
    BY <1>1, <1>3, <2>1
  <2>3. Len(cells) = IF o + 1 <= end THEN end - (o + 1) + 1 ELSE 0
    BY <1>6, <2>1, <2>2, SubSeqProperties
  <2> QED BY <1>1, <1>8, <2>1, <2>3
<1>9. ASSUME NEW kind PROVE Holds(raw, o, n, kind) <=> o + n <= len /\ v.kind = kind
  <2>1. Holds(raw, o, n, kind) <=> /\ Len(cells) = n /\ cells[1].val.kind = kind
                                   /\ cells = Encode(cells[1].val, n)
    BY DEF Holds, cells
  <2>2. CASE o + n <= len
    BY <1>7, <2>1, <2>2
  <2>3. CASE ~(o + n <= len)
    BY <1>8, <2>1, <2>3
  <2> QED BY <2>2, <2>3
<1> QED BY <1>4, <1>9 DEF Decoded

Index(p) == [i \in 1 .. Count(p) |-> IndexEntry(p, i)]

\* The fields of the header, of the manifest and of an index entry.
LEMMA ValueFacts ==
    ASSUME NEW p \in Packages
    PROVE  /\ Header(p).kind = "header" /\ Header(p).indexOffset = F
           /\ Header(p).indexLength = Count(p) * I
           /\ Header(p).manifestOffset = ManifestOffset(p) /\ Header(p).manifestLength = M
           /\ Header(p).count = Count(p)
           /\ Manifest(p).kind = "manifest" /\ Manifest(p).segments = p.segments
           /\ Manifest(p).profiles = p.profiles
           /\ \A i \in 1 .. Count(p) :
                 /\ IndexEntry(p, i).kind = "entry" /\ IndexEntry(p, i).id = p.assets[i].id
                 /\ IndexEntry(p, i).offset = Offset(p, i)
                 /\ IndexEntry(p, i).length = BlockLength(p.assets[i])
                 /\ IndexEntry(p, i).duration = p.assets[i].duration
                 /\ BlockValue(p.assets[i]).kind = "block"
                 /\ BlockValue(p.assets[i]).id = p.assets[i].id
                 /\ MediaValue(p.assets[i]).media = p.assets[i].media
                 /\ MediaValue(p.assets[i]).id = p.assets[i].id
BY DEF Header, Manifest, IndexEntry, BlockValue, MediaValue, F, I, M, Count, Offset

\* Everything in the file is decoded as what it is, or not at all.
LEMMA FrontDecoded ==
    ASSUME NEW p \in Packages, NEW raw, Front(raw, p)
    PROVE  /\ Decoded(raw, 0, Header(p), F)
           /\ Decoded(raw, ManifestOffset(p), Manifest(p), M)
           /\ \A i \in 1 .. Count(p) :
                 /\ Decoded(raw, F + (i - 1) * I, IndexEntry(p, i), I)
                 /\ Decoded(raw, Offset(p, i), BlockValue(p.assets[i]), B)
<1>1. F \in Nat /\ F > 0 /\ I \in Nat /\ I > 0 /\ B \in Nat /\ B > 0 /\ M \in Nat /\ M > 0
      /\ 0 \in Nat /\ ManifestOffset(p) \in Nat
  BY SizeFacts, OffsetFacts
<1>2. Encoded(Bytes(p), 0, Header(p), F) /\ Encoded(Bytes(p), ManifestOffset(p), Manifest(p), M)
  BY BytesFacts
<1>3. ASSUME NEW i \in 1 .. Count(p)
      PROVE  /\ Decoded(raw, F + (i - 1) * I, IndexEntry(p, i), I)
             /\ Decoded(raw, Offset(p, i), BlockValue(p.assets[i]), B)
  <2> DEFINE e == IndexEntry(p, i)
             v == BlockValue(p.assets[i])
             o == F + (i - 1) * I
  <2>1. Encoded(Bytes(p), o, e, I) /\ Encoded(Bytes(p), Offset(p, i), v, B)
    BY BytesFacts
  <2>2. o \in Nat /\ Offset(p, i) \in Nat
    <3>1. (i - 1) * I \in Nat /\ Offset(p, i) \in Nat
      BY IndexFacts, OffsetFacts
    <3> QED BY <1>1, <3>1
  <2> HIDE DEF e, v, o
  <2>3. Decoded(raw, o, e, I) /\ Decoded(raw, Offset(p, i), v, B)
    BY <1>1, <2>1, <2>2, DecodedFacts
  <2> QED BY <2>3 DEF e, v, o
<1> QED BY <1>1, <1>2, <1>3, DecodedFacts

\* The header of a front gives where the index is and its length.
LEMMA HeaderRead ==
    ASSUME NEW p \in Packages, NEW raw, Front(raw, p), Len(raw) >= FILE_HEADER_SIZE
    PROVE  /\ At(raw, 0) = Header(p) /\ ActualIndexCount(raw) = Count(p)
           /\ \A i \in 1 .. Count(p) : EntryOffset(raw, i) = F + (i - 1) * I
<1>1. At(raw, 0) = Header(p)
  <2>1. F \in Nat /\ F > 0 /\ Len(raw) \in Nat /\ Len(raw) >= F
    <3>1. Len(raw) \in 0 .. FileLength(p) /\ FileLength(p) \in Nat
      BY FrontFacts, BytesFacts
    <3> QED BY <3>1, SizeFacts DEF F
  <2>2. Decoded(raw, 0, Header(p), F)
    BY FrontDecoded
  <2> QED BY <2>1, <2>2 DEF Decoded
<1>2. ActualIndexCount(raw) = Count(p)
  <2> DEFINE n == Count(p)
  <2>1. ActualIndexCount(raw) = (ManifestOffset(p) - F) \div I
    BY <1>1, ValueFacts DEF ActualIndexCount, I
  <2>2. ManifestOffset(p) = F + n * I /\ n \in Nat /\ I \in Nat /\ I > 0 /\ F \in Nat
    BY OffsetFacts, AssetFacts, SizeFacts
  <2> HIDE DEF n
  <2>3. ManifestOffset(p) - F = n * I
    BY <2>2
  <2>4. (n * I) \div I = n
    BY <2>2
  <2> QED BY <2>1, <2>3, <2>4 DEF n
<1>3. ASSUME NEW i \in 1 .. Count(p) PROVE EntryOffset(raw, i) = F + (i - 1) * I
  BY <1>1, ValueFacts DEF EntryOffset, I
<1> QED BY <1>1, <1>2, <1>3

\* The index is read up to an entry that the file cuts off.
LEMMA EntriesRead ==
    ASSUME NEW p \in Packages, NEW raw, Front(raw, p), Len(raw) >= FILE_HEADER_SIZE
    PROVE  /\ Entries(raw, Count(p)) \in Seq({IndexEntry(p, i) : i \in 1 .. Count(p)})
           /\ Len(Entries(raw, Count(p))) <= Count(p)
           /\ Len(Entries(raw, Count(p))) = Count(p) => Entries(raw, Count(p)) = Index(p)
           /\ ManifestOffset(p) <= Len(raw) => Entries(raw, Count(p)) = Index(p)
<1> DEFINE n == Count(p)
           fits(i) == Holds(raw, EntryOffset(raw, i), INDEX_ENTRY_SIZE, "entry")
           good == {k \in 0 .. n : \A i \in 1 .. k : fits(i)}
           g == Max(good)
           E == {IndexEntry(p, i) : i \in 1 .. n}
           read == Entries(raw, n)
<1>1. n \in Nat /\ I \in Nat /\ I > 0 /\ F \in Nat /\ F > 0 /\ Len(raw) \in Nat
  <2>1. Len(raw) \in 0 .. FileLength(p) /\ FileLength(p) \in Nat
    BY FrontFacts, BytesFacts
  <2> QED BY <2>1, SizeFacts, AssetFacts
<1>2. read = [i \in 1 .. g |-> At(raw, EntryOffset(raw, i))]
  BY DEF Entries
<1>3. ASSUME NEW i \in 1 .. n
      PROVE  /\ fits(i) <=> (F + (i - 1) * I) + I <= Len(raw)
             /\ fits(i) => At(raw, EntryOffset(raw, i)) = IndexEntry(p, i)
  <2> DEFINE o == F + (i - 1) * I
  <2>1. Decoded(raw, o, IndexEntry(p, i), I) /\ EntryOffset(raw, i) = o
        /\ IndexEntry(p, i).kind = "entry"
    BY FrontDecoded, HeaderRead, ValueFacts
  <2>2. o \in Nat
    <3>1. (i - 1) * I \in Nat
      BY IndexFacts
    <3> QED BY <1>1, <3>1
  <2> HIDE DEF o
  <2>3. fits(i) <=> o + I <= Len(raw)
    BY <2>1 DEF Decoded, I
  <2>4. o + I <= Len(raw) => o + 1 <= Len(raw)
    BY <1>1, <2>2
  <2>5. fits(i) => At(raw, EntryOffset(raw, i)) = IndexEntry(p, i)
    BY <2>1, <2>3, <2>4 DEF Decoded
  <2> QED BY <2>3, <2>5 DEF o
<1> HIDE DEF fits
<1>4. good \in SUBSET (0 .. n) /\ 0 \in good
  BY <1>1
<1>5. g \in good /\ \A k \in good : k <= g
  <2> HIDE DEF good
  <2>1. \E m \in good : \A k \in good : k <= m
    <3>1. good # {}
      BY <1>4
    <3> QED BY <1>1, <1>4, <3>1, GreatestBelow
  <2>2. \A m \in good : (\A k \in good : k <= m) => \A k \in good : m >= k
    BY <1>4
  <2>3. \E m \in good : \A k \in good : m >= k
    BY <2>1, <2>2
  <2>4. g \in good /\ \A k \in good : g >= k
    BY <2>3 DEF Max
  <2> QED BY <1>4, <2>4
<1>6. g \in 0 .. n /\ \A i \in 1 .. g : fits(i)
  BY <1>5
<1> HIDE DEF g, good, read
<1>7. \A i \in 1 .. g : read[i] = IndexEntry(p, i)
  BY <1>1, <1>2, <1>3, <1>6
<1>8. read \in Seq(E) /\ Len(read) = g
  <2>1. \A i \in 1 .. g : i \in 1 .. n
    BY <1>1, <1>6
  <2>2. \A i \in 1 .. n : IndexEntry(p, i) \in E
    OBVIOUS
  <2>3. \A i \in 1 .. g : read[i] \in E
    BY <1>7, <2>1, <2>2
  <2> HIDE DEF E
  <2>4. read \in [1 .. g -> E] /\ g \in Nat
    BY <1>1, <1>2, <1>6, <2>3
  <2> QED BY <2>4
<1>9. g = n => read = Index(p)
  <2>1. read = [i \in 1 .. g |-> read[i]]
    BY <1>2
  <2> QED BY <1>7, <2>1 DEF Index, n
<1>10. ASSUME ManifestOffset(p) <= Len(raw) PROVE g = n
  <2>1. ManifestOffset(p) = F + n * I
    BY OffsetFacts
  <2>2. ASSUME NEW i \in 1 .. n PROVE fits(i)
    <3> DEFINE c == (i - 1) * I
               d == n * I
    <3>1. c + I <= d
      <4> DEFINE r == n - i
      <4>1. i \in Nat /\ r \in Nat /\ n = i + r
        BY <1>1
      <4>2. d = i * I + r * I
        <5> HIDE DEF r
        <5> QED BY <1>1, <4>1
      <4>3. c + I = i * I
        BY <1>1, <4>1
      <4>4. r * I \in Nat /\ i * I \in Nat
        BY <1>1, <4>1
      <4> QED BY <4>2, <4>3, <4>4
    <3>2. c \in Nat /\ d \in Nat
      <4>1. c \in Nat
        BY IndexFacts
      <4> QED BY <1>1, <4>1
    <3>3. F + d <= Len(raw)
      BY <1>10, <2>1
    <3> HIDE DEF c, d, n
    <3>4. (F + c) + I <= Len(raw)
      BY <1>1, <3>1, <3>2, <3>3
    <3> QED BY <1>3, <3>4 DEF c
  <2>3. n \in good
    BY <1>1, <2>2 DEF good
  <2> QED BY <1>1, <1>5, <1>6, <2>3
<1> QED BY <1>1, <1>6, <1>8, <1>9, <1>10 DEF n, read, E

\* Every part of a file ends within it, and the last one ends it.
LEMMA LengthFacts ==
    ASSUME NEW p \in Packages
    PROVE  /\ FileLength(p) >= FILE_HEADER_SIZE /\ FileLength(p) \in Nat
           /\ ManifestOffset(p) + M <= FileLength(p)
           /\ Count(p) = 0 => FileLength(p) = ManifestOffset(p) + M
           /\ \A i \in 1 .. Count(p) : Offset(p, i) + BlockLength(p.assets[i]) <= FileLength(p)
           /\ Count(p) > 0 =>
                FileLength(p) = Offset(p, Count(p)) + BlockLength(p.assets[Count(p)])
<1> DEFINE n == Count(p)
           first == FirstBlock(p)
           last == Ends(p)[n]
<1>1. n \in Nat /\ F \in Nat /\ M \in Nat /\ n * I \in Nat /\ ManifestOffset(p) = F + n * I
  <2>1. n \in Nat /\ I \in Nat
    BY AssetFacts, SizeFacts
  <2>2. n * I \in Nat
    BY <2>1
  <2> QED BY <2>1, <2>2, SizeFacts, OffsetFacts
<1>2. first = ManifestOffset(p) + M /\ FileLength(p) = first + last
  BY DEF FirstBlock, FileLength
<1>3. /\ Ends(p) \in [0 .. n -> Nat] /\ Ends(p)[0] = 0
      /\ \A i \in 1 .. n : Offset(p, i) + BlockLength(p.assets[i]) = first + Ends(p)[i]
  BY OffsetFacts
<1>4. last \in Nat
  BY <1>1, <1>3
<1>5. ASSUME NEW i \in 1 .. n PROVE Offset(p, i) + BlockLength(p.assets[i]) <= FileLength(p)
  <2>1. Encoded(Bytes(p), Offset(p, i) + B, MediaValue(p.assets[i]), p.assets[i].media.size)
    BY BytesFacts
  <2>2. (Offset(p, i) + B) + p.assets[i].media.size <= FileLength(p)
    BY <2>1, BytesFacts DEF Encoded
  <2>3. /\ BlockLength(p.assets[i]) = B + p.assets[i].media.size
        /\ p.assets[i].media.size \in Nat /\ B \in Nat /\ Offset(p, i) \in Nat
    BY AssetFacts, SizeFacts, OffsetFacts
  <2> QED BY <2>2, <2>3
<1>6. n > 0 => FileLength(p) = Offset(p, n) + BlockLength(p.assets[n])
  <2>1. n > 0 => n \in 1 .. n
    BY <1>1
  <2> QED BY <1>2, <1>3, <2>1
<1>7. F <= FileLength(p) /\ ManifestOffset(p) + M <= FileLength(p) /\ FileLength(p) \in Nat
  <2> HIDE DEF first, last, n
  <2>1. FileLength(p) = ((F + n * I) + M) + last
    BY <1>1, <1>2
  <2> QED BY <1>1, <1>4, <2>1
<1>8. n = 0 => FileLength(p) = ManifestOffset(p) + M
  <2> HIDE DEF first
  <2> QED BY <1>1, <1>2, <1>3
<1> QED BY <1>5, <1>6, <1>7, <1>8 DEF F, n

\* No issue in the payload: the file is whole, and the second read parsed.
LEMMA NoPayloadIssue ==
    ASSUME NEW p \in Packages, NEW raw, Front(raw, p), NEW again, PayloadIssues(raw, again) = {}
    PROVE  /\ raw = Bytes(p) /\ ReadBvfAccepts(again)
           /\ Entries(raw, ActualIndexCount(raw)) = Index(p)
           /\ \A i \in 1 .. Count(p) : EntryIssues(raw, IndexEntry(p, i)) = {}
<1> DEFINE n == Count(p)
           len == Len(raw)
           index == Entries(raw, n)
           manifestIn == InFile(raw, ManifestOffset(p), M)
<1>1. len \in Nat /\ len <= FileLength(p) /\ n \in Nat /\ FileLength(p) \in Nat
  <2>1. len \in 0 .. FileLength(p) /\ FileLength(p) \in Nat
    BY FrontFacts, BytesFacts
  <2> QED BY <2>1, AssetFacts
<1>2. len >= FILE_HEADER_SIZE
  <2>1. ~(len < FILE_HEADER_SIZE)
    BY DEF PayloadIssues
  <2> QED BY <1>1, <2>1, SizeFacts DEF F
<1>3. At(raw, 0) = Header(p) /\ ActualIndexCount(raw) = n
  BY <1>2, HeaderRead
<1> DEFINE entries == UNION {EntryIssues(raw, index[i]) : i \in DOMAIN index}
           count == {x \in {"segment_count"} : Header(p).count # n}
           short == {x \in {"index entry"} : Len(index) < n}
           outside == {x \in {"manifest outside the file"} : ~manifestIn}
           unread == {x \in {"manifest"} : ~ReadBvfAccepts(again)}
<1>4. PayloadIssues(raw, again) = entries \cup count \cup short \cup outside \cup unread
  <2> DEFINE h == At(raw, 0)
             m == ActualIndexCount(raw)
             read == Entries(raw, m)
  <2>1. ~(len < FILE_HEADER_SIZE)
    BY DEF PayloadIssues
  <2>2. PayloadIssues(raw, again) =
          (UNION {EntryIssues(raw, read[i]) : i \in DOMAIN read})
            \cup {x \in {"segment_count"} : h.count # m}
            \cup {x \in {"index entry"} : Len(read) < m}
            \cup {x \in {"manifest outside the file"} :
                      ~InFile(raw, h.manifestOffset, h.manifestLength)}
            \cup {x \in {"manifest"} : ~ReadBvfAccepts(again)}
    BY <2>1, Zenon DEF PayloadIssues
  <2>3. h = Header(p) /\ m = n
    BY <1>3
  <2>4. Header(p).manifestOffset = ManifestOffset(p) /\ Header(p).manifestLength = M
    BY ValueFacts
  <2>5. read = index
    BY <2>3
  <2>6. {x \in {"segment_count"} : h.count # m} = count
    BY <2>3
  <2>7. {x \in {"index entry"} : Len(read) < m} = short
    BY <2>3, <2>5
  <2>8. {x \in {"manifest outside the file"} :
            ~InFile(raw, h.manifestOffset, h.manifestLength)} = outside
    BY <2>3, <2>4
  <2>9. UNION {EntryIssues(raw, read[i]) : i \in DOMAIN read} = entries
    BY <2>5
  <2> HIDE DEF h, m, read, entries, count, short, outside
  <2> QED BY <2>2, <2>6, <2>7, <2>8, <2>9
<1> HIDE DEF index, manifestIn, len, n
<1>5. ~(Len(index) < n) /\ manifestIn /\ ReadBvfAccepts(again)
      /\ \A i \in DOMAIN index : EntryIssues(raw, index[i]) = {}
  <2>1. entries = {} /\ short = {} /\ outside = {} /\ unread = {}
    <3> HIDE DEF entries, count, short, outside, unread
    <3> QED BY <1>4
  <2>2. \A i \in DOMAIN index : EntryIssues(raw, index[i]) = {}
    BY <2>1
  <2> QED BY <2>1, <2>2
<1>6. index = Index(p)
  <2>1. index \in Seq({IndexEntry(p, i) : i \in 1 .. n}) /\ Len(index) <= n
        /\ (Len(index) = n => index = Index(p))
    BY <1>2, EntriesRead DEF index, len, n
  <2>2. Len(index) \in Nat
    BY <2>1, LenProperties
  <2> QED BY <1>1, <1>5, <2>1, <2>2
<1>7. \A i \in 1 .. n : EntryIssues(raw, IndexEntry(p, i)) = {}
  BY <1>5, <1>6 DEF Index, n
<1>8. len = FileLength(p)
  <2>1. CASE n = 0
    <3>1. ManifestOffset(p) + M <= len
      BY <1>5 DEF manifestIn, InFile, len
    <3> QED BY <1>1, <2>1, <3>1, LengthFacts DEF n
  <2>2. CASE n > 0
    <3>1. n \in 1 .. n
      BY <1>1, <2>2
    <3> DEFINE e == IndexEntry(p, n)
    <3>2. EntryIssues(raw, e) = {}
      BY <1>7, <3>1
    <3>3. InFile(raw, e.offset, e.length)
      BY <3>2 DEF EntryIssues
    <3>4. e.offset = Offset(p, n) /\ e.length = BlockLength(p.assets[n])
      BY <3>1, ValueFacts DEF n
    <3> HIDE DEF e
    <3>5. Offset(p, n) + BlockLength(p.assets[n]) <= len
      BY <3>3, <3>4 DEF InFile, len
    <3>6. FileLength(p) = Offset(p, n) + BlockLength(p.assets[n])
      BY <2>2, LengthFacts DEF n
    <3> QED BY <1>1, <3>5, <3>6
  <2> QED BY <1>1, <2>1, <2>2
<1>9. raw = Bytes(p)
  BY <1>8, FrontFacts DEF len
<1> QED BY <1>3, <1>5, <1>6, <1>7, <1>9 DEF index, n

\* A file that read_bvf parses gives the manifest back that was written.
LEMMA ManifestRead ==
    ASSUME NEW p \in Packages, NEW raw, Front(raw, p), Len(raw) >= FILE_HEADER_SIZE,
           HoldsManifest(raw)
    PROVE  ManifestIn(raw) = Manifest(p) /\ ManifestOffset(p) <= Len(raw)
<1>1. At(raw, 0) = Header(p) /\ Header(p).manifestOffset = ManifestOffset(p)
      /\ Header(p).manifestLength = M
  BY HeaderRead, ValueFacts
<1>2. Decoded(raw, ManifestOffset(p), Manifest(p), M)
  BY FrontDecoded
<1>3. Holds(raw, ManifestOffset(p), M, "manifest")
  BY <1>1 DEF HoldsManifest
<1>4. ManifestOffset(p) + M <= Len(raw)
  BY <1>2, <1>3 DEF Decoded
<1>5. M \in Nat /\ M > 0 /\ ManifestOffset(p) \in Nat /\ Len(raw) \in Nat
  <2>1. Len(raw) \in 0 .. FileLength(p) /\ FileLength(p) \in Nat
    BY FrontFacts, BytesFacts
  <2> QED BY <2>1, SizeFacts, OffsetFacts
<1>6. ManifestOffset(p) + 1 <= Len(raw) /\ ManifestOffset(p) <= Len(raw)
  BY <1>4, <1>5
<1> QED BY <1>1, <1>2, <1>6 DEF Decoded, ManifestIn

-----------------------------------------------------------------------------
(* The inductive invariant. *)

\* raw is all or the front of something that a muxer was asked to write.
OfMuxer(raw) == \E p \in Packages : Front(raw, p)

MuxState == [pc : {"idle", "collected", "writing"}, package : Packages \cup {None}, runs : Nat]

\* The file is absent or the front of one package; a package that is being
\* written, or was last written to its end, is the one on the disk.
DiskInv ==
    /\ disk = Absent \/ OfMuxer(disk)
    /\ mux \in MuxState
    /\ mux.pc # "idle" => mux.package \in Packages
    /\ mux.pc = "writing" => Front(disk, mux.package) /\ whole = None
    /\ whole # None => whole \in Packages /\ disk = Bytes(whole)

ScanState ==
    [kind : {"scan"}, pc : {"filtered"}, hidden : BOOLEAN, quiet : BOOLEAN]
      \cup [kind : {"scan"}, pc : {"done"}, hidden : BOOLEAN, quiet : BOOLEAN, item : BOOLEAN]

Settled == mux.pc # "writing" /\ (disk = Absent \/ whole # None)

\* While a quiet scan is between its two questions, the file stays what it is.
ScanInv ==
    tool.kind = "scan" =>
        /\ tool \in ScanState
        /\ tool.quiet /\ tool.pc = "filtered" => Settled /\ (tool.hidden <=> disk # Absent)
        /\ tool.quiet /\ tool.pc = "done" => (tool.hidden <=> tool.item)

\* A valid verdict was reached about what was on the disk at two moments.
Verdict(t) ==
    \E asked \in Profiles \cup {None} :
        /\ ProbeIssues(t.raw, t.again, asked) = {}
        /\ t.profile = ProbedProfile(ManifestIn(t.again), asked)
        /\ t.expected = ProbedDuration(Entries(t.raw, ActualIndexCount(t.raw)),
                                       ManifestIn(t.again), t.profile)

ProbeInv ==
    tool.kind = "probe" =>
        /\ tool.pc \in {"read", "done"} /\ OfMuxer(disk)
        /\ tool.pc = "read" => OfMuxer(tool.raw) /\ tool.profile \in Profiles \cup {None}
        /\ tool.pc = "done" => tool.valid \in BOOLEAN
        /\ tool.pc = "done" /\ tool.valid =>
              OfMuxer(tool.raw) /\ OfMuxer(tool.again) /\ Verdict(tool)

PlayerInv ==
    tool.kind = "player" =>
        /\ OfMuxer(tool.raw) /\ PlayerAccepts(tool.raw) /\ tool.user \in Users
        /\ tool.profile = PlayerResolveProfile(tool.user, ManifestIn(tool.raw).profiles)

SeekInv ==
    tool.kind = "seek" =>
        /\ tool.durations \in Seq(Nat) /\ tool.position \in Nat
        /\ tool.entry = SeekEntry(tool.durations, tool.position)

\* What an export of a whole file for a profile must last.
ExportDuration(raw, profile) ==
    LET index == PlayerIndex(raw)
        media == Extracted(raw, index, PlayerSequence(index, ManifestIn(raw), profile).entries)
    IN  Total([i \in DOMAIN media |-> media[i][1].val.media.duration])

ExportInv ==
    exported.of # None =>
        /\ \E p \in Packages : exported.of = Bytes(p)
        /\ exported.duration = ExportDuration(exported.of, exported.profile)
        /\ ~PlayerSequence(PlayerIndex(exported.of), ManifestIn(exported.of),
                           exported.profile).failed

ContainerInv == DiskInv /\ ScanInv /\ ProbeInv /\ PlayerInv /\ SeekInv /\ ExportInv

\* No tool has run on the absent file.
LEMMA InitHolds == Init => ContainerInv
<1> SUFFICES ASSUME Init PROVE ContainerInv
  OBVIOUS
<1>1. DiskInv
  BY DEF Init, DiskInv, MuxState
<1>2. tool.kind = "none"
  BY DEF Init, NoTool
<1>3. ExportInv
  BY DEF Init, ExportInv
<1> QED BY <1>1, <1>2, <1>3 DEF ContainerInv, ScanInv, ProbeInv, PlayerInv, SeekInv

\* Cutting a file leaves a front of it.
LEMMA FrontOfBytes ==
    ASSUME NEW p \in Packages, NEW n \in 0 .. Len(Bytes(p))
    PROVE  Front(SubSeq(Bytes(p), 1, n), p)
BY BytesFacts DEF Front

\* DiskInv, step by step.
LEMMA DiskStep == ASSUME DiskInv, [Next]_vars PROVE DiskInv' /\ (disk' = disk \/ OfMuxer(disk'))
<1>0. /\ mux \in MuxState /\ mux.pc \in {"idle", "collected", "writing"}
      /\ mux.runs \in Nat /\ (mux.pc # "idle" => mux.package \in Packages)
  BY DEF DiskInv, MuxState
<1>1. ASSUME NEW package \in Packages, MuxCollect(package) PROVE DiskInv' /\ (disk' = disk \/ OfMuxer(disk'))
  <2>1. mux' = [pc |-> "collected", package |-> package, runs |-> mux.runs + 1]
        /\ disk' = disk /\ whole' = whole
    BY <1>1 DEF MuxCollect
  <2>2. mux'.pc = "collected" /\ mux'.package = package /\ mux' \in MuxState
    BY <1>0, <2>1 DEF MuxState
  <2> QED BY <2>1, <2>2 DEF DiskInv, OfMuxer, Front, FileLength, Absent
<1>2. MuxEnds => mux' \in MuxState /\ mux'.pc = "idle"
  BY <1>0 DEF MuxEnds, MuxState
<1>3. ASSUME MuxRaises PROVE DiskInv' /\ (disk' = disk \/ OfMuxer(disk'))
  <2>1. MuxEnds /\ disk' = disk /\ whole' = whole
    BY <1>3 DEF MuxRaises
  <2> QED BY <1>2, <2>1 DEF DiskInv, OfMuxer, Front, FileLength, Absent
<1>4. ASSUME MuxOpen PROVE DiskInv' /\ (disk' = disk \/ OfMuxer(disk'))
  <2>1. mux' = [mux EXCEPT !.pc = "writing"] /\ disk' = <<>> /\ whole' = None
        /\ mux.pc = "collected"
    BY <1>4 DEF MuxOpen
  <2>2. mux' \in MuxState /\ mux'.pc = "writing" /\ mux'.package = mux.package
        /\ mux.package \in Packages
    BY <1>0, <2>1 DEF MuxState
  <2>3. Front(<<>>, mux.package)
    <3> DEFINE b == Bytes(mux.package)
    <3>1. SubSeq(b, 1, 0) = <<>>
      BY SubSeqEmpty
    <3>2. 0 \in 0 .. FileLength(mux.package)
      BY <2>2, BytesFacts
    <3> QED BY <3>1, <3>2 DEF Front
  <2>4. Front(disk', mux'.package) /\ OfMuxer(disk')
    BY <2>1, <2>2, <2>3 DEF OfMuxer
  <2> QED BY <2>1, <2>2, <2>4 DEF DiskInv
<1>5. ASSUME MuxWrite PROVE DiskInv' /\ (disk' = disk \/ OfMuxer(disk'))
  <2> DEFINE p == mux.package
             b == Bytes(p)
  <2>1. mux.pc = "writing" /\ p \in Packages /\ Front(disk, p) /\ whole = None
    BY <1>5, <1>0 DEF MuxWrite, DiskInv
  <2>2. PICK n \in Len(disk) + 1 .. Len(b) :
           /\ disk' = SubSeq(b, 1, n)
           /\ IF n = Len(b) THEN MuxEnds /\ whole' = p ELSE UNCHANGED <<mux, whole>>
    BY <1>5 DEF MuxWrite
  <2>3. Len(disk) \in Nat /\ Len(b) \in Nat /\ b \in Seq(Cells(p))
    <3>1. Len(disk) \in 0 .. FileLength(p)
      BY <2>1, FrontFacts
    <3> QED BY <2>1, <3>1, BytesFacts
  <2>4. n \in 0 .. Len(b)
    BY <2>3
  <2>5. Front(disk', p)
    BY <2>1, <2>2, <2>4, FrontOfBytes
  <2> HIDE DEF b
  <2>6. CASE n = Len(b)
    <3>1. disk' = b
      BY <2>2, <2>3, <2>6, SubSeqFull
    <3> QED BY <1>2, <2>1, <2>2, <2>5, <2>6, <3>1 DEF DiskInv, OfMuxer, b
  <2>7. CASE n # Len(b)
    BY <1>0, <2>1, <2>2, <2>5, <2>7 DEF DiskInv, OfMuxer
  <2> QED BY <2>6, <2>7
<1>6. ASSUME MuxKilled PROVE DiskInv' /\ (disk' = disk \/ OfMuxer(disk'))
  <2>1. MuxEnds /\ disk' = disk /\ whole' = whole
    BY <1>6 DEF MuxKilled
  <2> QED BY <1>2, <2>1 DEF DiskInv, OfMuxer, Front, FileLength, Absent
<1>7. ASSUME UNCHANGED <<disk, mux, whole>> PROVE DiskInv' /\ (disk' = disk \/ OfMuxer(disk'))
  BY <1>7 DEF DiskInv, OfMuxer, Front, FileLength, Absent
<1>8. ~Muxer => UNCHANGED <<disk, mux, whole>>
  BY DEF Next, vars, ProbeRead, ProbeCheck, PlayerOpen, PlayerExport, PlayerSeek,
         ShouldIgnore, ResolveMultiple
<1> QED BY <1>1, <1>3, <1>4, <1>5, <1>6, <1>7, <1>8 DEF Muxer

\* A file that the player accepts gives it the index and the manifest.
LEMMA PlayerRead ==
    ASSUME NEW p \in Packages, NEW raw, Front(raw, p), PlayerAccepts(raw)
    PROVE  PlayerIndex(raw) = Index(p) /\ ManifestIn(raw) = Manifest(p)
<1>1. Len(raw) >= FILE_HEADER_SIZE /\ HoldsManifest(raw)
      /\ Len(Entries(raw, At(raw, 0).count)) = At(raw, 0).count
  BY DEF PlayerAccepts
<1>2. At(raw, 0).count = Count(p)
  BY <1>1, HeaderRead, ValueFacts
<1>3. Entries(raw, Count(p)) = Index(p)
  BY <1>1, <1>2, EntriesRead
<1> QED BY <1>1, <1>2, <1>3, ManifestRead DEF PlayerIndex

\* A duration that an index states is a number, 0 for what is not in it.
LEMMA IndexedType ==
    ASSUME NEW p \in Packages, NEW id
    PROVE  IndexedDuration(Index(p), id) \in Nat
<1> DEFINE n == Count(p)
           x == Index(p)
           found == {i \in DOMAIN x : x[i].id = id}
<1>1. n \in Nat /\ DOMAIN x = 1 .. n /\ \A i \in 1 .. n : x[i].duration \in Nat
  BY AssetFacts, ValueFacts DEF Index
<1>2. IndexedDuration(x, id) = IF found = {} THEN 0 ELSE x[Max(found)].duration
  BY DEF IndexedDuration
<1>3. found \in SUBSET (0 .. n) /\ found \in SUBSET (1 .. n)
  BY <1>1
<1> HIDE DEF n, x, found
<1>4. ASSUME found # {} PROVE Max(found) \in 1 .. n
  <2>1. \E m \in found : \A k \in found : k <= m
    BY <1>1, <1>3, <1>4, GreatestBelow
  <2>2. \A m \in found : (\A k \in found : k <= m) => \A k \in found : m >= k
    BY <1>3
  <2>3. \E m \in found : \A k \in found : m >= k
    BY <2>1, <2>2
  <2>4. Max(found) \in found
    BY <2>3 DEF Max
  <2> QED BY <1>3, <2>4
<1> QED BY <1>1, <1>2, <1>4 DEF x

\* The entries of a playlist are images of segments of the manifest.
LEMMA PlaylistType ==
    ASSUME NEW S, NEW manifest \in Seq(S), NEW decision
    PROVE  Playlist(manifest, decision).entries \in Seq(Images(decision, S))
<1> DEFINE P == {s \in Range(manifest) : ~s.filler}
           T == Images(decision, S)
           kept == Where(manifest, P)
           decided == Each(kept, decision)
           Q == {d \in Range(decided) : d.kind = "entry"}
<1>1. Playlist(manifest, decision).entries = Where(decided, Q)
  BY DEF Playlist
<1> HIDE DEF P, Q
<1>2. kept \in Seq(S)
  BY WhereType
<1> HIDE DEF kept
<1>3. decided \in Seq(T)
  BY <1>2, EachType
<1> HIDE DEF decided, T
<1>4. Where(decided, Q) \in Seq(T)
  BY <1>3, WhereType
<1> QED BY <1>1, <1>4 DEF T

\* The durations of the entries that the player plays are numbers.
LEMMA PlayedType ==
    ASSUME NEW p \in Packages, NEW profile
    PROVE  LET entries == PlayerSequence(Index(p), Manifest(p), profile).entries
           IN  [i \in DOMAIN entries |-> IndexedDuration(Index(p), entries[i].target)] \in Seq(Nat)
<1> DEFINE segments == p.segments
           decision == [s \in Range(segments) |-> Player(s, IdsOf(Index(p)), profile)]
           entries == PlayerSequence(Index(p), Manifest(p), profile).entries
           times == [i \in DOMAIN entries |-> IndexedDuration(Index(p), entries[i].target)]
<1>1. Manifest(p).segments = segments
  BY ValueFacts
<1>2. entries = Playlist(segments, decision).entries
  BY <1>1 DEF PlayerSequence
<1>3. segments \in Seq(ManifestSegment)
  BY PackagesAssumption
<1> HIDE DEF segments, decision, entries
<1>4. \E T : entries \in Seq(T)
  BY <1>2, <1>3, PlaylistType
<1>5. Len(entries) \in Nat /\ DOMAIN entries = 1 .. Len(entries)
  BY <1>4, LenProperties
<1>6. times \in [1 .. Len(entries) -> Nat]
  BY <1>5, IndexedType
<1>7. times \in Seq(Nat)
  <2> HIDE DEF times
  <2> QED BY <1>5, <1>6
<1> QED BY <1>7 DEF entries

\* What each action makes of the tool.
LEMMA ToolActions ==
    ASSUME [Next]_vars
    PROVE  \/ Muxer
           \/ /\ UNCHANGED <<disk, mux, whole, exported>>
              /\ \/ UNCHANGED tool
                 \/ \E profile \in Profiles \cup {None} : ProbeRead(profile)
                 \/ ProbeCheck
                 \/ \E user \in Users : PlayerOpen(user)
                 \/ PlayerSeek \/ ShouldIgnore \/ ResolveMultiple
           \/ UNCHANGED <<disk, mux, whole>> /\ PlayerExport
BY DEF Next, vars, ProbeRead, ProbeCheck, PlayerOpen, PlayerExport, PlayerSeek,
       ShouldIgnore, ResolveMultiple

\* looks_like_bvf finds a whole file.
LEMMA WholeLooksLikeBvf == ASSUME NEW p \in Packages PROVE LooksLikeBvf(Bytes(p))
<1>1. /\ Encoded(Bytes(p), 0, Header(p), F) /\ F \in Nat /\ F > 0 /\ Header(p).kind = "header"
      /\ Len(Bytes(p)) \in Nat
  BY BytesFacts, SizeFacts, ValueFacts
<1>2. 1 \in 1 .. F /\ 0 + 1 = 1
  BY <1>1
<1>3. Bytes(p)[1].val = Header(p) /\ 0 + F <= Len(Bytes(p))
  <2> DEFINE b == Bytes(p)
             v == Header(p)
  <2> HIDE DEF b, v
  <2>1. 0 + F <= Len(b) /\ \A k \in 1 .. F : b[0 + k] = [val |-> v, at |-> k]
    BY <1>1 DEF Encoded, b, v
  <2>2. b[0 + 1] = [val |-> v, at |-> 1]
    BY <1>2, <2>1
  <2>3. b[1].val = v
    BY <1>2, <2>2
  <2> QED BY <2>1, <2>3 DEF b, v
<1> HIDE DEF F
<1> QED BY <1>1, <1>3 DEF LooksLikeBvf

\* ScanInv, step by step.
LEMMA ScanStep == ASSUME DiskInv, ScanInv, [Next]_vars PROVE ScanInv'
<1>1. ASSUME Muxer PROVE ScanInv'
  <2>1. CASE \E package \in Packages : MuxCollect(package)
    <3>1. mux.pc = "idle" /\ mux'.pc = "collected" /\ UNCHANGED <<disk, whole, tool>>
      BY <2>1 DEF MuxCollect
    <3> QED BY <3>1 DEF ScanInv, Settled, Absent
  <2>2. CASE MuxRaises
    <3>1. mux.pc = "collected" /\ mux'.pc = "idle" /\ UNCHANGED <<disk, whole, tool>>
      BY <2>2 DEF MuxRaises, MuxEnds, DiskInv, MuxState
    <3> QED BY <3>1 DEF ScanInv, Settled, Absent
  <2>3. CASE MuxOpen
    <3>1. tool' = IF tool.kind = "scan" THEN [tool EXCEPT !.quiet = FALSE] ELSE tool
      BY <2>3 DEF MuxOpen
    <3>2. CASE tool.kind = "scan"
      <4>1. tool \in ScanState /\ tool' = [tool EXCEPT !.quiet = FALSE]
        BY <3>1, <3>2 DEF ScanInv
      <4>2. tool' \in ScanState /\ ~tool'.quiet
        BY <4>1 DEF ScanState
      <4> QED BY <4>2 DEF ScanInv
    <3>3. CASE tool.kind # "scan"
      BY <3>1, <3>3 DEF ScanInv
    <3> QED BY <3>2, <3>3
  <2>4. CASE MuxWrite \/ MuxKilled
    <3>1. mux.pc = "writing" /\ UNCHANGED tool
      BY <2>4 DEF MuxWrite, MuxKilled
    <3> QED BY <3>1 DEF ScanInv, Settled
  <2> QED BY <1>1, <2>1, <2>2, <2>3, <2>4 DEF Muxer
<1>2. ASSUME UNCHANGED <<disk, mux, whole, tool>> PROVE ScanInv'
  BY <1>2 DEF ScanInv, Settled, Absent
<1>3. ASSUME ShouldIgnore PROVE ScanInv'
  <2>1. /\ tool' = [kind |-> "scan", pc |-> "filtered", hidden |-> disk # Absent,
                    quiet |-> mux.pc # "writing" /\ (disk = Absent \/ whole # None)]
        /\ UNCHANGED <<disk, mux, whole>>
    BY <1>3 DEF ShouldIgnore
  <2>2. tool' \in ScanState
    BY <2>1 DEF ScanState
  <2>3. tool'.quiet => Settled'
    BY <2>1 DEF Settled, Absent
  <2>4. tool'.hidden <=> disk' # Absent
    BY <2>1
  <2>5. tool'.pc = "filtered"
    BY <2>1
  <2> QED BY <2>2, <2>3, <2>4, <2>5 DEF ScanInv, Absent
<1>4. ASSUME ResolveMultiple PROVE ScanInv'
  <2>1. /\ tool' = [kind |-> "scan", pc |-> "done", hidden |-> tool.hidden, quiet |-> tool.quiet,
                    item |-> disk # Absent /\ LooksLikeBvf(disk)]
        /\ tool.kind = "scan" /\ tool.pc = "filtered"
    BY <1>4 DEF ResolveMultiple, Is
  <2>2. tool \in ScanState /\ (tool.quiet => Settled /\ (tool.hidden <=> disk # Absent))
    BY <2>1 DEF ScanInv
  <2>3. tool' \in ScanState
    BY <2>1, <2>2 DEF ScanState
  <2>4. disk # Absent /\ Settled => LooksLikeBvf(disk)
    BY WholeLooksLikeBvf DEF Settled, DiskInv
  <2>5. tool'.quiet = tool.quiet /\ tool'.hidden = tool.hidden /\ tool'.pc = "done"
        /\ (tool'.item <=> disk # Absent /\ LooksLikeBvf(disk))
    BY <2>1
  <2> QED BY <2>2, <2>3, <2>4, <2>5 DEF ScanInv
<1>5. ASSUME \/ \E profile \in Profiles \cup {None} : ProbeRead(profile)
             \/ ProbeCheck \/ PlayerSeek \/ PlayerExport
             \/ \E user \in Users : PlayerOpen(user)
      PROVE  tool'.kind # "scan"
  <2>1. ASSUME ProbeCheck PROVE tool'.kind = "probe"
    BY <2>1 DEF ProbeCheck
  <2>2. ASSUME PlayerSeek PROVE tool'.kind = "seek"
    BY <2>2 DEF PlayerSeek
  <2>3. ASSUME NEW user, PlayerOpen(user) PROVE tool'.kind \in {"none", "player"}
    BY <2>3 DEF PlayerOpen, NoTool
  <2>4. ASSUME PlayerExport PROVE tool'.kind = "none"
    BY <2>4 DEF PlayerExport, NoTool
  <2>5. ASSUME NEW profile, ProbeRead(profile) PROVE tool'.kind = "probe"
    BY <2>5 DEF ProbeRead
  <2> QED BY <1>5, <2>1, <2>2, <2>3, <2>4, <2>5
<1> QED BY <1>1, <1>2, <1>3, <1>4, <1>5, ToolActions DEF ScanInv

\* ProbeInv, step by step.
LEMMA ProbeStep == ASSUME DiskInv, ProbeInv, [Next]_vars PROVE ProbeInv'
<1>0. disk' = disk \/ OfMuxer(disk')
  BY DiskStep
<1>1. ASSUME Muxer PROVE ProbeInv'
  <2>1. tool.kind = "probe" \/ tool'.kind = "probe" => tool' = tool
    <3>1. ASSUME MuxOpen PROVE tool.kind = "probe" \/ tool'.kind = "probe" => tool' = tool
      <4>1. tool' = IF tool.kind = "scan" THEN [tool EXCEPT !.quiet = FALSE] ELSE tool
        BY <3>1 DEF MuxOpen
      <4>2. CASE tool.kind = "scan"
        BY <4>1, <4>2
      <4> QED BY <4>1, <4>2
    <3>2. ~MuxOpen => tool' = tool
      BY <1>1 DEF Muxer, MuxCollect, MuxRaises, MuxWrite, MuxKilled
    <3> QED BY <3>1, <3>2
  <2>2. SUFFICES ASSUME tool' = tool PROVE ProbeInv'
    BY <2>1 DEF ProbeInv
  <2>3. OfMuxer(disk) => OfMuxer(disk')
    BY <1>0
  <2> QED BY <2>2, <2>3 DEF ProbeInv, OfMuxer, Front, FileLength, Verdict
<1>2. ASSUME UNCHANGED <<disk, tool>> PROVE ProbeInv'
  BY <1>2 DEF ProbeInv, OfMuxer, Front, FileLength, Verdict
<1>3. ASSUME NEW profile \in Profiles \cup {None}, ProbeRead(profile) PROVE ProbeInv'
  <2>1. /\ tool' = [kind |-> "probe", pc |-> "read", raw |-> disk, profile |-> profile]
        /\ disk' = disk /\ disk # Absent
    BY <1>3 DEF ProbeRead
  <2>2. OfMuxer(disk)
    BY <2>1 DEF DiskInv
  <2>3. tool'.pc = "read" /\ tool'.raw = disk /\ tool'.profile = profile
    BY <2>1
  <2> QED BY <2>1, <2>2, <2>3 DEF ProbeInv
<1>4. ASSUME ProbeCheck PROVE ProbeInv'
  <2> DEFINE raw == tool.raw
             issues == ProbeIssues(raw, disk, tool.profile)
             manifest == ManifestIn(disk)
             profile == ProbedProfile(manifest, tool.profile)
             expected == ProbedDuration(Entries(raw, ActualIndexCount(raw)), manifest, profile)
  <2>1. /\ tool' = IF issues # {} THEN [kind |-> "probe", pc |-> "done", valid |-> FALSE]
                   ELSE [kind |-> "probe", pc |-> "done", valid |-> TRUE, profile |-> profile,
                         raw |-> raw, again |-> disk, expected |-> expected]
        /\ disk' = disk /\ tool.kind = "probe" /\ tool.pc = "read"
    BY <1>4 DEF ProbeCheck, Is
  <2>2. OfMuxer(disk) /\ OfMuxer(raw) /\ tool.profile \in Profiles \cup {None}
    BY <2>1 DEF ProbeInv
  <2> HIDE DEF issues
  <2>3. CASE issues # {}
    <3>1. tool'.pc = "done" /\ tool'.valid = FALSE
      BY <2>1, <2>3
    <3> QED BY <2>1, <2>2, <3>1 DEF ProbeInv
  <2>4. CASE issues = {}
    <3> HIDE DEF raw, manifest, profile, expected
    <3>1. /\ tool'.pc = "done" /\ tool'.valid = TRUE /\ tool'.raw = raw /\ tool'.again = disk
          /\ tool'.profile = profile /\ tool'.expected = expected
      BY <2>1, <2>4
    <3>2. Verdict(tool')
      <4>1. ProbeIssues(tool'.raw, tool'.again, tool.profile) = {}
        BY <2>4, <3>1 DEF issues
      <4>2. tool'.profile = ProbedProfile(ManifestIn(tool'.again), tool.profile)
        BY <3>1 DEF profile, manifest
      <4>3. tool'.expected = ProbedDuration(Entries(tool'.raw, ActualIndexCount(tool'.raw)),
                                            ManifestIn(tool'.again), tool'.profile)
        BY <3>1 DEF expected, manifest
      <4> QED BY <2>2, <4>1, <4>2, <4>3 DEF Verdict
    <3> QED BY <2>1, <2>2, <3>1, <3>2 DEF ProbeInv
  <2> QED BY <2>3, <2>4
<1>5. ASSUME \/ ShouldIgnore \/ ResolveMultiple \/ PlayerSeek \/ PlayerExport
             \/ \E user \in Users : PlayerOpen(user)
      PROVE  tool'.kind # "probe"
  <2>1. ASSUME ShouldIgnore \/ ResolveMultiple PROVE tool'.kind = "scan"
    BY <2>1 DEF ShouldIgnore, ResolveMultiple
  <2>2. ASSUME PlayerSeek PROVE tool'.kind = "seek"
    BY <2>2 DEF PlayerSeek
  <2>3. ASSUME NEW user, PlayerOpen(user) PROVE tool'.kind \in {"none", "player"}
    BY <2>3 DEF PlayerOpen, NoTool
  <2>4. ASSUME PlayerExport PROVE tool'.kind = "none"
    BY <2>4 DEF PlayerExport, NoTool
  <2> QED BY <1>5, <2>1, <2>2, <2>3, <2>4
<1> QED BY <1>1, <1>2, <1>3, <1>4, <1>5, ToolActions DEF ProbeInv

\* Neither the muxer nor the scan makes a tool of another kind, or changes one.
LEMMA OthersKeepTool ==
    ASSUME Muxer \/ ShouldIgnore \/ ResolveMultiple
    PROVE  tool' = tool \/ (tool'.kind = "scan" \/ (tool.kind = "scan" /\ MuxOpen))
<1>1. ASSUME MuxOpen PROVE tool' = tool \/ (tool.kind = "scan" /\ MuxOpen)
  <2>1. tool' = IF tool.kind = "scan" THEN [tool EXCEPT !.quiet = FALSE] ELSE tool
    BY <1>1 DEF MuxOpen
  <2>2. CASE tool.kind = "scan"
    BY <1>1, <2>2
  <2>3. CASE tool.kind # "scan"
    BY <2>1, <2>3
  <2> QED BY <2>2, <2>3
<1>2. Muxer /\ ~MuxOpen => tool' = tool
  BY DEF Muxer, MuxCollect, MuxRaises, MuxWrite, MuxKilled
<1>3. ShouldIgnore \/ ResolveMultiple => tool'.kind = "scan"
  BY DEF ShouldIgnore, ResolveMultiple
<1> QED BY <1>1, <1>2, <1>3

\* A step of the muxer leaves a scan what it is.
LEMMA ScanStaysScan ==
    ASSUME ScanInv, tool.kind = "scan", MuxOpen PROVE tool'.kind = "scan"
<1>1. tool' = [tool EXCEPT !.quiet = FALSE] /\ tool \in ScanState
  BY DEF MuxOpen, ScanInv
<1> QED BY <1>1 DEF ScanState

\* PlayerInv, step by step.
LEMMA PlayerStep == ASSUME DiskInv, ScanInv, PlayerInv, [Next]_vars PROVE PlayerInv'
<1>1. ASSUME tool' = tool PROVE PlayerInv'
  BY <1>1 DEF PlayerInv, OfMuxer, Front, FileLength
<1>2. ASSUME Muxer \/ ShouldIgnore \/ ResolveMultiple PROVE PlayerInv'
  BY <1>1, <1>2, OthersKeepTool, ScanStaysScan DEF PlayerInv
<1>3. ASSUME NEW user \in Users, PlayerOpen(user) PROVE PlayerInv'
  <2> DEFINE profile == PlayerResolveProfile(user, ManifestIn(disk).profiles)
  <2>1. /\ tool' = IF ~PlayerAccepts(disk) THEN NoTool
                   ELSE [kind |-> "player", pc |-> "open", raw |-> disk, user |-> user,
                         profile |-> profile]
        /\ disk' = disk /\ disk # Absent
    BY <1>3 DEF PlayerOpen
  <2>2. CASE ~PlayerAccepts(disk)
    BY <2>1, <2>2 DEF PlayerInv, NoTool
  <2>3. CASE PlayerAccepts(disk)
    <3>1. OfMuxer(disk)
      BY <2>1 DEF DiskInv
    <3> HIDE DEF profile
    <3>2. tool'.raw = disk /\ tool'.user = user /\ tool'.profile = profile
      BY <2>1, <2>3
    <3> QED BY <2>3, <3>1, <3>2 DEF PlayerInv, profile
  <2> QED BY <2>2, <2>3
<1>4. ASSUME \/ \E profile \in Profiles \cup {None} : ProbeRead(profile)
             \/ ProbeCheck \/ PlayerSeek \/ PlayerExport
      PROVE  tool'.kind # "player"
  <2>1. ASSUME ProbeCheck PROVE tool'.kind = "probe"
    BY <2>1 DEF ProbeCheck
  <2>2. ASSUME PlayerSeek PROVE tool'.kind = "seek"
    BY <2>2 DEF PlayerSeek
  <2>3. ASSUME PlayerExport PROVE tool'.kind = "none"
    BY <2>3 DEF PlayerExport, NoTool
  <2>4. ASSUME NEW profile, ProbeRead(profile) PROVE tool'.kind = "probe"
    BY <2>4 DEF ProbeRead
  <2> QED BY <1>4, <2>1, <2>2, <2>3, <2>4
<1> QED BY <1>1, <1>2, <1>3, <1>4, ToolActions DEF PlayerInv

\* The running totals of a sequence of numbers are numbers.
LEMMA TotalType == ASSUME NEW s \in Seq(Nat) PROVE Total(s) \in Nat
<1>1. Len(s) \in Nat
  BY LenProperties
<1>2. Len(s) \in 0 .. Len(s)
  BY <1>1
<1>3. Total(SubSeq(s, 1, Len(s))) \in Nat
  BY <1>2, TotalsGrow
<1> QED BY <1>3, SubSeqFull

\* SeekInv, step by step.
LEMMA SeekStep == ASSUME ScanInv, PlayerInv, SeekInv, [Next]_vars PROVE SeekInv'
<1>1. ASSUME tool' = tool PROVE SeekInv'
  BY <1>1 DEF SeekInv
<1>2. ASSUME Muxer \/ ShouldIgnore \/ ResolveMultiple PROVE SeekInv'
  BY <1>1, <1>2, OthersKeepTool, ScanStaysScan DEF SeekInv
<1>3. ASSUME PlayerSeek PROVE SeekInv'
  <2> DEFINE durations == PlayedDurations
  <2>1. PICK position \in 0 .. Total(durations) :
           tool' = [kind |-> "seek", pc |-> "done", durations |-> durations,
                    position |-> position, entry |-> SeekEntry(durations, position)]
    BY <1>3 DEF PlayerSeek
  <2>2. durations \in Seq(Nat)
    <3>1. tool.kind = "player"
      BY <1>3 DEF PlayerSeek, Is
    <3>2. PICK p \in Packages : Front(tool.raw, p)
      BY <3>1 DEF PlayerInv, OfMuxer
    <3>3. PlayerIndex(tool.raw) = Index(p) /\ ManifestIn(tool.raw) = Manifest(p)
      BY <3>1, <3>2, PlayerRead DEF PlayerInv
    <3> DEFINE entries == PlayerSequence(Index(p), Manifest(p), tool.profile).entries
               times == [i \in DOMAIN entries |-> IndexedDuration(Index(p), entries[i].target)]
    <3>4. times \in Seq(Nat)
      BY PlayedType
    <3>5. durations = times
      BY <3>3 DEF PlayedDurations, Played
    <3> QED BY <3>4, <3>5
  <2> HIDE DEF durations
  <2>3. position \in Nat
    BY <2>2, TotalType
  <2> DEFINE entry == SeekEntry(durations, position)
  <2> HIDE DEF entry
  <2>4. tool'.durations = durations /\ tool'.position = position /\ tool'.entry = entry
    BY <2>1 DEF entry
  <2> QED BY <2>2, <2>3, <2>4 DEF SeekInv, entry
<1>4. ASSUME \/ \E profile \in Profiles \cup {None} : ProbeRead(profile)
             \/ ProbeCheck \/ PlayerExport
             \/ \E user \in Users : PlayerOpen(user)
      PROVE  tool'.kind # "seek"
  <2>1. ASSUME ProbeCheck PROVE tool'.kind = "probe"
    BY <2>1 DEF ProbeCheck
  <2>2. ASSUME NEW user, PlayerOpen(user) PROVE tool'.kind \in {"none", "player"}
    BY <2>2 DEF PlayerOpen, NoTool
  <2>3. ASSUME PlayerExport PROVE tool'.kind = "none"
    BY <2>3 DEF PlayerExport, NoTool
  <2>4. ASSUME NEW profile, ProbeRead(profile) PROVE tool'.kind = "probe"
    BY <2>4 DEF ProbeRead
  <2> QED BY <1>4, <2>1, <2>2, <2>3, <2>4
<1> QED BY <1>1, <1>2, <1>3, <1>4, ToolActions DEF SeekInv

\* ExportInv, step by step.
LEMMA ExportStep == ASSUME PlayerInv, ExportInv, [Next]_vars PROVE ExportInv'
<1>1. ASSUME UNCHANGED exported PROVE ExportInv'
  BY <1>1 DEF ExportInv
<1>2. Muxer => UNCHANGED exported
  BY DEF Muxer, MuxCollect, MuxRaises, MuxOpen, MuxWrite, MuxKilled
<1>3. ASSUME PlayerExport PROVE ExportInv'
  <2> DEFINE raw == tool.raw
             profile == tool.profile
             played == Played
             media == Extracted(raw, PlayerIndex(raw), played.entries)
             duration == Total([i \in DOMAIN media |-> media[i][1].val.media.duration])
  <2>1. IF played.failed THEN UNCHANGED exported
        ELSE exported' = [of |-> CompleteFile(raw), profile |-> profile, duration |-> duration]
    BY <1>3 DEF PlayerExport
  <2>2. played = PlayerSequence(PlayerIndex(raw), ManifestIn(raw), profile)
    BY DEF Played
  <2>3. duration = ExportDuration(raw, profile)
    BY <2>2 DEF ExportDuration
  <2>4. CompleteFile(raw) # None =>
           CompleteFile(raw) = raw /\ \E p \in Packages : raw = Bytes(p)
    BY DEF CompleteFile
  <2> HIDE DEF raw, profile, duration
  <2>5. CASE ~played.failed
    <3>1. /\ exported'.of = CompleteFile(raw) /\ exported'.profile = profile
          /\ exported'.duration = duration
      BY <2>1, <2>5
    <3>2. ~PlayerSequence(PlayerIndex(raw), ManifestIn(raw), profile).failed
      BY <2>2, <2>5
    <3> HIDE DEF played
    <3> QED BY <2>3, <2>4, <3>1, <3>2 DEF ExportInv
  <2> QED BY <1>1, <2>1, <2>5
<1> QED BY <1>1, <1>2, <1>3, ToolActions

\* The invariant holds of every execution of the specification.
LEMMA InvHolds == Spec => []ContainerInv
<1>1. ContainerInv /\ [Next]_vars => ContainerInv'
  BY DiskStep, ScanStep, ProbeStep, PlayerStep, SeekStep, ExportStep DEF ContainerInv
<1> QED BY <1>1, InitHolds, PTL DEF Spec

-----------------------------------------------------------------------------
(* The theorems. *)

\* Whatever packages are written over each other, and wherever a muxer is
\* killed: a scan of a file that is absent or complete, and stays so, lists
\* the movie once (QuietScanListsMovieOnce), for ShouldIgnore of
\* PreferBvfSiblingIgnoreRule.cs and ResolveMultiple of the resolver.
THEOREM QuietScanHolds == Spec => []QuietScanListsMovieOnce
<1>1. ContainerInv => QuietScanListsMovieOnce
  BY DEF ContainerInv, ScanInv, QuietScanListsMovieOnce, Is
<1> QED BY <1>1, InvHolds, PTL

\* A file that read_bvf parses lacks at most media of its last asset: the
\* header of the last block is there.
LEMMA NearlyWhole ==
    ASSUME NEW q \in Packages, NEW raw, Front(raw, q), ReadBvfAccepts(raw)
    PROVE  LET lacks == Len(Bytes(q)) - Len(raw)
           IN  /\ lacks >= 0 /\ raw = SubSeq(Bytes(q), 1, Len(raw))
               /\ lacks > 0 => /\ q.assets # <<>>
                               /\ lacks <= q.assets[Len(q.assets)].media.size
<1> DEFINE n == Count(q)
           len == Len(raw)
           all == FileLength(q)
<1>1. /\ raw = SubSeq(Bytes(q), 1, len) /\ Len(Bytes(q)) = all
      /\ len \in Nat /\ all \in Nat /\ len <= all /\ n \in Nat
  <2>1. len \in 0 .. all /\ all \in Nat
    BY FrontFacts, BytesFacts
  <2> QED BY <2>1, FrontFacts, BytesFacts, AssetFacts
<1>2. PlayerIndex(raw) = Index(q) /\ At(raw, 0) = Header(q)
  <2>1. PlayerAccepts(raw) /\ Len(raw) >= FILE_HEADER_SIZE
    BY DEF ReadBvfAccepts, PlayerAccepts
  <2> QED BY <2>1, PlayerRead, HeaderRead
<1>3. /\ InFile(raw, At(raw, 0).manifestOffset, At(raw, 0).manifestLength)
      /\ \A i \in DOMAIN PlayerIndex(raw) : HoldsBlock(raw, PlayerIndex(raw)[i])
  BY DEF ReadBvfAccepts, PlayerIndex
<1> HIDE DEF n, len, all
<1>4. CASE n = 0
  <2>1. ManifestOffset(q) + M <= len
    BY <1>2, <1>3, ValueFacts DEF InFile, len
  <2>2. all = ManifestOffset(q) + M
    BY <1>4, LengthFacts DEF n, all
  <2>3. ~(all - len > 0) /\ all - len >= 0
    BY <1>1, <2>1, <2>2
  <2> QED BY <1>1, <2>3 DEF len
<1>5. CASE n # 0
  <2> DEFINE o == Offset(q, n)
             size == q.assets[n].media.size
             e == IndexEntry(q, n)
  <2>1. n \in 1 .. n /\ n > 0
    BY <1>1, <1>5
  <2>2. HoldsBlock(raw, e) /\ e.offset = o
    <3>1. Index(q)[n] = e /\ n \in DOMAIN Index(q)
      BY <2>1 DEF Index, n
    <3>2. e.offset = o
      BY <2>1, ValueFacts DEF n
    <3> QED BY <1>2, <1>3, <3>1, <3>2
  <2>3. Decoded(raw, o, BlockValue(q.assets[n]), B)
    BY <2>1, FrontDecoded DEF n
  <2>4. o + B <= len
    <3>1. Holds(raw, o, B, "block")
      BY <2>2 DEF HoldsBlock, B
    <3> QED BY <2>3, <3>1 DEF Decoded, len
  <2>5. all = o + BlockLength(q.assets[n]) /\ BlockLength(q.assets[n]) = B + size
        /\ o \in Nat /\ B \in Nat /\ size \in Nat
    BY <2>1, LengthFacts, AssetFacts, OffsetFacts, SizeFacts DEF n, all
  <2> HIDE DEF o, size
  <2>6. all - len <= size /\ all - len >= 0
    BY <1>1, <2>4, <2>5
  <2>7. q.assets # <<>> /\ size = q.assets[Len(q.assets)].media.size
    <3>1. n = Len(q.assets)
      BY DEF n, Count
    <3> QED BY <1>5, <3>1, EmptySeq DEF size
  <2> QED BY <1>1, <2>6, <2>7 DEF len
<1> QED BY <1>4, <1>5

\* bvf_probe.py calls nothing valid that it did not read whole, and what its
\* second read found lacks at most media of the last asset
\* (ValidFileIsNearlyWhole): for packages of any number of assets, of any sizes,
\* one of which may be empty, and muxers killed anywhere, also between the reads.
THEOREM NearlyWholeHolds == Spec => []ValidFileIsNearlyWhole
<1>1. ASSUME ContainerInv PROVE ValidFileIsNearlyWhole
  <2> SUFFICES ASSUME ProbedValid PROVE ValidFileIsNearlyWhole
    BY DEF ValidFileIsNearlyWhole
  <2>1. tool.kind = "probe" /\ tool.pc = "done" /\ tool.valid
    BY DEF ProbedValid, Is
  <2>2. OfMuxer(tool.raw) /\ OfMuxer(tool.again) /\ Verdict(tool)
    BY <1>1, <2>1 DEF ContainerInv, ProbeInv
  <2>3. PICK p \in Packages : Front(tool.raw, p)
    BY <2>2 DEF OfMuxer
  <2>4. PICK q \in Packages : Front(tool.again, q)
    BY <2>2 DEF OfMuxer
  <2>5. PICK asked : ProbeIssues(tool.raw, tool.again, asked) = {}
    BY <2>2 DEF Verdict
  <2>6. PayloadIssues(tool.raw, tool.again) = {}
    BY <2>5 DEF ProbeIssues
  <2>7. tool.raw = Bytes(p) /\ ReadBvfAccepts(tool.again)
    BY <2>3, <2>6, NoPayloadIssue
  <2>8. LET lacks == Len(Bytes(q)) - Len(tool.again)
        IN  /\ lacks >= 0 /\ tool.again = SubSeq(Bytes(q), 1, Len(tool.again))
            /\ lacks > 0 => /\ q.assets # <<>>
                            /\ lacks <= q.assets[Len(q.assets)].media.size
    BY <2>4, <2>7, NearlyWhole
  <2> QED BY <2>7, <2>8, Zenon DEF ValidFileIsNearlyWhole
<1> QED BY <1>1, InvHolds, PTL

\* The least of some of the numbers up to n.
LEMMA MinOfSome ==
    ASSUME NEW n \in Nat, NEW T \in SUBSET (1 .. n), T # {}
    PROVE  Min(T) \in T /\ \A k \in T : Min(T) <= k
<1>1. \E m \in T : \A k \in T : m <= k
  <2>1. T \in SUBSET Nat
    OBVIOUS
  <2> QED BY <2>1, LeastNatural
<1>2. \E m \in T : \A k \in T : m =< k
  BY <1>1
<1>3. Min(T) \in T /\ \A k \in T : Min(T) =< k
  BY <1>2 DEF Min
<1> QED BY <1>3

\* SeekEntry chooses the entry within which the position is, or the last one.
LEMMA SeekEntryFacts ==
    ASSUME NEW s \in Seq(Nat), NEW position \in Nat
    PROVE  LET before(i) == Total(SubSeq(s, 1, i))
               entry == SeekEntry(s, position)
           IN  IF position < before(Len(s))
               THEN before(entry - 1) <= position /\ position < before(entry)
               ELSE entry = Len(s)
<1> DEFINE n == Len(s)
           T(i) == Total(SubSeq(s, 1, i))
           hits == {i \in DOMAIN s : T(i) > position}
           entry == SeekEntry(s, position)
<1>1. n \in Nat /\ DOMAIN s = 1 .. n
  BY LenProperties
<1>2. \A j \in 0 .. n : \A i \in 0 .. j : T(i) \in Nat /\ T(i) <= T(j)
  BY TotalsGrow
<1>3. T(0) = 0
  BY TotalsGrow, PartialTotals
<1>4. entry = IF hits = {} THEN n ELSE Min(hits)
  BY DEF SeekEntry
<1> HIDE DEF n, T, entry
<1>5. \A i \in 0 .. n : T(i) \in Nat /\ T(i) <= T(n)
  BY <1>1, <1>2
<1>6. CASE position < T(n)
  <2>1. n # 0 /\ n \in hits
    BY <1>1, <1>3, <1>5, <1>6
  <2>2. hits \in SUBSET (1 .. n) /\ hits # {}
    BY <1>1, <2>1
  <2>3. entry \in hits /\ \A k \in hits : entry <= k
    <3> HIDE DEF hits
    <3> QED BY <1>1, <1>4, <2>2, MinOfSome
  <2>4. entry \in 1 .. n /\ position < T(entry)
    BY <1>1, <1>5, <2>3
  <2>5. T(entry - 1) <= position
    <3>1. CASE entry = 1
      <4>1. entry - 1 = 0
        BY <3>1
      <4> QED BY <1>3, <4>1
    <3>2. CASE entry # 1
      <4>1. entry - 1 \in 1 .. n /\ entry - 1 \in 0 .. n /\ ~(entry <= entry - 1)
        BY <1>1, <2>4, <3>2
      <4>2. ~(T(entry - 1) > position)
        BY <1>1, <2>3, <4>1
      <4> QED BY <1>5, <4>1, <4>2
    <3> QED BY <3>1, <3>2
  <2> QED BY <1>6, <2>4, <2>5 DEF T, n, entry
<1>7. CASE ~(position < T(n))
  <2>1. hits = {}
    BY <1>1, <1>5, <1>7
  <2> QED BY <1>4, <1>7, <2>1 DEF T, n, entry
<1> QED BY <1>6, <1>7

\* BVFPlayer.seek finds the entry that shows the position, across entries that
\* last no time, and the last one past the end (SeekLandsOnPosition): for
\* timelines of any number of entries of any durations.
THEOREM SeekHolds == Spec => []SeekLandsOnPosition
<1>1. ASSUME ContainerInv PROVE SeekLandsOnPosition
  <2> SUFFICES ASSUME tool.kind = "seek" PROVE SeekLandsOnPosition
    BY DEF SeekLandsOnPosition
  <2>1. /\ tool.durations \in Seq(Nat) /\ tool.position \in Nat
        /\ tool.entry = SeekEntry(tool.durations, tool.position)
    BY <1>1 DEF ContainerInv, SeekInv
  <2> QED BY <2>1, SeekEntryFacts DEF SeekLandsOnPosition
<1> QED BY <1>1, InvHolds, PTL

-----------------------------------------------------------------------------

\* Nothing is kept when no element is in P.
LEMMA WhereNone ==
    ASSUME NEW S, NEW s \in Seq(S), NEW P, \A e \in Range(s) : e \notin P
    PROVE  Where(s, P) = <<>>
<1>1. Where(s, P) = Where(s, {})
  BY WhereSame
<1> DEFINE T == {t \in Seq(S) : Where(t, {}) = <<>>}
<1>2. <<>> \in T
  BY WhereEmpty, EmptySeq
<1>3. ASSUME NEW t \in Seq(S), NEW e \in S, t \in T PROVE Append(t, e) \in T
  BY <1>3, AppendProperties, WhereAppend
<1> HIDE DEF T
<1>4. \A t \in Seq(S) : t \in T
  BY <1>2, <1>3, SequenceInduction
<1> QED BY <1>1, <1>4 DEF T

\* The two ways to select a profile of a manifest agree about any preference.
LEMMA SameSelection ==
    ASSUME NEW user, NEW available \in Seq(Profiles), available # <<>>
    PROVE  PlayerResolveProfile(user, available)
             = SelectAvailableProfile(available, PlayerProfileFromUser(user))
<1> DEFINE names == Range(available)
           fallback == Where(Candidates, names)
           preferred == PlayerProfileFromUser(user)
           found(c) == \E i \in DOMAIN available : available[i] = c
           hits == {i \in DOMAIN Candidates : found(Candidates[i])}
           selected == SelectAvailableProfile(available, preferred)
<1>1. \A c : found(c) <=> c \in names
  BY DEF Range
<1>2. /\ Candidates \in Seq({"adult", "teen_m", "teen_f", "teen", "child"})
      /\ Len(Candidates) = 5 /\ DOMAIN Candidates = 1 .. 5
  BY DEF Candidates
<1>3. hits \in SUBSET (1 .. 5)
  BY <1>2
<1>4. selected =
        IF preferred \in names THEN preferred
        ELSE IF preferred \in {"teen_m", "teen_f"} /\ "teen" \in names THEN "teen"
        ELSE IF fallback # <<>> THEN Head(fallback)
        ELSE IF available # <<>> THEN Head(available) ELSE "adult"
  BY Zenon DEF SelectAvailableProfile
<1>5. PlayerResolveProfile(user, available) =
        CASE found(preferred) -> preferred
          [] ~found(preferred) /\ preferred \in {"teen_m", "teen_f"} /\ found("teen") -> "teen"
          [] OTHER -> IF hits # {} THEN Candidates[CHOOSE i \in hits : \A j \in hits : i <= j]
                      ELSE IF available = <<>> THEN preferred ELSE available[1]
  BY Zenon DEF PlayerResolveProfile
<1>6. Head(available) = available[1]
  BY HeadTailProperties
<1>7. ASSUME hits # {}
      PROVE  /\ fallback # <<>>
             /\ Head(fallback) = Candidates[CHOOSE i \in hits : \A j \in hits : i <= j]
  <2> DEFINE m == CHOOSE i \in hits : \A j \in hits : i <= j
  <2>1. m \in hits /\ \A j \in hits : m <= j
    <3>1. \E i \in hits : \A j \in hits : i <= j
      <4>1. hits \in SUBSET Nat
        BY <1>3
      <4> HIDE DEF hits
      <4> QED BY <1>7, <4>1, LeastNatural
    <3> HIDE DEF hits
    <3> QED BY <3>1
  <2> HIDE DEF m
  <2>2. m \in 1 .. 5 /\ Candidates[m] \in names
    BY <1>1, <1>2, <2>1
  <2>3. \A j \in 1 .. m - 1 : Candidates[j] \notin names
    BY <1>1, <1>2, <2>1, <2>2
  <2>4. m \in 1 .. Len(Candidates)
    BY <1>2, <2>2
  <2> HIDE DEF names
  <2>5. Where(Candidates, names) # <<>> /\ Head(Where(Candidates, names)) = Candidates[m]
    BY <1>2, <2>2, <2>3, <2>4, WhereHead
  <2> QED BY <2>5 DEF m, names
<1>8. ASSUME hits = {} PROVE fallback = <<>>
  <2>1. \A c \in Range(Candidates) : c \notin names
    <3>1. \A i \in DOMAIN Candidates : ~found(Candidates[i])
      BY <1>8
    <3> QED BY <1>1, <3>1 DEF Range
  <2> HIDE DEF names
  <2> QED BY <1>2, <2>1, WhereNone
<1> DEFINE first == CHOOSE i \in hits : \A j \in hits : i <= j
<1> HIDE DEF names, fallback, preferred, hits, selected, found, first
<1>9. (found(preferred) <=> preferred \in names) /\ (found("teen") <=> "teen" \in names)
  BY <1>1
<1>10. CASE preferred \in names
  BY <1>4, <1>5, <1>9, <1>10 DEF selected, preferred
<1>11. CASE preferred \notin names /\ preferred \in {"teen_m", "teen_f"} /\ "teen" \in names
  BY <1>4, <1>5, <1>9, <1>11 DEF selected, preferred
<1>12. CASE preferred \notin names /\ ~(preferred \in {"teen_m", "teen_f"} /\ "teen" \in names)
  <2>1. PlayerResolveProfile(user, available) =
          IF hits # {} THEN Candidates[first] ELSE available[1]
    BY <1>5, <1>9, <1>12 DEF first
  <2>2. selected = IF fallback # <<>> THEN Head(fallback) ELSE Head(available)
    BY <1>4, <1>12
  <2>3. CASE hits # {}
    BY <1>7, <2>1, <2>2, <2>3 DEF first, selected, preferred
  <2>4. CASE hits = {}
    BY <1>6, <1>8, <2>1, <2>2, <2>4 DEF selected, preferred
  <2> QED BY <2>3, <2>4
<1> QED BY <1>10, <1>11, <1>12

\* Whom the player and the plugin prefer different profiles for, and what the
\* plugin prefers.
Defaulted(user) == user.override = None /\ user.age = None /\ user.default # None
FoldedUser(user) ==
    /\ user.override = None /\ user.age # None /\ user.age \in 13 .. 17
    /\ user.sex # Female /\ Lower(user.sex) = Female
ServerProfileFromUser(user) ==
    IF user.override # None THEN user.override
    ELSE IF user.age # None THEN ResolveFromAgeSex(user.age, user.sex) ELSE "adult"

\* A word in lower case is left as it is.
LEMMA LowerFemale == Lower(Female) = Female
BY DEF Lower, Female

\* The preferences differ for users left to a default, and for teenagers whose
\* sex is female but not in lower case.
LEMMA SamePreference ==
    ASSUME NEW user \in Users
    PROVE  /\ Defaulted(user) => PlayerProfileFromUser(user) = user.default
           /\ FoldedUser(user) => PlayerProfileFromUser(user) = "teen_f"
           /\ ~Defaulted(user) /\ ~FoldedUser(user) =>
                PlayerProfileFromUser(user) = ServerProfileFromUser(user)
<1> DEFINE age == user.age
           player == PlayerProfileFromUser(user)
           server == ServerProfileFromUser(user)
           sex == user.sex
<1>1. user.age \in Int \cup {None} /\ user.sex \in Sexes
  BY UsersAssumption
<1>2. CASE user.override # None
  BY <1>2 DEF PlayerProfileFromUser, ServerProfileFromUser, Defaulted, FoldedUser
<1>3. CASE user.override = None /\ user.age = None
  <2>1. player = IF user.default # None THEN user.default ELSE "adult"
    BY <1>3 DEF PlayerProfileFromUser
  <2>2. server = "adult"
    BY <1>3 DEF ServerProfileFromUser
  <2>3. ~FoldedUser(user) /\ (Defaulted(user) <=> user.default # None)
    BY <1>3 DEF Defaulted, FoldedUser
  <2> HIDE DEF player, server
  <2> QED BY <2>1, <2>2, <2>3 DEF player, server
<1>4. CASE user.override = None /\ user.age # None
  <2>1. age \in Int
    BY <1>1, <1>4
  <2>2. server = ResolveFromAgeSex(age, sex)
    BY <1>4 DEF ServerProfileFromUser
  <2>3. player = IF age < 13 THEN "child" ELSE IF age >= 18 THEN "adult"
                 ELSE IF Lower(sex) = Female THEN "teen_f" ELSE "teen_m"
    BY <1>4 DEF PlayerProfileFromUser
  <2>4. ~Defaulted(user)
        /\ (FoldedUser(user) <=> age \in 13 .. 17 /\ sex # Female /\ Lower(sex) = Female)
    BY <1>4 DEF Defaulted, FoldedUser
  <2>5. sex = Female => Lower(sex) = Female
    BY LowerFemale
  <2> HIDE DEF age, sex, player, server
  <2>6. CASE age < 13
    <3>1. age \notin 13 .. 17
      BY <2>1, <2>6
    <3> QED BY <2>2, <2>3, <2>4, <2>6, <3>1 DEF ResolveFromAgeSex, player, server
  <2>7. CASE age >= 18
    <3>1. age \notin 13 .. 17 /\ ~(age < 13) /\ ~(age < 18)
      BY <2>1, <2>7
    <3> QED BY <2>2, <2>3, <2>4, <2>7, <3>1 DEF ResolveFromAgeSex, player, server
  <2>8. CASE ~(age < 13) /\ ~(age >= 18)
    <3>1. age \in 13 .. 17 /\ age < 18
      BY <2>1, <2>8
    <3>2. server = IF sex = Female THEN "teen_f" ELSE "teen_m"
      BY <2>2, <2>8, <3>1 DEF ResolveFromAgeSex
    <3>3. player = IF Lower(sex) = Female THEN "teen_f" ELSE "teen_m"
      BY <2>3, <2>8
    <3> QED BY <2>4, <2>5, <3>1, <3>2, <3>3 DEF player, server
  <2> QED BY <2>6, <2>7, <2>8
<1> QED BY <1>2, <1>3, <1>4

\* ProfileResolver.cs and _resolve_profile of bvf_player.py choose the same
\* profile of any manifest that names one, for users of any age, sex, default
\* and override, but for the two kinds of user that the property names
\* (RuntimesChooseSameProfile).
THEOREM SameProfileHolds == Spec => []RuntimesChooseSameProfile
<1>1. ASSUME ContainerInv PROVE RuntimesChooseSameProfile
  <2> DEFINE user == tool.user
             available == ManifestIn(tool.raw).profiles
  <2> SUFFICES ASSUME tool.kind = "player" PROVE RuntimesChooseSameProfile
    BY DEF RuntimesChooseSameProfile
  <2>1. /\ OfMuxer(tool.raw) /\ PlayerAccepts(tool.raw) /\ user \in Users
        /\ tool.profile = PlayerResolveProfile(user, available)
    BY <1>1 DEF ContainerInv, PlayerInv
  <2>2. PICK p \in Packages : Front(tool.raw, p)
    BY <2>1 DEF OfMuxer
  <2>3. available \in Seq(Profiles)
    <3>1. available = p.profiles
      BY <2>1, <2>2, PlayerRead, ValueFacts
    <3> QED BY <3>1, PackagesAssumption
  <2>4. RuntimesChooseSameProfile <=>
          (available # <<>> =>
             tool.profile =
               CASE Defaulted(user) -> SelectAvailableProfile(available, user.default)
                 [] FoldedUser(user) -> SelectAvailableProfile(available, "teen_f")
                 [] OTHER -> ServerResolveProfile(user, available))
    BY DEF RuntimesChooseSameProfile, Defaulted, FoldedUser
  <2>5. ServerResolveProfile(user, available)
          = SelectAvailableProfile(available, ServerProfileFromUser(user))
    BY Zenon DEF ServerResolveProfile, ServerProfileFromUser
  <2>6. ~(Defaulted(user) /\ FoldedUser(user))
    BY DEF Defaulted, FoldedUser
  <2> HIDE DEF user, available
  <2> SUFFICES ASSUME available # <<>>
               PROVE  tool.profile =
                        CASE Defaulted(user) -> SelectAvailableProfile(available, user.default)
                          [] FoldedUser(user) -> SelectAvailableProfile(available, "teen_f")
                          [] OTHER -> ServerResolveProfile(user, available)
    BY <2>4
  <2>7. tool.profile = SelectAvailableProfile(available, PlayerProfileFromUser(user))
    BY <2>1, <2>3, SameSelection
  <2>8. CASE Defaulted(user)
    BY <2>1, <2>6, <2>7, <2>8, SamePreference
  <2>9. CASE FoldedUser(user)
    BY <2>1, <2>6, <2>7, <2>9, SamePreference
  <2>10. CASE ~Defaulted(user) /\ ~FoldedUser(user)
    BY <2>1, <2>5, <2>7, <2>10, SamePreference
  <2> QED BY <2>8, <2>9, <2>10
<1> QED BY <1>1, InvHolds, PTL

-----------------------------------------------------------------------------
(* What is in a whole file, its readers get. *)

LEMMA WholeFacts ==
    ASSUME NEW p \in Packages, NEW raw, raw = Bytes(p)
    PROVE  /\ Front(raw, p) /\ Len(raw) = FileLength(p) /\ Len(raw) >= FILE_HEADER_SIZE
           /\ At(raw, 0) = Header(p) /\ ActualIndexCount(raw) = Count(p)
           /\ Entries(raw, Count(p)) = Index(p) /\ HoldsManifest(raw)
           /\ \A i \in 1 .. Count(p) :
                 /\ InFile(raw, Offset(p, i), BlockLength(p.assets[i]))
                 /\ HoldsBlock(raw, IndexEntry(p, i))
                 /\ At(raw, Offset(p, i)) = BlockValue(p.assets[i])
<1>1. Front(raw, p) /\ Len(raw) = FileLength(p) /\ Len(raw) >= FILE_HEADER_SIZE
      /\ Len(raw) \in Nat
  BY WholeIsFront, BytesFacts, LengthFacts
<1>2. At(raw, 0) = Header(p) /\ ActualIndexCount(raw) = Count(p)
  BY <1>1, HeaderRead
<1>3. ManifestOffset(p) + M <= Len(raw) /\ ManifestOffset(p) <= Len(raw)
  <2>1. ManifestOffset(p) + M <= Len(raw) /\ ManifestOffset(p) \in Nat /\ M \in Nat
    BY <1>1, LengthFacts, OffsetFacts, SizeFacts
  <2> QED BY <1>1, <2>1
<1>4. Entries(raw, Count(p)) = Index(p)
  BY <1>1, <1>3, EntriesRead
<1>5. HoldsManifest(raw)
  <2>1. Decoded(raw, ManifestOffset(p), Manifest(p), M)
    BY <1>1, FrontDecoded
  <2>2. Holds(raw, ManifestOffset(p), M, "manifest")
    BY <1>3, <2>1, ValueFacts DEF Decoded
  <2> QED BY <1>2, <2>2, ValueFacts DEF HoldsManifest
<1>6. ASSUME NEW i \in 1 .. Count(p)
      PROVE  /\ InFile(raw, Offset(p, i), BlockLength(p.assets[i]))
             /\ HoldsBlock(raw, IndexEntry(p, i))
             /\ At(raw, Offset(p, i)) = BlockValue(p.assets[i])
  <2> DEFINE o == Offset(p, i)
             v == BlockValue(p.assets[i])
             len == BlockLength(p.assets[i])
             size == p.assets[i].media.size
  <2>1. Decoded(raw, o, v, B) /\ v.kind = "block" /\ IndexEntry(p, i).offset = o
    BY <1>1, FrontDecoded, ValueFacts
  <2>2. o + len <= Len(raw)
    BY <1>1, LengthFacts
  <2>3. o \in Nat /\ B \in Nat /\ B > 0 /\ size \in Nat /\ len = B + size
    BY OffsetFacts, SizeFacts, AssetFacts
  <2> HIDE DEF o, v, len, size
  <2>4. o + B <= Len(raw) /\ o + 1 <= Len(raw)
    BY <1>1, <2>2, <2>3
  <2>5. Holds(raw, o, B, "block") /\ At(raw, o) = v
    BY <2>1, <2>4 DEF Decoded
  <2>6. HoldsBlock(raw, IndexEntry(p, i))
    BY <2>1, <2>5 DEF HoldsBlock, B
  <2> QED BY <2>2, <2>5, <2>6 DEF InFile, o, v, len
<1> QED BY <1>1, <1>2, <1>4, <1>5, <1>6

\* No index entry of a whole file is reported.
LEMMA WholeHasNoEntryIssue ==
    ASSUME NEW p \in Packages, NEW raw, raw = Bytes(p), NEW i \in 1 .. Count(p)
    PROVE  EntryIssues(raw, IndexEntry(p, i)) = {}
<1> DEFINE e == IndexEntry(p, i)
           o == Offset(p, i)
           len == BlockLength(p.assets[i])
           size == p.assets[i].media.size
<1>1. /\ InFile(raw, o, len) /\ HoldsBlock(raw, e) /\ At(raw, o) = BlockValue(p.assets[i])
      /\ Len(raw) = FileLength(p) /\ FileLength(p) \in Nat
  BY WholeFacts, BytesFacts
<1>2. e.offset = o /\ e.length = len /\ e.id = p.assets[i].id
      /\ BlockValue(p.assets[i]).id = p.assets[i].id
  BY ValueFacts
<1>3. o \in Nat /\ B \in Nat /\ B > 0 /\ size \in Nat /\ len = B + size
  BY OffsetFacts, SizeFacts, AssetFacts
<1> HIDE DEF e, o, len, size
<1>4. ~(o + B > Len(raw)) /\ ~(len < B) /\ InFile(raw, o, len)
  BY <1>1, <1>3 DEF InFile
<1> QED BY <1>1, <1>2, <1>4 DEF EntryIssues, B, e

\* A whole file passes every reader's checks.
LEMMA WholeIsAccepted ==
    ASSUME NEW p \in Packages, NEW raw, raw = Bytes(p)
    PROVE  /\ PlayerAccepts(raw) /\ ReadBvfAccepts(raw) /\ BVFReaderAccepts(raw)
           /\ PayloadIssues(raw, raw) = {}
<1> DEFINE n == Count(p)
           h == At(raw, 0)
           index == Entries(raw, n)
<1>1. /\ Len(raw) = FileLength(p) /\ Len(raw) >= FILE_HEADER_SIZE
      /\ h = Header(p) /\ ActualIndexCount(raw) = n
      /\ index = Index(p) /\ HoldsManifest(raw)
      /\ \A i \in 1 .. n : /\ InFile(raw, Offset(p, i), BlockLength(p.assets[i]))
                           /\ HoldsBlock(raw, IndexEntry(p, i))
                           /\ At(raw, Offset(p, i)) = BlockValue(p.assets[i])
  BY WholeFacts
<1>2. /\ h.indexOffset = F /\ h.indexLength = n * I /\ h.manifestOffset = ManifestOffset(p)
      /\ h.manifestLength = M /\ h.count = n
      /\ \A i \in 1 .. n : /\ IndexEntry(p, i).id = p.assets[i].id
                           /\ IndexEntry(p, i).offset = Offset(p, i)
                           /\ IndexEntry(p, i).length = BlockLength(p.assets[i])
                           /\ BlockValue(p.assets[i]).id = p.assets[i].id
  BY <1>1, ValueFacts
<1>3. n \in Nat /\ DOMAIN index = 1 .. n /\ Len(index) = n
      /\ \A i \in 1 .. n : index[i] = IndexEntry(p, i)
  <2>1. n \in Nat
    BY AssetFacts
  <2>2. index \in Seq({IndexEntry(p, i) : i \in 1 .. n}) /\ DOMAIN index = 1 .. n
    BY <1>1, WholeFacts, EntriesRead DEF Index
  <2>3. Len(index) = n
    BY <2>1, <2>2, LenProperties
  <2> QED BY <1>1, <2>1, <2>2, <2>3 DEF Index
<1>4. InFile(raw, ManifestOffset(p), M) /\ InFile(raw, F, n * I)
  <2>1. /\ ManifestOffset(p) = F + n * I /\ ManifestOffset(p) \in Nat /\ M \in Nat
        /\ ManifestOffset(p) + M <= Len(raw) /\ Len(raw) \in Nat
    BY <1>1, OffsetFacts, SizeFacts, LengthFacts, BytesFacts
  <2>2. ManifestOffset(p) <= Len(raw)
    BY <2>1
  <2> QED BY <2>1, <2>2 DEF InFile
<1> HIDE DEF n, h, index
<1>5. PlayerAccepts(raw)
  BY <1>1, <1>2, <1>3 DEF PlayerAccepts, index, h
<1>6. ReadBvfAccepts(raw)
  <2>1. \A i \in DOMAIN index : HoldsBlock(raw, index[i])
    BY <1>1, <1>3
  <2>2. Entries(raw, h.count) = index
    BY <1>2 DEF index
  <2> QED BY <1>1, <1>2, <1>3, <1>4, <2>1, <2>2 DEF ReadBvfAccepts, h
<1>7. BVFReaderAccepts(raw)
  <2>1. \A i \in DOMAIN index : /\ At(raw, index[i].offset).id = index[i].id
                                /\ InFile(raw, index[i].offset, index[i].length)
    BY <1>1, <1>2, <1>3
  <2>2. Entries(raw, h.count) = index
    BY <1>2 DEF index
  <2> QED BY <1>2, <1>6, <2>1, <2>2 DEF BVFReaderAccepts, h, I
<1>8. PayloadIssues(raw, raw) = {}
  <2> DEFINE m == ActualIndexCount(raw)
             read == Entries(raw, m)
             entries == UNION {EntryIssues(raw, read[i]) : i \in DOMAIN read}
             count == {x \in {"segment_count"} : h.count # m}
             short == {x \in {"index entry"} : Len(read) < m}
             outside == {x \in {"manifest outside the file"} :
                            ~InFile(raw, h.manifestOffset, h.manifestLength)}
             unread == {x \in {"manifest"} : ~ReadBvfAccepts(raw)}
  <2>1. ~(Len(raw) < FILE_HEADER_SIZE)
    <3>1. Len(raw) \in Nat /\ FILE_HEADER_SIZE \in Nat
      BY <1>1, BytesFacts, SizeFacts DEF F
    <3> QED BY <1>1, <3>1
  <2>2. PayloadIssues(raw, raw) = entries \cup count \cup short \cup outside \cup unread
    BY <2>1, Zenon DEF PayloadIssues, h
  <2>3. m = n /\ read = index
    BY <1>1 DEF index
  <2>4. count = {} /\ short = {} /\ outside = {} /\ unread = {}
    <3>1. h.count = m /\ Len(read) = m /\ m \in Nat
      BY <1>2, <1>3, <2>3
    <3>2. InFile(raw, h.manifestOffset, h.manifestLength)
      BY <1>2, <1>4
    <3> HIDE DEF m, read
    <3>3. ~(Len(read) < m)
      BY <3>1
    <3> QED BY <1>6, <3>1, <3>2, <3>3
  <2>5. \A i \in DOMAIN read : EntryIssues(raw, read[i]) = {}
    BY <1>3, <2>3, WholeHasNoEntryIssue DEF n
  <2>6. entries = {}
    BY <2>5
  <2> HIDE DEF entries, count, short, outside, unread
  <2> QED BY <2>2, <2>4, <2>6
<1> QED BY <1>5, <1>6, <1>7, <1>8

\* No two assets of a package have the same id.
DistinctAssets ==
    \A package \in Packages : \A i, j \in DOMAIN package.assets :
        package.assets[i].id = package.assets[j].id => i = j

\* An id is found at its own entry, from the front and from the back.
LEMMA FoundAt ==
    ASSUME DistinctAssets, NEW p \in Packages, NEW i \in 1 .. Count(p), NEW id,
           id = p.assets[i].id
    PROVE  {j \in DOMAIN Index(p) : Index(p)[j].id = id} = {i}
<1>1. DOMAIN Index(p) = 1 .. Count(p) /\ DOMAIN p.assets = 1 .. Count(p)
  BY AssetFacts DEF Index
<1>2. \A j \in 1 .. Count(p) : Index(p)[j].id = p.assets[j].id
  BY ValueFacts DEF Index
<1>3. \A j \in 1 .. Count(p) : p.assets[j].id = p.assets[i].id => j = i
  BY <1>1 DEF DistinctAssets
<1> HIDE DEF Index
<1> QED BY <1>1, <1>2, <1>3

\* The least and the greatest number of one.
LEMMA LeastOfOne == ASSUME NEW i \in Nat PROVE Min({i}) = i /\ Max({i}) = i
<1>1. \A x \in {i} : (\A y \in {i} : x =< y) /\ (\A y \in {i} : x >= y)
  OBVIOUS
<1>2. i \in {i}
  OBVIOUS
<1>3. Min({i}) \in {i}
  BY <1>1, <1>2 DEF Min
<1>4. Max({i}) \in {i}
  BY <1>1, <1>2 DEF Max
<1> QED BY <1>3, <1>4

\* The payload that an entry of a whole file points at.
LEMMA PayloadFacts ==
    ASSUME NEW p \in Packages, NEW i \in 1 .. Count(p), NEW e, e = IndexEntry(p, i)
    PROVE  Slice(Bytes(p), e.offset + ASSET_BLOCK_HEADER_SIZE,
                 e.length - ASSET_BLOCK_HEADER_SIZE)
             = Encode(MediaValue(p.assets[i]), p.assets[i].media.size)
<1> DEFINE v == MediaValue(p.assets[i])
           size == p.assets[i].media.size
           o == Offset(p, i) + B
           b == Bytes(p)
<1>1. e.offset = Offset(p, i) /\ e.length = BlockLength(p.assets[i])
  BY ValueFacts
<1>2. size \in Nat /\ BlockLength(p.assets[i]) = B + size /\ B \in Nat /\ Offset(p, i) \in Nat
  BY AssetFacts, SizeFacts, OffsetFacts
<1>3. Encoded(b, o, v, size) /\ b \in Seq(Cells(p))
  BY BytesFacts
<1> HIDE DEF v, size, o, b
<1>4. o \in Nat /\ e.length - B = size /\ e.offset + B = o
  BY <1>1, <1>2 DEF o
<1>5. Slice(b, o, size) = Encode(v, size)
  BY <1>2, <1>3, <1>4, SliceEncoded
<1> QED BY <1>4, <1>5 DEF v, size, b, B

\* Extracting an asset by its id gives the cells of its media.
LEMMA ExtractFacts ==
    ASSUME DistinctAssets, NEW p \in Packages, NEW i \in 1 .. Count(p), NEW id,
           id = p.assets[i].id
    PROVE  Extract(Bytes(p), Index(p), id)
             = Encode(MediaValue(p.assets[i]), p.assets[i].media.size)
<1> DEFINE found == {j \in DOMAIN Index(p) : Index(p)[j].id = id}
           e == Index(p)[Min(found)]
<1>1. found = {i} /\ i \in Nat
  BY FoundAt, AssetFacts
<1>2. Min(found) = i
  BY <1>1, LeastOfOne
<1>3. e = IndexEntry(p, i)
  BY <1>2 DEF Index
<1>4. HoldsBlock(Bytes(p), e)
  BY <1>3, WholeFacts
<1>5. Extract(Bytes(p), Index(p), id) =
        IF found = {} \/ ~HoldsBlock(Bytes(p), e) THEN <<>>
        ELSE Slice(Bytes(p), e.offset + ASSET_BLOCK_HEADER_SIZE,
                   e.length - ASSET_BLOCK_HEADER_SIZE)
  BY Zenon DEF Extract
<1> HIDE DEF found, e
<1>6. found # {}
  BY <1>1
<1> QED BY <1>3, <1>4, <1>5, <1>6, PayloadFacts

\* What a muxer wrote to its end, every reader accepts, and gets back: the
\* manifest, the index and each asset's media, cell by cell
\* (CompletedFileReadsBack), for packages of any number of assets of any
\* sizes whose ids differ. Two assets of one id cannot be told apart by it.
THEOREM ReadsBackHolds ==
    ASSUME DistinctAssets PROVE Spec => []CompletedFileReadsBack
<1>1. ASSUME ContainerInv PROVE CompletedFileReadsBack
  <2> SUFFICES ASSUME whole # None PROVE CompletedFileReadsBack
    BY DEF CompletedFileReadsBack
  <2> DEFINE p == whole
             index == PlayerIndex(disk)
  <2>1. p \in Packages /\ disk = Bytes(p)
    BY <1>1 DEF ContainerInv, DiskInv
  <2>2. /\ PlayerAccepts(disk) /\ ReadBvfAccepts(disk) /\ BVFReaderAccepts(disk)
        /\ PayloadIssues(disk, disk) = {} /\ Front(disk, p)
    BY <2>1, WholeIsAccepted, WholeIsFront
  <2>3. index = Index(p) /\ ManifestIn(disk) = Manifest(p)
    BY <2>1, <2>2, PlayerRead
  <2>4. DOMAIN index = 1 .. Count(p) /\ Count(p) \in Nat
        /\ \A i \in 1 .. Count(p) : index[i].id = p.assets[i].id
    BY <2>1, <2>3, AssetFacts, ValueFacts DEF Index
  <2>5. Len(index) = Len(p.assets)
    <3>1. index \in Seq({IndexEntry(p, i) : i \in 1 .. Count(p)})
      BY <2>1, <2>3, WholeFacts, EntriesRead
    <3>2. Len(index) = Count(p)
      BY <2>4, <3>1, LenProperties
    <3> QED BY <3>2 DEF Count
  <2>6. ASSUME NEW i \in 1 .. Count(p)
        PROVE  LET asset == p.assets[i]
                   media == Extract(disk, index, asset.id)
               IN  /\ index[i].id = asset.id
                   /\ Len(media) = asset.media.size
                   /\ \A k \in DOMAIN media : media[k].val.id = asset.id /\ media[k].at = k
    <3> DEFINE asset == p.assets[i]
               media == Extract(disk, index, asset.id)
               v == MediaValue(asset)
               size == asset.media.size
    <3>1. media = Encode(v, size)
      BY <2>1, <2>3, ExtractFacts
    <3>2. size \in Nat /\ v.id = asset.id
      BY <2>1, AssetFacts, ValueFacts
    <3>3. v \in {v}
      OBVIOUS
    <3> HIDE DEF v, size, media
    <3>4. /\ media \in Seq([val : {v}, at : Nat]) /\ Len(media) = size
          /\ \A k \in 1 .. size : media[k] = [val |-> v, at |-> k]
      BY <3>1, <3>2, <3>3, EncodeFacts
    <3>5. DOMAIN media = 1 .. size
      BY <3>4, LenProperties
    <3>6. \A k \in DOMAIN media : media[k].val.id = asset.id /\ media[k].at = k
      BY <3>2, <3>4, <3>5
    <3> QED BY <2>4, <3>4, <3>6 DEF size, media
  <2> HIDE DEF index
  <2>7. \A i \in DOMAIN index :
          LET asset == p.assets[i]
              media == Extract(disk, index, asset.id)
          IN  /\ index[i].id = asset.id
              /\ Len(media) = asset.media.size
              /\ \A k \in DOMAIN media : media[k].val.id = asset.id /\ media[k].at = k
    BY <2>4, <2>6
  <2> QED BY <2>2, <2>3, <2>5, <2>7 DEF CompletedFileReadsBack, index
<1> QED BY <1>1, InvHolds, PTL

-----------------------------------------------------------------------------
(* What a valid verdict says of the file. *)

\* The segments of q are what the index lists, and its actions can be played.
FitFor(q, ids) ==
    /\ ids = {q.segments[i].id : i \in DOMAIN q.segments}
    /\ \A s \in Range(q.segments) : \A r \in DOMAIN s.profiles :
          ActionIssues(s.profiles[r], ids) = {}

\* The ids in the index of a package are those of its segments.
LEMMA IndexedIds ==
    ASSUME NEW q \in Packages
    PROVE  IdsOf(Index(q)) = {q.segments[i].id : i \in DOMAIN q.segments}
<1> DEFINE n == Count(q)
<1>1. n \in Nat /\ DOMAIN q.assets = 1 .. n /\ DOMAIN Index(q) = 1 .. n
      /\ \A i \in 1 .. n : Index(q)[i].id = q.assets[i].id
  BY AssetFacts, ValueFacts DEF Index
<1>2. DOMAIN q.segments = 1 .. n
  <2>1. q.segments \in Seq(ManifestSegment) /\ Len(q.segments) = Len(q.assets)
    BY PackagesAssumption
  <2> QED BY <2>1, LenProperties DEF Count
<1>3. \A i \in DOMAIN q.assets : q.segments[i].id = q.assets[i].id
  BY PackagesAssumption
<1> HIDE DEF n, Index
<1> QED BY <1>1, <1>2, <1>3 DEF IdsOf

\* Nothing was found wrong: the payload is whole, and the manifest is one that
\* a muxer wrote, with the actions and targets in order.
LEMMA NoIssue ==
    ASSUME NEW p \in Packages, NEW q \in Packages,
           NEW raw, Front(raw, p), NEW again, Front(again, q),
           NEW asked, ProbeIssues(raw, again, asked) = {}
    PROVE  /\ raw = Bytes(p) /\ ReadBvfAccepts(again) /\ ManifestIn(again) = Manifest(q)
           /\ PlayerIndex(raw) = Index(p) /\ Entries(raw, ActualIndexCount(raw)) = Index(p)
           /\ FitFor(q, IdsOf(Index(q))) /\ MediaIssues(raw, Index(p)) = {}
<1> DEFINE structural == PayloadIssues(raw, again)
           index == Entries(raw, ActualIndexCount(raw))
           manifest == ManifestIn(again)
           parsed == ParsedIssues(index, manifest, asked)
           media == MediaIssues(raw, index)
           segments == Manifest(q).segments
           ids == {segments[i].id : i \in DOMAIN segments}
<1>1. structural = {} /\ parsed = {} /\ media = {}
  <2>1. ProbeIssues(raw, again, asked) =
          IF structural # {} THEN structural ELSE parsed \cup media
    BY DEF ProbeIssues
  <2> HIDE DEF structural, parsed, media
  <2> QED BY <2>1
<1>2. raw = Bytes(p) /\ ReadBvfAccepts(again) /\ index = Index(p)
  BY <1>1, NoPayloadIssue
<1>3. manifest = Manifest(q)
  <2>1. Len(again) >= FILE_HEADER_SIZE /\ HoldsManifest(again)
    BY <1>2 DEF ReadBvfAccepts
  <2> QED BY <2>1, ManifestRead
<1>4. PlayerIndex(raw) = Index(p)
  BY <1>2, WholeIsAccepted, PlayerRead
<1>5. parsed = ParsedIssues(Index(p), Manifest(q), asked) /\ segments = q.segments
  BY <1>2, <1>3, ValueFacts
<1> HIDE DEF parsed, segments
<1> DEFINE counted == {x \in {"segment count"} : Len(segments) # Len(Index(p))}
           named == {x \in {"profile"} : asked # None /\ asked \notin Range(Manifest(q).profiles)}
           indexed == {x \in {"index segment_id"} : ~(IdsOf(Index(p)) \subseteq ids)}
           acts(s) == UNION {ActionIssues(s.profiles[r], ids) : r \in DOMAIN s.profiles}
           acted == UNION {acts(s) : s \in Range(segments)}
<1>6. parsed = counted \cup named \cup indexed \cup acted
  <2>1. ParsedIssues(Index(p), Manifest(q), asked) =
          IF segments = <<>> THEN {"no segments"}
          ELSE counted \cup named \cup indexed \cup acted
    BY Zenon DEF ParsedIssues, segments
  <2> HIDE DEF counted, named, indexed, acted
  <2> QED BY <1>1, <1>5, <2>1
<1>7. acted = {}
  <2> HIDE DEF counted, named, indexed, acted
  <2> QED BY <1>1, <1>6
<1>8. \A s \in Range(segments) : \A r \in DOMAIN s.profiles :
         ActionIssues(s.profiles[r], ids) = {}
  <2>1. \A s \in Range(segments) : acts(s) = {}
    <3> HIDE DEF acts
    <3> QED BY <1>7
  <2> SUFFICES ASSUME NEW s \in Range(segments), NEW r \in DOMAIN s.profiles
               PROVE  ActionIssues(s.profiles[r], ids) = {}
    OBVIOUS
  <2>2. acts(s) = {}
    BY <2>1
  <2> HIDE DEF ids
  <2> QED BY <2>2
<1>9. ids = IdsOf(Index(q))
  BY <1>5, IndexedIds
<1>10. FitFor(q, IdsOf(Index(q)))
  BY <1>5, <1>8, <1>9 DEF FitFor
<1>11. media = MediaIssues(raw, Index(p))
  BY <1>2
<1> QED BY <1>1, <1>2, <1>3, <1>4, <1>10, <1>11

\* Nothing was found wrong with the media: no payload is empty, and each lasts
\* as long as the index says, within the tolerance.
LEMMA NoMediaIssue ==
    ASSUME NEW p \in Packages, MediaIssues(Bytes(p), Index(p)) = {}, NEW i \in 1 .. Count(p)
    PROVE  /\ p.assets[i].media.size > 0
           /\ Distance(p.assets[i].media.duration, p.assets[i].duration) <= Tolerance
<1> DEFINE raw == Bytes(p)
           x == Index(p)
           payload(e) == Slice(raw, e.offset + ASSET_BLOCK_HEADER_SIZE,
                               e.length - ASSET_BLOCK_HEADER_SIZE)
           media(e) == payload(e)[1].val.media
           matches(e) == Distance(media(e).duration, e.duration) <= Tolerance
           issues(e) == IF payload(e) = <<>> THEN {"ffprobe"}
                        ELSE {x1 \in {"no video"} : ~media(e).video}
                               \cup {x1 \in {"keyframe"} :
                                        media(e).video /\ ~(media(e).keyframe /\ matches(e))}
                               \cup {x1 \in {"duration mismatch"} : ~matches(e)}
           e == x[i]
           a == p.assets[i]
           v == MediaValue(a)
<1>1. UNION {issues(x[j]) : j \in DOMAIN x} = {}
  BY DEF MediaIssues
<1>2. e = IndexEntry(p, i) /\ i \in DOMAIN x
  BY DEF Index
<1>3. issues(e) = {}
  <2> HIDE DEF issues, e
  <2>1. issues(x[i]) = {}
    <3> HIDE DEF x
    <3> QED BY <1>1, <1>2
  <2> QED BY <2>1 DEF e
<1>4. payload(e) = Encode(v, a.media.size)
  BY <1>2, PayloadFacts
<1>5. a.media.size \in Nat /\ v.media = a.media /\ e.duration = a.duration
  BY <1>2, AssetFacts, ValueFacts
<1>6. payload(e) # <<>> /\ matches(e)
  <2> HIDE DEF payload, matches, media
  <2>1. payload(e) # <<>>
    BY <1>3
  <2>2. {x1 \in {"duration mismatch"} : ~matches(e)} = {}
    BY <1>3, <2>1
  <2> QED BY <2>1, <2>2
<1>7. v \in {v}
  OBVIOUS
<1> HIDE DEF v
<1>8. /\ Encode(v, a.media.size) \in Seq([val : {v}, at : Nat])
      /\ Len(Encode(v, a.media.size)) = a.media.size
      /\ \A k \in 1 .. a.media.size : Encode(v, a.media.size)[k] = [val |-> v, at |-> k]
  BY <1>5, <1>7, EncodeFacts
<1>9. a.media.size > 0
  <2>1. a.media.size # 0
    <3> HIDE DEF payload, a
    <3> QED BY <1>4, <1>6, <1>8, EmptySeq
  <2> QED BY <1>5, <2>1
<1>10. media(e) = a.media
  <2>1. 1 \in 1 .. a.media.size
    BY <1>5, <1>9
  <2>2. Encode(v, a.media.size)[1].val = v
    <3> DEFINE cells == Encode(v, a.media.size)
    <3> HIDE DEF cells
    <3>1. cells[1] = [val |-> v, at |-> 1]
      BY <1>8, <2>1 DEF cells
    <3>2. cells[1].val = v
      BY <3>1
    <3> QED BY <3>2 DEF cells
  <2>3. payload(e)[1].val = v
    <3> HIDE DEF payload
    <3> QED BY <1>4, <2>2
  <2> QED BY <1>5, <2>3
<1> QED BY <1>5, <1>6, <1>9, <1>10

-----------------------------------------------------------------------------
(* What is played of a valid file. *)

\* When the segments in P become entries and the others are omitted, the
\* playlist has the narrative segments in P.
LEMMA PlayedEntries ==
    ASSUME NEW segments \in Seq(ManifestSegment), NEW decision, NEW P,
           \A s \in Range(segments) : decision[s].kind = IF s \in P THEN "entry" ELSE "omit"
    PROVE  /\ ~Playlist(segments, decision).failed
           /\ Playlist(segments, decision).entries
                = Each(Where(segments, {s \in Range(segments) : ~s.filler /\ s \in P}), decision)
<1> DEFINE S == Range(segments)
           narrative == {s \in S : ~s.filler}
           kept == Where(segments, narrative)
           decided == Each(kept, decision)
           Q == {d \in Range(decided) : d.kind = "entry"}
           N == {s \in S : ~s.filler /\ s \in P}
           R == {s \in S : decision[s] \in Q}
<1>1. segments \in Seq(S)
  <2>1. Len(segments) \in Nat /\ DOMAIN segments = 1 .. Len(segments)
        /\ segments = [i \in 1 .. Len(segments) |-> segments[i]]
    BY LenProperties
  <2>2. \A i \in 1 .. Len(segments) : segments[i] \in S
    BY <2>1 DEF Range
  <2> HIDE DEF S
  <2>3. segments \in [1 .. Len(segments) -> S]
    BY <2>1, <2>2
  <2> QED BY <2>1, <2>3, SeqDef
<1>2. /\ Playlist(segments, decision).failed = (\E d \in Range(decided) : d.kind = "fail")
      /\ Playlist(segments, decision).entries = Where(decided, Q)
  BY DEF Playlist
<1> HIDE DEF S
<1>4. kept \in Seq(S)
  <2> HIDE DEF narrative
  <2> QED BY <1>1, WhereType
<1>5. Range(kept) = S \cap narrative
  <2> HIDE DEF narrative
  <2> QED BY <1>1, WhereRange DEF S
<1>6. Range(decided) = {decision[s] : s \in Range(kept)}
  <2> HIDE DEF kept
  <2> QED BY <1>4, EachRange
<1>7. Range(decided) = {decision[s] : s \in narrative}
  BY <1>5, <1>6
<1> HIDE DEF kept
<1>8. ~\E d \in Range(decided) : d.kind = "fail"
  <2>1. \A s \in narrative : decision[s].kind # "fail"
    BY DEF S
  <2> QED BY <1>7, <2>1
<1>9. Where(decided, Q) = Each(Where(kept, R), decision)
  <2> HIDE DEF Q
  <2> QED BY <1>4, WhereEach
<1>10. \A s \in S : s \in narrative \cap R <=> s \in N
  <2> SUFFICES ASSUME NEW s \in S PROVE s \in narrative \cap R <=> s \in N
    OBVIOUS
  <2>1. decision[s].kind = IF s \in P THEN "entry" ELSE "omit"
    BY DEF S
  <2>2. CASE s.filler
    BY <2>2
  <2>3. CASE ~s.filler
    <3>1. s \in narrative /\ decision[s] \in Range(decided)
      BY <1>7, <2>3
    <3>2. s \in R <=> decision[s].kind = "entry"
      BY <3>1
    <3>3. s \in N <=> s \in P
      BY <2>3
    <3> HIDE DEF R, N, narrative
    <3> QED BY <2>1, <3>1, <3>2, <3>3
  <2> QED BY <2>2, <2>3
<1>11. Where(kept, R) = Where(segments, N)
  <2> HIDE DEF narrative, R, N
  <2>1. Where(kept, R) = Where(segments, narrative \cap R)
    BY <1>1, WhereTwice DEF kept
  <2>2. Where(segments, narrative \cap R) = Where(segments, N)
    <3> DEFINE U == narrative \cap R
    <3>1. \A s \in Range(segments) : s \in U <=> s \in N
      BY <1>10 DEF S
    <3> HIDE DEF U
    <3>2. Where(segments, U) = Where(segments, N)
      BY <1>1, <3>1, WhereSame
    <3> QED BY <3>2 DEF U
  <2> QED BY <2>1, <2>2
<1>12. Where(segments, N) = Where(segments, {s \in Range(segments) : ~s.filler /\ s \in P})
  BY DEF S
<1> HIDE DEF decided, Q, N, R
<1> QED BY <1>2, <1>8, <1>9, <1>11, <1>12

\* The segments of q that a profile shows and whose target is among the ids.
Found(q, ids, profile) ==
    Where(Shown(q.segments, profile),
          {s \in Range(q.segments) : Baked(s, profile).target \in ids})

\* What a profile that fits says of a segment: an action that can be played,
\* and a swap to what is there.
LEMMA BakedFits ==
    ASSUME NEW q \in Packages, NEW ids, FitFor(q, ids), NEW profile, NEW s \in Range(q.segments)
    PROVE  /\ Baked(s, profile).action \in RuntimeSupportedActions
           /\ Baked(s, profile).action = "swap" => Baked(s, profile).target \in ids
<1> DEFINE b == Baked(s, profile)
<1>1. CASE profile \in DOMAIN s.profiles
  <2>1. ActionIssues(b, ids) = {}
    <3>1. b = s.profiles[profile]
      BY <1>1 DEF Baked
    <3> QED BY <1>1, <3>1 DEF FitFor
  <2> HIDE DEF b
  <2>2. b.action \in RuntimeSupportedActions /\ (b.action = "swap" => b.target \in ids)
    BY <2>1 DEF ActionIssues
  <2> QED BY <2>2 DEF b
<1>2. CASE profile \notin DOMAIN s.profiles
  <2>1. b = [action |-> "play", target |-> s.id]
    BY <1>2 DEF Baked
  <2> QED BY <2>1 DEF RuntimeSupportedActions
<1> QED BY <1>1, <1>2

\* The player's sequence of a manifest that fits: an entry for each segment
\* that is shown and found.
LEMMA ValidSequence ==
    ASSUME NEW q \in Packages, NEW index, NEW ids, ids = IdsOf(index),
           FitFor(q, ids), NEW profile
    PROVE  LET played == PlayerSequence(index, Manifest(q), profile)
               sent == Found(q, ids, profile)
           IN  /\ ~played.failed /\ DOMAIN played.entries = DOMAIN sent
               /\ sent \in Seq(ManifestSegment) /\ Len(played.entries) = Len(sent)
               /\ \A i \in DOMAIN sent :
                     /\ played.entries[i].source = sent[i].id
                     /\ played.entries[i].target = Baked(sent[i], profile).target
                     /\ Baked(sent[i], profile).target \in ids
<1> DEFINE segments == q.segments
           S == Range(segments)
           decision == [s \in S |-> Player(s, ids, profile)]
           baked(s) == Baked(s, profile)
           played == PlayerSequence(index, Manifest(q), profile)
           P == {s \in S : baked(s).action # "skip" /\ baked(s).target \in ids}
           N == {s \in S : ~s.filler /\ s \in P}
           shows == {s \in S : ~s.filler /\ baked(s).action # "skip"}
           finds == {s \in S : baked(s).target \in ids}
           sent == Found(q, ids, profile)
<1>1. segments \in Seq(ManifestSegment)
  BY PackagesAssumption
<1>2. played = Playlist(segments, decision)
  <2>1. Manifest(q).segments = segments
    BY ValueFacts
  <2> QED BY <2>1 DEF PlayerSequence
<1>3. ASSUME NEW s \in S
      PROVE  IF s \in P
             THEN /\ decision[s].kind = "entry" /\ decision[s].target = baked(s).target
                  /\ decision[s].source = s.id
             ELSE decision[s].kind = "omit"
  <2> DEFINE b == baked(s)
  <2>1. b.action \in RuntimeSupportedActions
    BY BakedFits
  <2>2. decision[s] = Decision(s, b.action, b.target, ids, Omit)
    BY DEF Player
  <2>3. s \in P <=> b.action # "skip" /\ b.target \in ids
    OBVIOUS
  <2> HIDE DEF b, decision, P
  <2>4. CASE s \in P
    <3>1. decision[s] = Entry(s, b.target, b.action)
      BY <2>1, <2>2, <2>3, <2>4 DEF Decision
    <3> QED BY <2>4, <3>1 DEF Entry, b
  <2>5. CASE s \notin P
    <3>1. decision[s] = Omit
      BY <2>1, <2>2, <2>3, <2>5 DEF Decision
    <3> QED BY <2>5, <3>1 DEF Omit
  <2> QED BY <2>4, <2>5
<1>4. sent = Where(segments, N)
  <2>1. sent = Where(Where(segments, shows), finds)
    BY DEF Found, Shown
  <2>2. Where(Where(segments, shows), finds) = Where(segments, shows \cap finds)
    <3> HIDE DEF shows, finds
    <3> QED BY <1>1, WhereTwice
  <2>3. shows \cap finds = N
    OBVIOUS
  <2> QED BY <2>1, <2>2, <2>3
<1> HIDE DEF segments, decision, baked, played, sent, P
<1>5. ~played.failed /\ played.entries = Each(sent, decision)
  <2>1. \A s \in Range(segments) : decision[s].kind = IF s \in P THEN "entry" ELSE "omit"
    BY <1>3
  <2> QED BY <1>1, <1>2, <1>4, <2>1, PlayedEntries
<1>6. sent \in Seq(ManifestSegment) /\ Range(sent) = S \cap N
  <2> HIDE DEF N
  <2> QED BY <1>1, <1>4, WhereType, WhereRange
<1>7. \A i \in DOMAIN sent : sent[i] \in S /\ sent[i] \in P
  <2>1. \A i \in DOMAIN sent : sent[i] \in Range(sent)
    BY DEF Range
  <2> QED BY <1>6, <2>1
<1>8. /\ DOMAIN sent = 1 .. Len(sent) /\ Len(Each(sent, decision)) = Len(sent)
      /\ DOMAIN Each(sent, decision) = DOMAIN sent
      /\ \A i \in DOMAIN sent : Each(sent, decision)[i] = decision[sent[i]]
  <2>1. DOMAIN sent = 1 .. Len(sent)
    BY <1>6, LenProperties
  <2>2. Len(Each(sent, decision)) = Len(sent)
    BY <1>6, EachType
  <2> QED BY <2>1, <2>2 DEF Each
<1>9. ASSUME NEW i \in DOMAIN sent
      PROVE  /\ played.entries[i].source = sent[i].id
             /\ played.entries[i].target = Baked(sent[i], profile).target
             /\ Baked(sent[i], profile).target \in ids
  <2> DEFINE s == sent[i]
  <2>1. s \in S /\ s \in P /\ played.entries[i] = decision[s]
    BY <1>5, <1>7, <1>8
  <2> HIDE DEF s
  <2>2. decision[s].target = baked(s).target /\ decision[s].source = s.id
    BY <1>3, <2>1
  <2>3. baked(s).target \in ids
    BY <2>1 DEF P
  <2> QED BY <2>1, <2>2, <2>3 DEF s, baked
<1> QED BY <1>5, <1>6, <1>8, <1>9 DEF played, sent

\* Media that is in order is extracted, also when its id occurs twice.
LEMMA ValidPayload ==
    ASSUME NEW p \in Packages, MediaIssues(Bytes(p), Index(p)) = {}, NEW id \in IdsOf(Index(p))
    PROVE  Extract(Bytes(p), Index(p), id) # <<>>
<1> DEFINE x == Index(p)
           found == {j \in DOMAIN x : x[j].id = id}
           i == Min(found)
           e == x[i]
           size == p.assets[i].media.size
           v == MediaValue(p.assets[i])
<1>1. found # {} /\ found \in SUBSET (1 .. Count(p)) /\ Count(p) \in Nat
  <2>1. DOMAIN x = 1 .. Count(p) /\ Count(p) \in Nat
    BY AssetFacts DEF Index
  <2> HIDE DEF x
  <2> QED BY <2>1 DEF IdsOf, x
<1>2. i \in 1 .. Count(p)
  <2> HIDE DEF found
  <2> QED BY <1>1, MinOfSome
<1>3. e = IndexEntry(p, i)
  BY <1>2 DEF Index
<1>4. HoldsBlock(Bytes(p), e) /\ size \in Nat /\ size > 0
  BY <1>2, <1>3, WholeFacts, AssetFacts, NoMediaIssue
<1>5. Extract(Bytes(p), x, id) =
        IF found = {} \/ ~HoldsBlock(Bytes(p), e) THEN <<>>
        ELSE Slice(Bytes(p), e.offset + ASSET_BLOCK_HEADER_SIZE,
                   e.length - ASSET_BLOCK_HEADER_SIZE)
  BY Zenon DEF Extract
<1> HIDE DEF found, i, e, x
<1>6. Extract(Bytes(p), x, id) = Encode(v, size)
  BY <1>1, <1>2, <1>3, <1>4, <1>5, PayloadFacts
<1>7. v \in {v}
  OBVIOUS
<1> HIDE DEF v, size
<1>8. Encode(v, size) \in Seq([val : {v}, at : Nat]) /\ Len(Encode(v, size)) = size
  BY <1>4, <1>7, EncodeFacts
<1>9. Encode(v, size) # <<>>
  BY <1>4, <1>8, EmptySeq
<1> QED BY <1>6, <1>9 DEF x

\* An asset whose media is in order is extracted, and lasts as the index says.
LEMMA ValidMedia ==
    ASSUME DistinctAssets, NEW p \in Packages, MediaIssues(Bytes(p), Index(p)) = {},
           NEW id \in IdsOf(Index(p))
    PROVE  /\ Extract(Bytes(p), Index(p), id) # <<>>
           /\ Extract(Bytes(p), Index(p), id)[1].val.media.duration \in Nat
           /\ Distance(Extract(Bytes(p), Index(p), id)[1].val.media.duration,
                       IndexedDuration(Index(p), id)) <= Tolerance
<1> DEFINE x == Index(p)
<1>1. DOMAIN x = 1 .. Count(p) /\ \A i \in 1 .. Count(p) : x[i].id = p.assets[i].id
  BY ValueFacts DEF Index
<1>2. PICK i \in 1 .. Count(p) : id = p.assets[i].id
  <2> HIDE DEF x
  <2>1. id \in IdsOf(x)
    BY DEF x
  <2> QED BY <1>1, <2>1 DEF IdsOf
<1> DEFINE a == p.assets[i]
           v == MediaValue(a)
           size == a.media.size
           cells == Extract(Bytes(p), Index(p), id)
<1>3. size \in Nat /\ size > 0 /\ a.media.duration \in Nat /\ v.media = a.media
      /\ Distance(a.media.duration, a.duration) <= Tolerance
  BY AssetFacts, NoMediaIssue, ValueFacts
<1>4. cells = Encode(v, size)
  BY <1>2, ExtractFacts
<1>5. v \in {v}
  OBVIOUS
<1> HIDE DEF v, size, cells
<1>6. cells \in Seq([val : {v}, at : Nat]) /\ Len(cells) = size
      /\ \A k \in 1 .. size : cells[k] = [val |-> v, at |-> k]
  BY <1>3, <1>4, <1>5, EncodeFacts
<1>7. cells # <<>>
  BY <1>3, <1>6, EmptySeq
<1>8. cells[1].val.media = a.media
  <2>1. 1 \in 1 .. size
    BY <1>3
  <2>2. cells[1].val = v
    BY <1>6, <2>1
  <2> QED BY <1>3, <2>2
<1>9. IndexedDuration(x, id) = a.duration
  <2> DEFINE found == {j \in DOMAIN x : x[j].id = id}
  <2>1. found = {i} /\ i \in Nat
    BY <1>2, FoundAt, AssetFacts
  <2>2. Max(found) = i /\ found # {}
    BY <2>1, LeastOfOne
  <2>3. IndexedDuration(x, id) = IF found = {} THEN 0 ELSE x[Max(found)].duration
    BY DEF IndexedDuration
  <2>4. x[i].duration = a.duration
    BY ValueFacts DEF Index
  <2> HIDE DEF found, x, a
  <2> QED BY <2>2, <2>3, <2>4
<1> QED BY <1>3, <1>7, <1>8, <1>9 DEF cells

\* Nothing is left out of an export of a valid file.
LEMMA ValidExtracted ==
    ASSUME NEW p \in Packages, MediaIssues(Bytes(p), Index(p)) = {},
           NEW entries, NEW n \in Nat, DOMAIN entries = 1 .. n,
           \A i \in 1 .. n : entries[i].target \in IdsOf(Index(p))
    PROVE  /\ Extracted(Bytes(p), Index(p), entries)
                = [i \in 1 .. n |-> Extract(Bytes(p), Index(p), entries[i].target)]
           /\ Len(Extracted(Bytes(p), Index(p), entries)) = n
<1> DEFINE cut(id) == Extract(Bytes(p), Index(p), id)
           media == [i \in 1 .. n |-> cut(entries[i].target)]
           S == Range(media)
           P == S \ {<<>>}
<1>1. Extracted(Bytes(p), Index(p), entries) = Where(media, P)
  BY DEF Extracted
<1>2. ASSUME NEW i \in 1 .. n PROVE media[i] # <<>>
  BY ValidPayload
<1> HIDE DEF cut
<1>3. DOMAIN media = 1 .. n /\ media = [i \in 1 .. n |-> media[i]]
  OBVIOUS
<1> HIDE DEF media
<1>4. \A i \in 1 .. n : media[i] \in S
  BY <1>3 DEF Range
<1>5. \A e \in Range(media) : e \in P <=> e \in S
  BY <1>2, <1>3 DEF Range
<1> HIDE DEF S, P
<1>6. media \in Seq(S) /\ Len(media) = n
  <2>1. media \in [1 .. n -> S]
    BY <1>3, <1>4
  <2>2. media \in Seq(S)
    BY <2>1, SeqDef
  <2> QED BY <1>3, <2>2, LenProperties
<1>7. Where(media, P) = Where(media, S) /\ Where(media, S) = media
  BY <1>5, <1>6, WhereSame, WhereAll
<1> QED BY <1>1, <1>6, <1>7 DEF media, cut

\* What bvf_probe.py finds valid is opened by the player and plays for every
\* profile of the manifest (ValidVerdictIsPlayable), in the file that the second
\* read found, whatever muxer runs come between the two reads: no action that
\* the player does not know, no swap into nothing, and what is left out are
\* plays of ids that nothing has. If both reads found the same file, the media
\* of every entry is extracted. Ids may occur twice.
THEOREM PlayableHolds == Spec => []ValidVerdictIsPlayable
<1>1. ASSUME ContainerInv PROVE ValidVerdictIsPlayable
  <2> DEFINE raw == tool.again
             index == PlayerIndex(raw)
             manifest == ManifestIn(raw)
             played(r) == PlayerSequence(index, manifest, r)
             sources(r) == {entry.source : entry \in Range(played(r).entries)}
  <2> SUFFICES ASSUME ProbedValid PROVE ValidVerdictIsPlayable
    BY DEF ValidVerdictIsPlayable
  <2>1. tool.kind = "probe" /\ tool.pc = "done" /\ tool.valid
    BY DEF ProbedValid, Is
  <2>2. OfMuxer(tool.raw) /\ OfMuxer(tool.again) /\ Verdict(tool)
    BY <1>1, <2>1 DEF ContainerInv, ProbeInv
  <2>3. PICK p \in Packages : Front(tool.raw, p)
    BY <2>2 DEF OfMuxer
  <2>4. PICK q \in Packages : Front(tool.again, q)
    BY <2>2 DEF OfMuxer
  <2>5. PICK asked : ProbeIssues(tool.raw, tool.again, asked) = {}
    BY <2>2 DEF Verdict
  <2> DEFINE ids == IdsOf(Index(q))
  <2>6. ReadBvfAccepts(raw) /\ manifest = Manifest(q) /\ FitFor(q, ids)
    <3> DEFINE first == tool.raw
    <3> HIDE DEF first, raw
    <3>1. Front(first, p) /\ Front(raw, q) /\ ProbeIssues(first, raw, asked) = {}
      BY <2>3, <2>4, <2>5 DEF first, raw
    <3> QED BY <3>1, NoIssue
  <2>7. PlayerAccepts(raw) /\ index = Index(q)
    <3>1. PlayerAccepts(raw)
      BY <2>6 DEF ReadBvfAccepts, PlayerAccepts
    <3> QED BY <2>4, <3>1, PlayerRead
  <2>8. raw = tool.raw => raw = Bytes(q) /\ MediaIssues(Bytes(q), Index(q)) = {}
    <3> SUFFICES ASSUME raw = tool.raw
                 PROVE  raw = Bytes(q) /\ MediaIssues(Bytes(q), Index(q)) = {}
      OBVIOUS
    <3>1. Front(raw, q) /\ ProbeIssues(raw, raw, asked) = {}
      BY <2>4, <2>5
    <3> HIDE DEF raw
    <3>2. raw = Bytes(q) /\ MediaIssues(raw, Index(q)) = {}
      BY <3>1, NoIssue
    <3> QED BY <3>2
  <2>9. manifest.segments = q.segments
    BY <2>6, ValueFacts
  <2> HIDE DEF raw
  <2>10. ASSUME NEW r \in Range(manifest.profiles)
         PROVE  /\ ~played(r).failed
                /\ \A s \in Range(Shown(manifest.segments, r)) :
                      \/ s.id \in sources(r)
                      \/ /\ Baked(s, r).action = "play"
                         /\ Baked(s, r).target \notin IdsOf(index)
                /\ raw = tool.raw =>
                      Len(Extracted(raw, index, played(r).entries)) = Len(played(r).entries)
    <3> DEFINE entries == played(r).entries
               sent == Found(q, ids, r)
               n == Len(sent)
               shown == Shown(q.segments, r)
               P == {s \in Range(q.segments) : ~s.filler /\ Baked(s, r).action # "skip"}
               T == {s \in Range(q.segments) : Baked(s, r).target \in ids}
    <3>1. played(r) = PlayerSequence(Index(q), Manifest(q), r)
      BY <2>6, <2>7
    <3>2. /\ ~played(r).failed /\ DOMAIN entries = DOMAIN sent
          /\ sent \in Seq(ManifestSegment) /\ Len(entries) = n
          /\ \A i \in DOMAIN sent : entries[i].source = sent[i].id /\ entries[i].target \in ids
      <4> HIDE DEF ids, played
      <4>1. ids = IdsOf(Index(q))
        BY DEF ids
      <4> QED BY <2>6, <3>1, <4>1, ValidSequence
    <3>3. n \in Nat /\ DOMAIN sent = 1 .. n
      BY <3>2, LenProperties
    <3>4. q.segments \in Seq(ManifestSegment)
      BY PackagesAssumption
    <3>5. shown \in Seq(ManifestSegment) /\ Range(shown) = Range(q.segments) \cap P
      <4>1. shown = Where(q.segments, P)
        BY DEF Shown
      <4> HIDE DEF P
      <4> QED BY <3>4, <4>1, WhereType, WhereRange
    <3>6. Range(sent) = Range(shown) \cap T
      <4>1. sent = Where(shown, T)
        BY DEF Found
      <4> HIDE DEF T, shown
      <4> QED BY <3>5, <4>1, WhereRange
    <3>7. ASSUME NEW s \in Range(shown)
          PROVE  \/ s.id \in sources(r)
                 \/ Baked(s, r).action = "play" /\ Baked(s, r).target \notin ids
      <4>1. s \in Range(q.segments) /\ Baked(s, r).action # "skip"
        BY <3>5
      <4>2. CASE s \in T
        <5>1. PICK i \in DOMAIN sent : sent[i] = s
          <6>1. s \in Range(sent)
            BY <3>6, <4>2
          <6> HIDE DEF sent
          <6> QED BY <6>1 DEF Range
        <5>2. entries[i].source = s.id /\ i \in DOMAIN entries
          BY <3>2, <5>1
        <5>3. entries[i] \in Range(entries)
          <6> HIDE DEF entries
          <6> QED BY <5>2 DEF Range
        <5> HIDE DEF played
        <5> QED BY <5>2, <5>3
      <4>3. CASE s \notin T
        <5>1. Baked(s, r).target \notin ids
          BY <4>1, <4>3
        <5>2. /\ Baked(s, r).action \in RuntimeSupportedActions
              /\ Baked(s, r).action = "swap" => Baked(s, r).target \in ids
          <6> HIDE DEF ids
          <6> QED BY <2>6, <4>1, BakedFits
        <5> HIDE DEF ids
        <5> QED BY <4>1, <5>1, <5>2 DEF RuntimeSupportedActions
      <4> QED BY <4>2, <4>3
    <3>8. raw = tool.raw => Len(Extracted(raw, index, entries)) = Len(entries)
      <4> SUFFICES ASSUME raw = tool.raw PROVE Len(Extracted(raw, index, entries)) = n
        BY <3>2
      <4>1. /\ DOMAIN entries = 1 .. n
            /\ \A i \in 1 .. n : entries[i].target \in IdsOf(Index(q))
        BY <3>2, <3>3
      <4>2. raw = Bytes(q) /\ MediaIssues(Bytes(q), Index(q)) = {} /\ n \in Nat
        BY <2>8, <3>3
      <4> HIDE DEF entries, n
      <4>3. Len(Extracted(Bytes(q), Index(q), entries)) = n
        BY <4>1, <4>2, ValidExtracted
      <4> QED BY <2>7, <4>2, <4>3
    <3> HIDE DEF played, sources, manifest, index
    <3> QED BY <2>7, <2>9, <3>2, <3>7, <3>8
  <2> HIDE DEF index, manifest
  <2> QED BY <2>7, <2>10, Zenon DEF ValidVerdictIsPlayable, raw, index, manifest
<1> QED BY <1>1, InvHolds, PTL

\* Sums of numbers that differ by at most t each differ by at most t for each.
LEMMA TotalsClose ==
    ASSUME NEW n \in Nat, NEW a \in Seq(Nat), NEW b \in Seq(Nat), Len(a) = n, Len(b) = n,
           NEW t \in Nat, \A i \in 1 .. n : Distance(a[i], b[i]) <= t
    PROVE  Distance(Total(a), Total(b)) <= t * n
<1> DEFINE S(i) == Total(SubSeq(a, 1, i))
           T(i) == Total(SubSeq(b, 1, i))
           U == {i \in 0 .. n : Distance(S(i), T(i)) <= t * i}
<1>1. \A i \in 1 .. n : a[i] \in Nat /\ b[i] \in Nat
  BY ElementOfSeq
<1>2. /\ S(0) = 0 /\ S(n) = Total(a) /\ \A i \in 1 .. n : S(i) = S(i - 1) + a[i]
      /\ T(0) = 0 /\ T(n) = Total(b) /\ \A i \in 1 .. n : T(i) = T(i - 1) + b[i]
  BY TotalsGrow, PartialTotals
<1>3. \A i \in 0 .. n : S(i) \in Nat /\ T(i) \in Nat
  <2>1. \A i \in 0 .. n : i \in 0 .. i
    OBVIOUS
  <2> QED BY <2>1, TotalsGrow
<1> HIDE DEF S, T
<1>4. 0 \in U
  <2>1. Distance(0, 0) = 0 /\ t * 0 = 0 /\ 0 \in 0 .. n
    BY DEF Distance
  <2> QED BY <1>2, <2>1
<1>5. ASSUME NEW i \in 0 .. n - 1, i \in U PROVE i + 1 \in U
  <2> DEFINE j == i + 1
             x == S(i)
             y == T(i)
             c == a[j]
             d == b[j]
             u == t * i
  <2>1. j \in 1 .. n /\ j - 1 = i /\ i \in 0 .. n /\ j \in 0 .. n
    OBVIOUS
  <2>2. x \in Nat /\ y \in Nat /\ c \in Nat /\ d \in Nat /\ S(j) = x + c /\ T(j) = y + d
    BY <1>1, <1>2, <1>3, <2>1
  <2>3. u \in Nat /\ t * j = u + t
    <3>1. i \in Nat
      OBVIOUS
    <3> QED BY <3>1
  <2>4. Distance(x, y) <= u /\ Distance(c, d) <= t
    BY <1>5, <2>1
  <2> HIDE DEF j, x, y, c, d, u
  <2>5. Distance(x + c, y + d) <= u + t
    BY <2>2, <2>3, <2>4 DEF Distance
  <2>6. j \in U
    BY <2>1, <2>2, <2>3, <2>5
  <2> QED BY <2>6 DEF j
<1>6. \A i \in 0 .. n : i \in U
  <2> HIDE DEF U
  <2> QED BY <1>4, <1>5, IntervalInduction
<1>7. n \in 0 .. n
  OBVIOUS
<1> QED BY <1>2, <1>6, <1>7

\* What counts for nothing may be left out of a sum.
LEMMA TotalSkipsZeros ==
    ASSUME NEW S, NEW s \in Seq(S), NEW d \in [S -> Nat], NEW P, \A e \in S : e \notin P => d[e] = 0
    PROVE  Total(Each(s, d)) = Total(Each(Where(s, P), d))
<1> DEFINE T == {t \in Seq(S) : Total(Each(t, d)) = Total(Each(Where(t, P), d))}
<1>1. <<>> \in T
  <2>1. Where(<<>>, P) = <<>> /\ <<>> \in Seq(S)
    BY WhereEmpty, EmptySeq
  <2> QED BY <2>1
<1>2. ASSUME NEW t \in Seq(S), NEW e \in S, t \in T PROVE Append(t, e) \in T
  <2> DEFINE w == Where(t, P)
             a == Each(t, d)
             b == Each(w, d)
  <2>1. w \in Seq(S) /\ Append(t, e) \in Seq(S) /\ d[e] \in Nat
    BY WhereType, AppendProperties
  <2>2. a \in Seq(Int) /\ b \in Seq(Int)
    <3>1. Images(d, S) \subseteq Int
      BY DEF Images
    <3>2. a \in Seq(Images(d, S)) /\ b \in Seq(Images(d, S))
      <4> HIDE DEF w
      <4> QED BY <2>1, EachType
    <3> HIDE DEF a, b
    <3> QED BY <3>1, <3>2
  <2>3. Total(a) = Total(b)
    BY <1>2
  <2>4. Each(Append(t, e), d) = Append(a, d[e])
    BY EachAppend
  <2>5. Total(Append(a, d[e])) = Total(a) + d[e]
    <3> HIDE DEF a
    <3> QED BY <2>1, <2>2, TotalAppend
  <2>6. Total(a) \in Int
    <3> HIDE DEF a
    <3> QED BY <2>1, <2>2, TotalAppend
  <2>7. CASE e \in P
    <3>1. Where(Append(t, e), P) = Append(w, e)
      BY <2>7, WhereAppend
    <3>2. Each(Append(w, e), d) = Append(b, d[e])
      <4> HIDE DEF w
      <4> QED BY <2>1, EachAppend DEF b
    <3>3. Total(Append(b, d[e])) = Total(b) + d[e]
      <4> HIDE DEF b
      <4> QED BY <2>1, <2>2, TotalAppend
    <3> HIDE DEF a, b, w
    <3> QED BY <2>1, <2>3, <2>4, <2>5, <3>1, <3>2, <3>3
  <2>8. CASE e \notin P
    <3>1. Where(Append(t, e), P) = w /\ d[e] = 0
      BY <2>8, WhereAppend
    <3>2. Each(Where(Append(t, e), P), d) = b
      <4> HIDE DEF w
      <4> QED BY <3>1
    <3>3. Total(Each(Append(t, e), d)) = Total(b)
      <4> HIDE DEF a, b, w
      <4> QED BY <2>3, <2>4, <2>5, <2>6, <3>1
    <3> HIDE DEF a, b, w
    <3> QED BY <2>1, <3>2, <3>3
  <2> QED BY <2>7, <2>8
<1> HIDE DEF T
<1>3. \A t \in Seq(S) : t \in T
  BY <1>1, <1>2, SequenceInduction
<1> QED BY <1>3 DEF T

\* What the index of a package states of the segments that a profile shows.
StatedDuration(p, profile) ==
    Total([i \in DOMAIN Shown(p.segments, profile) |->
             IndexedDuration(Index(p), Baked(Shown(p.segments, profile)[i], profile).target)])

\* A segment that is shown and not found is stated to last no time.
LEMMA FoundDuration ==
    ASSUME NEW p \in Packages, NEW profile
    PROVE  LET sent == Found(p, IdsOf(Index(p)), profile)
           IN  StatedDuration(p, profile) =
                 Total([i \in DOMAIN sent |->
                          IndexedDuration(Index(p), Baked(sent[i], profile).target)])
<1> DEFINE ids == IdsOf(Index(p))
           S == Range(p.segments)
           lasts(t) == IndexedDuration(Index(p), Baked(t, profile).target)
           d == [t \in S |-> lasts(t)]
           shown == Shown(p.segments, profile)
           P == {t \in S : Baked(t, profile).target \in ids}
           sent == Where(shown, P)
<1>1. sent = Found(p, ids, profile)
  BY DEF Found
<1>2. shown \in Seq(S)
  <2>1. p.segments \in Seq(S)
    <3> DEFINE segments == p.segments
    <3>1. segments \in Seq(ManifestSegment)
      BY PackagesAssumption
    <3> HIDE DEF segments
    <3>2. Len(segments) \in Nat /\ DOMAIN segments = 1 .. Len(segments)
          /\ segments = [i \in 1 .. Len(segments) |-> segments[i]]
      BY <3>1, LenProperties
    <3>3. \A i \in 1 .. Len(segments) : segments[i] \in Range(segments)
      BY <3>2 DEF Range
    <3>4. segments \in [1 .. Len(segments) -> Range(segments)]
      BY <3>2, <3>3
    <3>5. segments \in Seq(Range(segments))
      BY <3>2, <3>4, SeqDef
    <3> QED BY <3>5 DEF segments
  <2> HIDE DEF S
  <2> QED BY <2>1, WhereType DEF Shown
<1>3. d \in [S -> Nat]
  BY IndexedType
<1>4. \A t \in S : t \notin P => d[t] = 0
  <2> SUFFICES ASSUME NEW t \in S, t \notin P PROVE d[t] = 0
    OBVIOUS
  <2>1. Baked(t, profile).target \notin ids
    OBVIOUS
  <2>2. IndexedDuration(Index(p), Baked(t, profile).target) = 0
    <3> DEFINE id == Baked(t, profile).target
               x == Index(p)
    <3> HIDE DEF id, x
    <3>1. id \notin IdsOf(x)
      BY <2>1 DEF id, x
    <3>2. {i \in DOMAIN x : x[i].id = id} = {}
      BY <3>1 DEF IdsOf
    <3>3. IndexedDuration(x, id) = 0
      BY <3>2 DEF IndexedDuration
    <3> QED BY <3>3 DEF id, x
  <2> QED BY <2>2
<1> HIDE DEF P, shown
<1>5. sent \in Seq(S)
  <2> HIDE DEF S
  <2> QED BY <1>2, WhereType
<1>6. Total(Each(shown, d)) = Total(Each(sent, d))
  <2> HIDE DEF S, d
  <2> QED BY <1>2, <1>3, <1>4, TotalSkipsZeros
<1> HIDE DEF sent
<1>7. \A t \in Seq(S) : Each(t, d) = [i \in DOMAIN t |-> lasts(t[i])]
  <2> SUFFICES ASSUME NEW t \in Seq(S) PROVE Each(t, d) = [i \in DOMAIN t |-> lasts(t[i])]
    OBVIOUS
  <2>1. \A i \in DOMAIN t : t[i] \in S
    <3> HIDE DEF S
    <3> QED BY LenProperties, ElementOfSeq
  <2>2. \A i \in DOMAIN t : d[t[i]] = lasts(t[i])
    <3> HIDE DEF lasts
    <3> QED BY <2>1
  <2> HIDE DEF d, lasts
  <2> QED BY <2>2 DEF Each
<1>8. Each(shown, d) = [i \in DOMAIN shown |-> lasts(shown[i])]
      /\ Each(sent, d) = [i \in DOMAIN sent |-> lasts(sent[i])]
  <2> HIDE DEF S, d, lasts
  <2> QED BY <1>2, <1>5, <1>7
<1>9. StatedDuration(p, profile) = Total([i \in DOMAIN shown |-> lasts(shown[i])])
  BY DEF StatedDuration, shown
<1>10. StatedDuration(p, profile) = Total([i \in DOMAIN sent |-> lasts(sent[i])])
  <2> HIDE DEF d, lasts
  <2> QED BY <1>6, <1>8, <1>9
<1> QED BY <1>1, <1>10, Zenon

\* The player's export of a valid file for a profile lasts what the probe
\* expects of that profile, within the tolerance of each entry
\* (ExportMatchesProbe): for timelines of any length, whatever has been
\* written, exported and probed between the export and the verdict.
THEOREM ExportMatchesHolds ==
    ASSUME DistinctAssets PROVE Spec => []ExportMatchesProbe
<1>1. ASSUME ContainerInv PROVE ExportMatchesProbe
  <2> DEFINE raw == tool.raw
             profile == tool.profile
  <2> SUFFICES ASSUME ProbedValid, raw = tool.again, exported.of = raw,
                      exported.profile = profile
               PROVE  Distance(exported.duration, tool.expected)
                        <= Tolerance * Len(PlayerSequence(PlayerIndex(raw),
                                                          ManifestIn(tool.again),
                                                          profile).entries)
    BY DEF ExportMatchesProbe
  <2>1. tool.kind = "probe" /\ tool.pc = "done" /\ tool.valid
    BY DEF ProbedValid, Is
  <2>2. OfMuxer(raw) /\ Verdict(tool)
    BY <1>1, <2>1 DEF ContainerInv, ProbeInv
  <2>3. PICK p \in Packages : Front(raw, p)
    BY <2>2 DEF OfMuxer
  <2>4. PICK asked :
           /\ ProbeIssues(tool.raw, tool.again, asked) = {}
           /\ tool.expected = ProbedDuration(Entries(tool.raw, ActualIndexCount(tool.raw)),
                                             ManifestIn(tool.again), tool.profile)
    BY <2>2 DEF Verdict
  <2>5. /\ ProbeIssues(raw, raw, asked) = {}
        /\ tool.expected = ProbedDuration(Entries(raw, ActualIndexCount(raw)),
                                          ManifestIn(raw), profile)
    BY <2>4
  <2> HIDE DEF raw, profile
  <2>6. /\ raw = Bytes(p) /\ ManifestIn(raw) = Manifest(p) /\ PlayerIndex(raw) = Index(p)
        /\ Entries(raw, ActualIndexCount(raw)) = Index(p)
        /\ FitFor(p, IdsOf(Index(p))) /\ MediaIssues(Bytes(p), Index(p)) = {}
    BY <2>3, <2>5, NoIssue
  <2> DEFINE entries == PlayerSequence(Index(p), Manifest(p), profile).entries
             ids == IdsOf(Index(p))
             shown == Shown(p.segments, profile)
             sent == Found(p, ids, profile)
             target(i) == Baked(sent[i], profile).target
             n == Len(sent)
             cut(id) == Extract(Bytes(p), Index(p), id)
             media == Extracted(Bytes(p), Index(p), entries)
             lasts == [i \in DOMAIN media |-> media[i][1].val.media.duration]
             states == [i \in DOMAIN sent |-> IndexedDuration(Index(p), target(i))]
  <2>7. /\ DOMAIN entries = DOMAIN sent /\ sent \in Seq(ManifestSegment) /\ Len(entries) = n
        /\ \A i \in DOMAIN sent : entries[i].target = target(i) /\ target(i) \in ids
    <3>1. ids = IdsOf(Index(p)) /\ FitFor(p, ids)
      BY <2>6
    <3> HIDE DEF ids
    <3> QED BY <3>1, ValidSequence
  <2>8. n \in Nat /\ DOMAIN sent = 1 .. n
    BY <2>7, LenProperties
  <2>9. exported.duration = Total(lasts)
    <3>1. exported.of # None
      BY <2>6, NoneAssumption
    <3>2. exported.duration = ExportDuration(raw, profile)
      BY <1>1, <3>1 DEF ContainerInv, ExportInv
    <3> QED BY <2>6, <3>2 DEF ExportDuration
  <2>10. tool.expected = Total(states)
    <3>1. tool.expected = ProbedDuration(Index(p), Manifest(p), profile)
      BY <2>5, <2>6
    <3>2. Manifest(p).segments = p.segments
      BY ValueFacts
    <3>3. tool.expected = StatedDuration(p, profile)
      BY <3>1, <3>2 DEF ProbedDuration, StatedDuration
    <3>4. StatedDuration(p, profile) = Total(states)
      BY FoundDuration
    <3> QED BY <3>3, <3>4
  <2>11. media = [i \in 1 .. n |-> cut(entries[i].target)]
    <3>1. DOMAIN entries = 1 .. n /\ \A i \in 1 .. n : entries[i].target \in IdsOf(Index(p))
      BY <2>7, <2>8
    <3> HIDE DEF entries, n
    <3> QED BY <2>6, <2>8, <3>1, ValidExtracted
  <2> HIDE DEF media, entries, sent, n
  <2>12. ASSUME NEW i \in 1 .. n
         PROVE  /\ lasts[i] \in Nat /\ states[i] \in Nat
                /\ Distance(lasts[i], states[i]) <= Tolerance
    <3> DEFINE id == target(i)
    <3>1. id \in IdsOf(Index(p)) /\ media[i] = cut(id)
      BY <2>7, <2>8, <2>11
    <3>2. lasts[i] = cut(id)[1].val.media.duration
      <4>1. i \in DOMAIN media
        BY <2>11
      <4> QED BY <3>1, <4>1
    <3>3. states[i] = IndexedDuration(Index(p), id)
      BY <2>8
    <3> HIDE DEF id, lasts, states
    <3>4. /\ cut(id)[1].val.media.duration \in Nat
          /\ Distance(cut(id)[1].val.media.duration, IndexedDuration(Index(p), id)) <= Tolerance
          /\ IndexedDuration(Index(p), id) \in Nat
      BY <2>6, <3>1, ValidMedia, IndexedType
    <3> QED BY <3>2, <3>3, <3>4
  <2>13. lasts \in Seq(Nat) /\ Len(lasts) = n /\ states \in Seq(Nat) /\ Len(states) = n
    <3>1. lasts \in [1 .. n -> Nat]
      <4>1. DOMAIN media = 1 .. n
        BY <2>11
      <4> QED BY <2>12, <4>1
    <3>2. states \in [1 .. n -> Nat]
      BY <2>8, <2>12
    <3> HIDE DEF lasts, states
    <3> QED BY <2>8, <3>1, <3>2
  <2> HIDE DEF lasts, states
  <2>14. Distance(Total(lasts), Total(states)) <= Tolerance * n
    BY <2>8, <2>12, <2>13, TotalsClose, SizeFacts
  <2>15. PlayerSequence(PlayerIndex(raw), ManifestIn(tool.again), profile).entries = entries
    <3>1. tool.again = raw
      BY DEF raw
    <3> QED BY <2>6, <3>1 DEF entries
  <2> QED BY <2>7, <2>9, <2>10, <2>14, <2>15 DEF n
<1> QED BY <1>1, InvHolds, PTL
=============================================================================
