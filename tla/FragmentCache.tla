--------------------------- MODULE FragmentCache ---------------------------
(* csharp_plugin/BvfHlsFragmentCache.cs, the byte-bounded LRU cache of     *)
(* assembled HLS parts, with its callers in SegmentServer.cs               *)
(* (GetHlsMediaFragment and WarmHlsFragmentCache).                         *)
(*                                                                         *)
(* The parts of one stream stand for the keys.  Request threads and        *)
(* prefetch tasks run GetOrAdd, which takes the lock twice and assembles   *)
(* the part between the two critical sections, without the lock; each      *)
(* critical section is one step.  A byte array is a buffer number, because *)
(* only its identity and its part's size matter; a number is used again    *)
(* once nobody refers to it.                                               *)
EXTENDS SeqWalks, SequencesExt

CONSTANTS
    NumParts,      \* parts in the stream's timeline
    Size,          \* bytes of each part once assembled
    Duration,      \* seconds of each part
    MaxBytes,      \* _maxBytes
    AheadSeconds,  \* PrefetchAheadSeconds
    Requests,      \* concurrent requests for a media fragment
    Tasks,         \* background tasks that can run at once
    MayThrow,      \* whether assembling a part may fail
    MayClear       \* whether the caches may be cleared

Parts == 1 .. NumParts
Threads == Requests \cup Tasks

ASSUME NumPartsAssumption == NumParts \in Nat \ {0}
ASSUME SizeAssumption == Size \in [Parts -> Nat \ {0}]
ASSUME DurationAssumption == Duration \in [Parts -> Nat]
ASSUME BoundAssumption == MaxBytes \in Nat \ {0} /\ AheadSeconds \in Nat \ {0}
ASSUME ThreadAssumption == Requests \cap Tasks = {} /\ IsFiniteSet(Threads)
ASSUME SwitchAssumption == MayThrow \in BOOLEAN /\ MayClear \in BOOLEAN

VARIABLES
    lru,         \* _lru: the entries, most recently used first
    index,       \* _index: the buffer cached for a part, or NoBuffer
    totalBytes,  \* _totalBytes
    thread,      \* what each request and each prefetch task is doing
    used         \* history: parts answered since the last Clear, newest first

vars == <<lru, index, totalBytes, thread, used>>

NoBuffer == 0
Buffer == Nat
Entry == [part : Parts, buffer : Buffer \ {NoBuffer}]
ThreadState == [at : {"idle", "check", "lookup", "assemble", "insert", "answered"},
                part : Parts, buffer : Buffer, ahead : Nat]

Idle == [at |-> "idle", part |-> 1, buffer |-> NoBuffer, ahead |-> 0]

TypeOK ==
    /\ lru \in Seq(Entry)
    /\ index \in [Parts -> Buffer]
    /\ totalBytes \in Int
    /\ thread \in [Threads -> ThreadState]
    /\ used \in Seq(Parts)

Init ==
    /\ lru = <<>>
    /\ index = [k \in Parts |-> NoBuffer]
    /\ totalBytes = 0
    /\ thread = [t \in Threads |-> Idle]
    /\ used = <<>>

-----------------------------------------------------------------------------
(* The cache's private methods, as operators on its state. *)

Known(k) == index[k] # NoBuffer
Without(s, k) == Where(s, {e \in Range(s) : e.part # k})
KeysOf(s) == [i \in DOMAIN s |-> s[i].part]
BytesOf(s) == Total(Each(KeysOf(s), Size))

\* Bug variant of Touch: the entry stays where it was inserted.
TouchNothing(k) == lru' = lru /\ k \in Parts

\* Touch: the part's entry becomes the first of the list.
Touch(k) == lru' = <<[part |-> k, buffer |-> index[k]]>> \o Without(lru, k)

\* How many entries of s EvictIfNeeded keeps when the list weighs total: it
\* drops the last one for as long as the total is above the limit.
Kept(s, total) ==
    CHOOSE n \in 0 .. Len(s) :
        LET Left(m) == total - BytesOf(SubSeq(s, m + 1, Len(s)))
        IN  /\ n = 0 \/ Left(n) <= MaxBytes
            /\ \A m \in n + 1 .. Len(s) : Left(m) > MaxBytes

\* Insert, with the eviction at its end.
Insert(k, b) ==
    LET list == <<[part |-> k, buffer |-> b]>> \o lru
        total == totalBytes + Size[k]
        kept == SubSeq(list, 1, Kept(list, total))
        dropped == SubSeq(list, Kept(list, total) + 1, Len(list))
    IN  /\ lru' = kept
        /\ totalBytes' = total - BytesOf(dropped)
        /\ index' = [p \in Parts |->
                       IF p \in Range(KeysOf(dropped)) THEN NoBuffer
                       ELSE IF p = k THEN b ELSE index[p]]

\* The smallest buffer number that nothing refers to.
FreshBuffer ==
    CHOOSE b \in 1 .. NumParts + Cardinality(Threads) + 1 :
        LET free(c) == /\ \A i \in DOMAIN lru : lru[i].buffer # c
                       /\ \A t \in Threads : thread[t].buffer # c
        IN  free(b) /\ \A c \in 1 .. b - 1 : ~free(c)

-----------------------------------------------------------------------------
(* GetOrAdd. *)

\* What a prefetch task does once its part is known: the next part, unless it
\* is past the end or far enough ahead.
Advance(s) ==
    LET ahead == s.ahead + Duration[s.part]
    IN  IF s.part < NumParts /\ ahead < AheadSeconds
        THEN [s EXCEPT !.at = "check", !.part = @ + 1, !.ahead = ahead,
                       !.buffer = NoBuffer]
        ELSE Idle

\* GetOrAdd returns buffer b to thread t.
Return(t, b) ==
    /\ thread' = [thread EXCEPT ![t] =
                    IF t \in Requests
                    THEN [@ EXCEPT !.at = "answered", !.buffer = b]
                    ELSE Advance(@)]
    /\ used' = <<thread[t].part>> \o Where(used, Parts \ {thread[t].part})

\* The first critical section.
Lookup(t) ==
    LET k == thread[t].part IN
    /\ thread[t].at = "lookup"
    /\ \/ /\ Known(k)
          /\ Touch(k)
          /\ Return(t, index[k])
       \/ /\ ~Known(k)
          /\ thread' = [thread EXCEPT ![t].at = "assemble"]
          /\ UNCHANGED <<lru, used>>
    /\ UNCHANGED <<index, totalBytes>>

\* The factory runs, without the lock.
Assemble(t) ==
    /\ thread[t].at = "assemble"
    /\ thread' = [thread EXCEPT ![t].at = "insert", ![t].buffer = FreshBuffer]
    /\ UNCHANGED <<lru, index, totalBytes, used>>

\* The factory throws: a request answers with an error, and a task swallows
\* the exception and stops.
AssembleThrows(t) ==
    /\ MayThrow
    /\ thread[t].at = "assemble"
    /\ thread' = [thread EXCEPT ![t] = Idle]
    /\ UNCHANGED <<lru, index, totalBytes, used>>

\* Bug variant of Store: nothing is looked up again after the assembly.
StoreUnchecked(t) ==
    /\ thread[t].at = "insert"
    /\ Insert(thread[t].part, thread[t].buffer)
    /\ Return(t, thread[t].buffer)

\* Bug variant of Store: the late thread returns the copy it made itself.
StoreReturnsOwn(t) ==
    LET k == thread[t].part
        b == thread[t].buffer
    IN  /\ thread[t].at = "insert"
        /\ \/ /\ Known(k)
              /\ Touch(k)
              /\ UNCHANGED <<index, totalBytes>>
           \/ /\ ~Known(k)
              /\ Insert(k, b)
        /\ Return(t, b)

\* The second critical section: another thread may have added the part while
\* this one was assembling it, and then its buffer is the one to use.
Store(t) ==
    LET k == thread[t].part
        b == thread[t].buffer
    IN  /\ thread[t].at = "insert"
        /\ \/ /\ Known(k)
              /\ Touch(k)
              /\ Return(t, index[k])
              /\ UNCHANGED <<index, totalBytes>>
           \/ /\ ~Known(k)
              /\ Insert(k, b)
              /\ Return(t, b)

-----------------------------------------------------------------------------
(* The callers. *)

\* A request for a media fragment enters GetHlsMediaFragment.
Request(r, k) ==
    /\ thread[r].at = "idle"
    /\ thread' = [thread EXCEPT ![r] = [Idle EXCEPT !.at = "lookup", !.part = k]]
    /\ UNCHANGED <<lru, index, totalBytes, used>>

\* PrefetchAhead: a background task for the parts from k, unless k is past the
\* end of the timeline.
Prefetch(k) ==
    \E p \in Tasks :
        /\ thread[p].at = "idle"
        /\ thread' = [thread EXCEPT ![p] = [Idle EXCEPT !.at = "check", !.part = k]]

\* The end of GetHlsMediaFragment: read-ahead from the next part, then the
\* bytes go to the client.
Answer(r) ==
    LET k == thread[r].part IN
    /\ thread[r].at = "answered"
    /\ \/ /\ k = NumParts
          /\ thread' = [thread EXCEPT ![r] = Idle]
       \/ /\ k < NumParts
          /\ \E p \in Tasks :
               /\ thread[p].at = "idle"
               /\ thread' = [thread EXCEPT
                    ![r] = Idle,
                    ![p] = [Idle EXCEPT !.at = "check", !.part = k + 1]]
    /\ UNCHANGED <<lru, index, totalBytes, used>>

\* WarmHlsFragmentCache: read-ahead from the first part.
Warm == Prefetch(1) /\ UNCHANGED <<lru, index, totalBytes, used>>

\* A prefetch task asks whether its part is cached; this is no use of it.
CheckKnown(p) ==
    /\ thread[p].at = "check"
    /\ thread' = [thread EXCEPT ![p] =
                    IF Known(@.part) THEN Advance(@) ELSE [@ EXCEPT !.at = "lookup"]]
    /\ UNCHANGED <<lru, index, totalBytes, used>>

Clear ==
    /\ MayClear
    /\ index' = [k \in Parts |-> NoBuffer]
    /\ lru' = <<>>
    /\ totalBytes' = 0
    /\ used' = <<>>
    /\ UNCHANGED thread

ThreadStep(t) ==
    \/ Lookup(t)
    \/ Assemble(t)
    \/ AssembleThrows(t)
    \/ Store(t)

Next ==
    \/ \E r \in Requests, k \in Parts : Request(r, k)
    \/ \E r \in Requests : ThreadStep(r) \/ Answer(r)
    \/ \E p \in Tasks : ThreadStep(p) \/ CheckKnown(p)
    \/ Warm
    \/ Clear

Spec == Init /\ [][Next]_vars

-----------------------------------------------------------------------------
(* Properties. *)

\* The dictionary and the linked list describe the same cache: no part is
\* listed twice, and a part is indexed exactly when it is listed, with the
\* same bytes.
IndexMatchesList ==
    /\ \A i, j \in DOMAIN lru : lru[i].part = lru[j].part => i = j
    /\ \A k \in Parts, b \in {index[p] : p \in Parts} \ {NoBuffer} :
         index[k] = b <=> [part |-> k, buffer |-> b] \in Range(lru)
    /\ \A i \in DOMAIN lru : index[lru[i].part] = lru[i].buffer

\* The byte count is the weight of what is listed, within the limit.
BytesAccounted ==
    /\ totalBytes = BytesOf(lru)
    /\ totalBytes <= MaxBytes

\* Whenever the lock is free the cache is consistent: its two structures agree
\* and its bytes are counted.  Two threads that assemble one part at once, the
\* eviction inside Insert, a part above the limit, and Clear while a part is
\* being assembled are what could break it (BvfHlsFragmentCache.cs L102-156).
CacheIsConsistent ==
    /\ TypeOK
    /\ IndexMatchesList
    /\ BytesAccounted

\* Least-recently-used eviction: what is cached is always the parts answered
\* most recently, in that order, however requests and read-ahead interleave.
CacheHoldsMostRecent == IsPrefix(KeysOf(lru), used)

\* Whoever is answered gets the copy the cache holds at that moment, the one
\* that another thread added first included; nothing is held only when the
\* part alone is above the limit.
AnswerIsCachedCopy ==
    [][\A r \in Requests :
         thread[r].at # "answered" /\ thread'[r].at = "answered" =>
            LET k == thread[r].part
            IN  \/ index'[k] = thread'[r].buffer
                \/ index'[k] = NoBuffer /\ Size[k] > MaxBytes]_vars

=============================================================================
