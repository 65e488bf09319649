-------------------------- MODULE HlsServingProofs --------------------------
(* Theorems about HlsServing for every number of requests and of versions:  *)
(* type correctness, a manifest that is a hit is that of the file, and a    *)
(* request that no write disturbs gets what belongs to the file, if every   *)
(* version has its blocks elsewhere.                                        *)
EXTENDS HlsServing, TLAPS

USE MaxVersionAssumption, LayoutAssumption

-----------------------------------------------------------------------------
(* Type correctness. *)

\* Where a request has read the index of the file, and where it has a
\* timeline and a fragment.
WithIndex == {"key", "find", "build", "fragment_key", "fragment_find", "assemble", "done"}
WithTimeline == {"fragment_key", "fragment_find", "assemble", "done"}

\* What a request has read is a version of the file once it is past the step
\* that reads it.
Progressed(q) ==
    /\ q.at = "enter" => q.manifest \in Versions
    /\ q.at \in WithIndex => q.index \in Versions
    /\ q.at \in WithTimeline => q.timeline \in Timeline
    /\ q.at = "done" => q.fragment \in Fragment

\* The stamp says which version the file has, and whether it is whole.
StampMatchesVersion ==
    bvf.stamp = IF bvf.whole THEN 2 * bvf.version - 2 ELSE 2 * bvf.version - 3

\* The inductive invariant.  The types alone are not inductive: a timeline is
\* put together from an index that was read before.
TypeInv ==
    /\ TypeOK
    /\ StampMatchesVersion
    /\ \A r \in Requests : Progressed(request[r])

\* A cache keeps its types when an entry of theirs is put into it.
LEMMA PutType ==
    ASSUME NEW K, NEW V, NEW f, \A x \in DOMAIN f : x \in K /\ f[x] \in V,
           NEW k \in K, NEW v \in V
    PROVE  \A x \in DOMAIN Put(f, k, v) : x \in K /\ Put(f, k, v)[x] \in V
BY DEF Put

\* The key of a request that has read the index.
LEMMA KeyType ==
    ASSUME TypeInv, NEW r \in Requests, request[r].at \in WithIndex
    PROVE  KeyOf(r) \in Key
BY DEF TypeInv, TypeOK, Progressed, RequestState, KeyOf, Key

LEMMA TypeInvInit == Init => TypeInv
<1> SUFFICES ASSUME Init PROVE TypeInv
  OBVIOUS
<1>1. 1 \in Versions /\ 0 \in Stamps
  BY DEF Versions, Stamps
<1>2. Idle \in RequestState /\ Progressed(Idle)
  BY <1>1 DEF Idle, RequestState, Progressed, WithIndex, WithTimeline
<1>3. TypeOK
  BY <1>1, <1>2 DEF Init, TypeOK
<1> QED BY <1>2, <1>3 DEF Init, TypeInv, StampMatchesVersion

\* What a step of request r has to show of the request alone.
LEMMA GoType ==
    ASSUME TypeInv, NEW r \in Requests, NEW q \in RequestState, Progressed(q),
           request' = [request EXCEPT ![r] = q]
    PROVE  /\ request' \in [Requests -> RequestState]
           /\ \A o \in Requests : Progressed(request'[o])
BY DEF TypeInv, TypeOK

\* A write disturbs a request and leaves it where it is.
LEMMA DisturbedType ==
    ASSUME TypeInv
    PROVE  /\ Disturbed \in [Requests -> RequestState]
           /\ \A r \in Requests : Progressed(Disturbed[r])
<1>1. ASSUME NEW r \in Requests
      PROVE  Disturbed[r] \in RequestState /\ Progressed(Disturbed[r])
  <2> DEFINE q == request[r]
             n == [q EXCEPT !.quiet = FALSE]
  <2>1. q \in RequestState /\ Progressed(q)
    BY DEF TypeInv, TypeOK
  <2>2. n \in RequestState /\ Progressed(n)
    BY <2>1 DEF RequestState, Progressed
  <2> QED BY <2>2 DEF Disturbed
<1> QED BY <1>1 DEF Disturbed

\* A step of a request keeps the file, and everything else in its types.
LEMMA RequestStepType ==
    ASSUME TypeInv, NEW r \in Requests, RequestStep(r)
    PROVE  TypeInv'
<1> DEFINE q == request[r]
           New(n) == /\ request' = [request EXCEPT ![r] = n]
                     /\ n \in RequestState
                     /\ Progressed(n)
           Same == UNCHANGED <<bvf, manifests, timelines, fragments>>
<1>1. q \in RequestState /\ Progressed(q) /\ bvf.version \in Versions /\ bvf.stamp \in Stamps
  BY DEF TypeInv, TypeOK
<1>2. Idle \in RequestState /\ Progressed(Idle)
  BY DEF Idle, RequestState, Progressed, WithIndex, WithTimeline, Stamps
<1>3. ASSUME NEW n, New(n), Same PROVE TypeInv'
  BY <1>3, GoType DEF TypeInv, TypeOK, StampMatchesVersion
<1> HIDE DEF q
<1> USE DEF RequestState, Progressed, WithIndex, WithTimeline
<1>4. CASE Begin(r)
  <2> DEFINE n == [Idle EXCEPT !.quiet = TRUE, !.at = "stat"]
  <2>1. n \in RequestState /\ Progressed(n)
    BY <1>2
  <2> QED BY <1>3, <1>4, <2>1 DEF Begin, Go
<1>5. CASE Stat(r)
  <2> DEFINE n == [q EXCEPT !.stamp = bvf.stamp, !.at = "lookup"]
  <2>1. n \in RequestState /\ Progressed(n)
    BY <1>1
  <2>2. request' = [request EXCEPT ![r] = n]
    BY <1>5 DEF Stat, Go, q
  <2> QED BY <1>3, <1>5, <2>1, <2>2 DEF Stat
<1>6. CASE Lookup(r)
  <2> DEFINE hit == [q EXCEPT !.manifest = manifests.manifest, !.hit = TRUE, !.at = "index"]
             miss == [q EXCEPT !.at = "load"]
  <2>1. CASE manifests \in Entry /\ request' = [request EXCEPT ![r] = hit]
    <3>1. hit \in RequestState /\ Progressed(hit)
      BY <1>1, <2>1 DEF Entry
    <3> QED BY <1>3, <1>6, <2>1, <3>1 DEF Lookup
  <2>2. CASE request' = [request EXCEPT ![r] = miss]
    <3>1. miss \in RequestState /\ Progressed(miss)
      BY <1>1
    <3> QED BY <1>3, <1>6, <2>2, <3>1 DEF Lookup
  <2>3. manifests \in Entry \cup {NoEntry}
    BY DEF TypeInv, TypeOK
  <2> QED BY <1>6, <2>1, <2>2, <2>3 DEF Lookup, Go, q
<1>7. ASSUME Fail(r), Same PROVE TypeInv'
  BY <1>2, <1>3, <1>7 DEF Fail
<1>8. CASE Load(r)
  <2> DEFINE n == [q EXCEPT !.manifest = bvf.version, !.at = "enter"]
  <2>1. n \in RequestState /\ Progressed(n)
    BY <1>1
  <2>2. request' = [request EXCEPT ![r] = n] \/ Fail(r)
    BY <1>8 DEF Load, Go, q
  <2> QED BY <1>3, <1>7, <1>8, <2>1, <2>2 DEF Load
<1>9. CASE Enter(r)
  <2> DEFINE n == [q EXCEPT !.at = "index"]
  <2>1. q.at = "enter"
    BY <1>9 DEF Enter, At, q
  <2>2. n \in RequestState /\ Progressed(n)
    BY <1>1
  <2>3. request' = [request EXCEPT ![r] = n] \/ request' = [request EXCEPT ![r] = Idle]
    BY <1>9 DEF Enter, Go, Fail, q
  <2>4. request' \in [Requests -> RequestState] /\ \A o \in Requests : Progressed(request'[o])
    <3> HIDE DEF n
    <3> QED BY <1>2, <2>2, <2>3, GoType
  <2>5. manifests' \in Entry \cup {NoEntry}
    <3>1. q.stamp \in Stamps /\ q.manifest \in Versions
      BY <1>1, <2>1
    <3>2. manifests' = manifests \/ manifests' = [stamp |-> q.stamp, manifest |-> q.manifest]
      BY <1>9 DEF Enter, q
    <3> QED BY <3>1, <3>2 DEF Entry, TypeInv, TypeOK
  <2> QED BY <1>9, <2>4, <2>5 DEF Enter, TypeInv, TypeOK, StampMatchesVersion
<1>10. CASE ReadIndex(r)
  <2> DEFINE n == [q EXCEPT !.index = bvf.version, !.stamp = 0, !.manifest = 0,
                            !.hit = FALSE, !.at = "key"]
  <2>1. 0 \in Stamps
    BY DEF Stamps
  <2>2. n \in RequestState /\ Progressed(n)
    <3>1. n.at = "key" /\ n.index = bvf.version
      BY <1>1
    <3>2. n \in RequestState
      BY <1>1, <2>1
    <3> QED BY <1>1, <3>1, <3>2
  <2>3. request' = [request EXCEPT ![r] = n] \/ Fail(r)
    BY <1>10 DEF ReadIndex, Go, q
  <2> QED BY <1>3, <1>7, <1>10, <2>2, <2>3 DEF ReadIndex
<1>11. CASE StatTimeline(r)
  <2> DEFINE n == [q EXCEPT !.stamp = bvf.stamp, !.at = "find"]
  <2>1. n \in RequestState /\ Progressed(n)
    BY <1>1, <1>11 DEF StatTimeline, At, q
  <2>2. request' = [request EXCEPT ![r] = n]
    BY <1>11 DEF StatTimeline, Go, q
  <2> QED BY <1>3, <1>11, <2>1, <2>2 DEF StatTimeline
<1>12. CASE FindTimeline(r)
  <2> DEFINE found == [q EXCEPT !.timeline = timelines[KeyOf(r)], !.at = "fragment_key"]
             build == [q EXCEPT !.at = "build"]
  <2>1. q.at = "find"
    BY <1>12 DEF FindTimeline, At, q
  <2>2. CASE KeyOf(r) \in DOMAIN timelines
    <3>1. timelines[KeyOf(r)] \in Timeline
      BY <2>2 DEF TypeInv, TypeOK
    <3>2. found \in RequestState /\ Progressed(found)
      BY <1>1, <2>1, <3>1
    <3>3. request' = [request EXCEPT ![r] = found]
      BY <1>12, <2>2 DEF FindTimeline, Go, q
    <3> QED BY <1>3, <1>12, <3>2, <3>3 DEF FindTimeline
  <2>3. CASE KeyOf(r) \notin DOMAIN timelines
    <3>1. build \in RequestState /\ Progressed(build)
      BY <1>1, <2>1
    <3>2. request' = [request EXCEPT ![r] = build]
      BY <1>12, <2>3 DEF FindTimeline, Go, q
    <3> QED BY <1>3, <1>12, <3>1, <3>2 DEF FindTimeline
  <2> QED BY <2>2, <2>3
<1>13. CASE Build(r)
  <2> DEFINE t == [index |-> q.index, data |-> bvf.version]
             n == [q EXCEPT !.timeline = t, !.at = "build"]
  <2>1. q.at = "build"
    BY <1>13 DEF Build, At, q
  <2>2. t \in Timeline
    BY <1>1, <2>1 DEF Timeline
  <2>3. n \in RequestState /\ Progressed(n)
    BY <1>1, <2>1, <2>2
  <2>4. request' = [request EXCEPT ![r] = n] \/ Fail(r)
    BY <1>13 DEF Build, Go, q
  <2> QED BY <1>3, <1>7, <1>13, <2>3, <2>4 DEF Build
<1>14. CASE AddTimeline(r)
  <2> DEFINE n == [q EXCEPT !.timeline = timelines'[KeyOf(r)], !.at = "fragment_key"]
  <2>1. q.at = "build" /\ q.timeline \in Timeline
    BY <1>1, <1>14 DEF AddTimeline, At, q
  <2>2. KeyOf(r) \in Key
    BY <2>1, KeyType DEF q
  <2>3. \/ KeyOf(r) \in DOMAIN timelines /\ timelines' = timelines
        \/ timelines' = Put(timelines, KeyOf(r), q.timeline)
    BY <1>14 DEF AddTimeline, q
  <2>4. \A k \in DOMAIN timelines' : k \in Key /\ timelines'[k] \in Timeline
    <3>1. \A k \in DOMAIN timelines : k \in Key /\ timelines[k] \in Timeline
      BY DEF TypeInv, TypeOK
    <3> QED BY <2>1, <2>2, <2>3, <3>1, PutType
  <2>5. timelines'[KeyOf(r)] \in Timeline
    BY <2>3, <2>4 DEF Put
  <2>6. n \in RequestState /\ Progressed(n)
    BY <1>1, <2>1, <2>5
  <2>7. request' = [request EXCEPT ![r] = n]
    BY <1>14 DEF AddTimeline, Go, q
  <2>8. request' \in [Requests -> RequestState] /\ \A o \in Requests : Progressed(request'[o])
    BY <2>6, <2>7, GoType
  <2> QED BY <1>14, <2>4, <2>8 DEF AddTimeline, TypeInv, TypeOK, StampMatchesVersion
<1>15. CASE StatFragment(r)
  <2> DEFINE n == [q EXCEPT !.stamp = bvf.stamp, !.at = "fragment_find"]
  <2>1. n \in RequestState /\ Progressed(n)
    BY <1>1, <1>15 DEF StatFragment, At, q
  <2>2. request' = [request EXCEPT ![r] = n]
    BY <1>15 DEF StatFragment, Go, q
  <2> QED BY <1>3, <1>15, <2>1, <2>2 DEF StatFragment
<1>16. CASE FindFragment(r)
  <2> DEFINE found == [q EXCEPT !.fragment = fragments[KeyOf(r)], !.at = "done"]
             assemble == [q EXCEPT !.at = "assemble"]
  <2>1. q.at = "fragment_find"
    BY <1>16 DEF FindFragment, At, q
  <2>2. CASE KeyOf(r) \in DOMAIN fragments
    <3>1. fragments[KeyOf(r)] \in Fragment
      BY <2>2 DEF TypeInv, TypeOK
    <3>2. found \in RequestState /\ Progressed(found)
      BY <1>1, <2>1, <3>1
    <3>3. request' = [request EXCEPT ![r] = found]
      BY <1>16, <2>2 DEF FindFragment, Go, q
    <3> QED BY <1>3, <1>16, <3>2, <3>3 DEF FindFragment
  <2>3. CASE KeyOf(r) \notin DOMAIN fragments
    <3>1. assemble \in RequestState /\ Progressed(assemble)
      BY <1>1, <2>1
    <3>2. request' = [request EXCEPT ![r] = assemble]
      BY <1>16, <2>3 DEF FindFragment, Go, q
    <3> QED BY <1>3, <1>16, <3>1, <3>2 DEF FindFragment
  <2> QED BY <2>2, <2>3
<1>17. CASE Assemble(r)
  <2> DEFINE g == [index |-> q.index, timeline |-> q.timeline, data |-> bvf.version]
             n == [q EXCEPT !.fragment = g, !.at = "assemble"]
  <2>1. q.at = "assemble"
    BY <1>17 DEF Assemble, At, q
  <2>2. g \in Fragment
    BY <1>1, <2>1 DEF Fragment
  <2>3. n \in RequestState /\ Progressed(n)
    BY <1>1, <2>1, <2>2
  <2>4. request' = [request EXCEPT ![r] = n] \/ Fail(r)
    BY <1>17 DEF Assemble, Go, q
  <2> QED BY <1>3, <1>7, <1>17, <2>3, <2>4 DEF Assemble
<1>18. CASE AddFragment(r)
  <2> DEFINE n == [q EXCEPT !.fragment = fragments'[KeyOf(r)], !.at = "done"]
  <2>1. q.at = "assemble" /\ q.fragment \in Fragment
    BY <1>1, <1>18 DEF AddFragment, At, q
  <2>2. KeyOf(r) \in Key
    BY <2>1, KeyType DEF q
  <2>3. \/ KeyOf(r) \in DOMAIN fragments /\ fragments' = fragments
        \/ fragments' = Put(fragments, KeyOf(r), q.fragment)
    BY <1>18 DEF AddFragment, q
  <2>4. \A k \in DOMAIN fragments' : k \in Key /\ fragments'[k] \in Fragment
    <3>1. \A k \in DOMAIN fragments : k \in Key /\ fragments[k] \in Fragment
      BY DEF TypeInv, TypeOK
    <3> QED BY <2>1, <2>2, <2>3, <3>1, PutType
  <2>5. fragments'[KeyOf(r)] \in Fragment
    BY <2>3, <2>4 DEF Put
  <2>6. n \in RequestState /\ Progressed(n)
    BY <1>1, <2>1, <2>5
  <2>7. request' = [request EXCEPT ![r] = n]
    BY <1>18 DEF AddFragment, Go, q
  <2>8. request' \in [Requests -> RequestState] /\ \A o \in Requests : Progressed(request'[o])
    BY <2>6, <2>7, GoType
  <2> QED BY <1>18, <2>4, <2>8 DEF AddFragment, TypeInv, TypeOK, StampMatchesVersion
<1>19. CASE Answer(r)
  BY <1>2, <1>3, <1>19 DEF Answer
<1> QED BY <1>4, <1>5, <1>6, <1>8, <1>9, <1>10, <1>11, <1>12, <1>13, <1>14,
           <1>15, <1>16, <1>17, <1>18, <1>19 DEF RequestStep

LEMMA TypeInvInductive == TypeInv /\ [Next]_vars => TypeInv'
<1> SUFFICES ASSUME TypeInv, [Next]_vars PROVE TypeInv'
  OBVIOUS
<1> USE DEF TypeInv, TypeOK, StampMatchesVersion
<1>1. CASE Truncate
  <2>1. bvf' \in [version : Versions, whole : BOOLEAN, stamp : Stamps] /\ StampMatchesVersion'
    BY <1>1 DEF Truncate, Versions, Stamps
  <2>2. request' \in [Requests -> RequestState] /\ \A r \in Requests : Progressed(request'[r])
    BY <1>1, DisturbedType DEF Truncate
  <2> QED BY <1>1, <2>1, <2>2 DEF Truncate
<1>2. CASE WriteRest
  <2>1. bvf' = [version |-> bvf.version, whole |-> TRUE, stamp |-> bvf.stamp + 1] /\ ~bvf.whole
    BY <1>2 DEF WriteRest
  <2>2. bvf' \in [version : Versions, whole : BOOLEAN, stamp : Stamps] /\ StampMatchesVersion'
    BY <2>1 DEF Versions, Stamps
  <2>3. request' \in [Requests -> RequestState] /\ \A r \in Requests : Progressed(request'[r])
    BY <1>2, DisturbedType DEF WriteRest
  <2> QED BY <1>2, <2>2, <2>3 DEF WriteRest
<1>3. ASSUME NEW r \in Requests, RequestStep(r) PROVE TypeInv'
  BY <1>3, RequestStepType
<1>4. CASE EvictFragment
  BY <1>4 DEF EvictFragment
<1>5. CASE ClearCache
  BY <1>5 DEF ClearCache
<1>6. CASE UNCHANGED vars
  BY <1>6 DEF vars
<1> QED BY <1>1, <1>2, <1>3, <1>4, <1>5, <1>6 DEF Next

\* The file, the three caches and every request have the declared types.
THEOREM TypeCorrect == Spec => []TypeOK
<1>1. TypeInv => TypeOK
  BY DEF TypeInv
<1> QED BY <1>1, TypeInvInit, TypeInvInductive, PTL DEF Spec

-----------------------------------------------------------------------------
(* A hit on the manifest. *)

\* A manifest m was read when the file had stamp s, or later.
NotNewer(s, m) == s <= 2 * m - 2 /\ m <= bvf.version

\* What is stored in the manifest cache, or is about to be, has a stamp that is
\* not newer than its manifest; the stamp of a quiet request is that of the file.
HitOfRequest(q) ==
    /\ q.stamp <= bvf.stamp
    /\ q.at = "lookup" /\ q.quiet => q.stamp = bvf.stamp
    /\ q.at = "enter" => NotNewer(q.stamp, q.manifest)
    /\ q.hit => q.at = "index" /\ (q.quiet => q.manifest = bvf.version)

\* The inductive invariant: with a quiet request the stamps of the file, of
\* the request and of the entry are one, and an entry whose stamp is not newer
\* than its manifest then has the manifest of the file.
HitInv ==
    /\ TypeInv
    /\ manifests # NoEntry => NotNewer(manifests.stamp, manifests.manifest)
    /\ \A r \in Requests : HitOfRequest(request[r])

LEMMA RequestStepHit ==
    ASSUME HitInv, NEW r \in Requests, RequestStep(r), TypeInv'
    PROVE  HitInv'
<1> DEFINE q == request[r]
           Old == manifests # NoEntry => NotNewer(manifests.stamp, manifests.manifest)
<1>1. /\ q \in RequestState /\ Progressed(q) /\ HitOfRequest(q)
      /\ bvf.version \in Versions /\ bvf.stamp \in Stamps
      /\ StampMatchesVersion
      /\ manifests \in Entry \cup {NoEntry} /\ Old
  BY DEF HitInv, TypeInv, TypeOK
<1>2. HitOfRequest(Idle)
  BY <1>1 DEF Idle, HitOfRequest, Stamps
<1>3. ASSUME NEW n, request' = [request EXCEPT ![r] = n], HitOfRequest(n), bvf' = bvf, Old'
      PROVE  HitInv'
  BY <1>3 DEF HitInv, TypeInv, TypeOK, HitOfRequest, NotNewer
<1> HIDE DEF q
<1>4. CASE Begin(r)
  <2>1. HitOfRequest([Idle EXCEPT !.quiet = TRUE, !.at = "stat"])
    BY <1>1 DEF Idle, HitOfRequest, Stamps
  <2> QED BY <1>1, <1>3, <1>4, <2>1 DEF Begin, Go, NotNewer
<1>5. CASE Stat(r)
  <2> DEFINE n == [q EXCEPT !.stamp = bvf.stamp, !.at = "lookup"]
  <2>1. q.at = "stat" /\ request' = [request EXCEPT ![r] = n]
    BY <1>5 DEF Stat, At, Go, q
  <2>2. HitOfRequest(n)
    BY <1>1, <2>1 DEF HitOfRequest, RequestState, Stamps
  <2> QED BY <1>1, <1>3, <1>5, <2>1, <2>2 DEF Stat, NotNewer
<1>6. CASE Lookup(r)
  <2> DEFINE hit == [q EXCEPT !.manifest = manifests.manifest, !.hit = TRUE, !.at = "index"]
             miss == [q EXCEPT !.at = "load"]
  <2>1. q.at = "lookup"
    BY <1>6 DEF Lookup, At, q
  <2>2. CASE /\ manifests # NoEntry /\ manifests.stamp = q.stamp
             /\ request' = [request EXCEPT ![r] = hit]
    <3>1. q.quiet => manifests.manifest = bvf.version
      BY <1>1, <2>1, <2>2
         DEF HitOfRequest, NotNewer, StampMatchesVersion, Entry, Stamps, Versions
    <3>2. HitOfRequest(hit)
      BY <1>1, <2>1, <3>1 DEF HitOfRequest, RequestState
    <3> QED BY <1>1, <1>3, <1>6, <2>2, <3>2 DEF Lookup, NotNewer
  <2>3. CASE request' = [request EXCEPT ![r] = miss]
    <3>1. HitOfRequest(miss)
      BY <1>1, <2>1 DEF HitOfRequest, RequestState
    <3> QED BY <1>1, <1>3, <1>6, <2>3, <3>1 DEF Lookup, NotNewer
  <2> QED BY <1>6, <2>2, <2>3 DEF Lookup, Go, q
<1>7. ASSUME Fail(r), UNCHANGED <<bvf, manifests>> PROVE HitInv'
  BY <1>1, <1>2, <1>3, <1>7 DEF Fail, NotNewer
<1>8. CASE Load(r)
  <2> DEFINE n == [q EXCEPT !.manifest = bvf.version, !.at = "enter"]
  <2>1. q.at = "load" /\ (request' = [request EXCEPT ![r] = n] \/ Fail(r))
    BY <1>8 DEF Load, At, Go, q
  <2>2. NotNewer(q.stamp, bvf.version)
    BY <1>1 DEF NotNewer, HitOfRequest, RequestState, StampMatchesVersion, Stamps, Versions
  <2>3. HitOfRequest(n)
    BY <1>1, <2>1, <2>2 DEF HitOfRequest, RequestState
  <2> QED BY <1>1, <1>3, <1>7, <1>8, <2>1, <2>3 DEF Load, NotNewer
<1>9. CASE Enter(r)
  <2> DEFINE n == [q EXCEPT !.at = "index"]
  <2>1. q.at = "enter" /\ bvf' = bvf
    BY <1>9 DEF Enter, At, q
  <2>2. request' = [request EXCEPT ![r] = n] \/ request' = [request EXCEPT ![r] = Idle]
    BY <1>9 DEF Enter, Go, Fail, q
  <2>3. HitOfRequest(n)
    BY <1>1, <2>1 DEF HitOfRequest, RequestState
  <2>4. manifests' = manifests \/ manifests' = [stamp |-> q.stamp, manifest |-> q.manifest]
    BY <1>9 DEF Enter, q
  <2>5. Old'
    BY <1>1, <2>1, <2>4 DEF HitOfRequest, NotNewer
  <2> QED BY <1>2, <1>3, <2>1, <2>2, <2>3, <2>5
<1>10. CASE ReadIndex(r)
  <2> DEFINE n == [q EXCEPT !.index = bvf.version, !.stamp = 0, !.manifest = 0,
                            !.hit = FALSE, !.at = "key"]
  <2>1. n.stamp = 0 /\ ~n.hit /\ n.at = "key"
    BY <1>1 DEF RequestState
  <2>2. HitOfRequest(n)
    BY <1>1, <2>1 DEF HitOfRequest, Stamps
  <2>3. request' = [request EXCEPT ![r] = n] \/ Fail(r)
    BY <1>10 DEF ReadIndex, Go, q
  <2> QED BY <1>1, <1>3, <1>7, <1>10, <2>2, <2>3 DEF ReadIndex, NotNewer
<1>11. CASE StatTimeline(r)
  <2> DEFINE n == [q EXCEPT !.stamp = bvf.stamp, !.at = "find"]
  <2>1. q.at = "key" /\ (request' = [request EXCEPT ![r] = n])
    BY <1>11 DEF StatTimeline, At, Go, q
  <2>2. HitOfRequest(n)
    BY <1>1, <2>1 DEF HitOfRequest, RequestState, Stamps
  <2> QED BY <1>1, <1>3, <1>11, <2>1, <2>2 DEF StatTimeline, NotNewer
<1>12. CASE FindTimeline(r)
  <2> DEFINE found == [q EXCEPT !.timeline = timelines[KeyOf(r)], !.at = "fragment_key"]
             build == [q EXCEPT !.at = "build"]
  <2>1. /\ q.at = "find"
        /\ request' = [request EXCEPT ![r] = found] \/ request' = [request EXCEPT ![r] = build]
    BY <1>12 DEF FindTimeline, At, Go, q
  <2>2. HitOfRequest(found) /\ HitOfRequest(build)
    BY <1>1, <2>1 DEF HitOfRequest, RequestState
  <2> QED BY <1>1, <1>3, <1>12, <2>1, <2>2 DEF FindTimeline, NotNewer
<1>13. CASE Build(r)
  <2> DEFINE n == [q EXCEPT !.timeline = [index |-> q.index, data |-> bvf.version],
                            !.at = "build"]
  <2>1. q.at = "build" /\ (request' = [request EXCEPT ![r] = n] \/ Fail(r))
    BY <1>13 DEF Build, At, Go, q
  <2>2. HitOfRequest(n)
    BY <1>1, <2>1 DEF HitOfRequest, RequestState, Stamps
  <2> QED BY <1>1, <1>3, <1>7, <1>13, <2>1, <2>2 DEF Build, NotNewer
<1>14. CASE AddTimeline(r)
  <2> DEFINE n == [q EXCEPT !.timeline = timelines'[KeyOf(r)], !.at = "fragment_key"]
  <2>1. q.at = "build" /\ (request' = [request EXCEPT ![r] = n])
    BY <1>14 DEF AddTimeline, At, Go, q
  <2>2. HitOfRequest(n)
    BY <1>1, <2>1 DEF HitOfRequest, RequestState, Stamps
  <2> QED BY <1>1, <1>3, <1>14, <2>1, <2>2 DEF AddTimeline, NotNewer
<1>15. CASE StatFragment(r)
  <2> DEFINE n == [q EXCEPT !.stamp = bvf.stamp, !.at = "fragment_find"]
  <2>1. q.at = "fragment_key" /\ (request' = [request EXCEPT ![r] = n])
    BY <1>15 DEF StatFragment, At, Go, q
  <2>2. HitOfRequest(n)
    BY <1>1, <2>1 DEF HitOfRequest, RequestState, Stamps
  <2> QED BY <1>1, <1>3, <1>15, <2>1, <2>2 DEF StatFragment, NotNewer
<1>16. CASE FindFragment(r)
  <2> DEFINE found == [q EXCEPT !.fragment = fragments[KeyOf(r)], !.at = "done"]
             assemble == [q EXCEPT !.at = "assemble"]
  <2>1. /\ q.at = "fragment_find"
        /\ request' = [request EXCEPT ![r] = found] \/ request' = [request EXCEPT ![r] = assemble]
    BY <1>16 DEF FindFragment, At, Go, q
  <2>2. HitOfRequest(found) /\ HitOfRequest(assemble)
    BY <1>1, <2>1 DEF HitOfRequest, RequestState
  <2> QED BY <1>1, <1>3, <1>16, <2>1, <2>2 DEF FindFragment, NotNewer
<1>17. CASE Assemble(r)
  <2> DEFINE n == [q EXCEPT !.fragment = [index |-> q.index, timeline |-> q.timeline, data |-> bvf.version],
                            !.at = "assemble"]
  <2>1. q.at = "assemble" /\ (request' = [request EXCEPT ![r] = n] \/ Fail(r))
    BY <1>17 DEF Assemble, At, Go, q
  <2>2. HitOfRequest(n)
    BY <1>1, <2>1 DEF HitOfRequest, RequestState, Stamps
  <2> QED BY <1>1, <1>3, <1>7, <1>17, <2>1, <2>2 DEF Assemble, NotNewer
<1>18. CASE AddFragment(r)
  <2> DEFINE n == [q EXCEPT !.fragment = fragments'[KeyOf(r)], !.at = "done"]
  <2>1. q.at = "assemble" /\ (request' = [request EXCEPT ![r] = n])
    BY <1>18 DEF AddFragment, At, Go, q
  <2>2. HitOfRequest(n)
    BY <1>1, <2>1 DEF HitOfRequest, RequestState, Stamps
  <2> QED BY <1>1, <1>3, <1>18, <2>1, <2>2 DEF AddFragment, NotNewer
<1>19. CASE Answer(r)
  BY <1>7, <1>19 DEF Answer, Fail
<1> QED BY <1>4, <1>5, <1>6, <1>8, <1>9, <1>10, <1>11, <1>12, <1>13, <1>14,
           <1>15, <1>16, <1>17, <1>18, <1>19 DEF RequestStep

LEMMA HitInvInit == Init => HitInv
BY TypeInvInit DEF Init, HitInv, Idle, HitOfRequest

LEMMA HitInvInductive == HitInv /\ [Next]_vars => HitInv'
<1> SUFFICES ASSUME HitInv, [Next]_vars, TypeInv' PROVE HitInv'
  BY TypeInvInductive DEF HitInv
<1>1. CASE Truncate \/ WriteRest
  <2>1. /\ bvf.version \in Nat /\ bvf.stamp \in Nat
        /\ bvf'.version \in Nat /\ bvf'.stamp \in Nat
        /\ bvf'.version >= bvf.version /\ bvf'.stamp >= bvf.stamp
        /\ manifests' = manifests /\ request' = Disturbed
    <3>1. bvf \in [version : Versions, whole : BOOLEAN, stamp : Stamps]
      BY DEF HitInv, TypeInv, TypeOK
    <3>2. CASE Truncate
      BY <3>1, <3>2 DEF Truncate, Versions, Stamps
    <3>3. CASE WriteRest
      <4>1. bvf' = [version |-> bvf.version, whole |-> TRUE, stamp |-> bvf.stamp + 1]
        BY <3>1, <3>3 DEF WriteRest
      <4> QED BY <3>1, <3>3, <4>1 DEF WriteRest, Versions, Stamps
    <3> QED BY <1>1, <3>2, <3>3
  <2>2. ASSUME NEW r \in Requests PROVE HitOfRequest(request[r])'
    <3> DEFINE q == request[r]
               n == [q EXCEPT !.quiet = FALSE]
    <3>1. q \in RequestState /\ HitOfRequest(q)
      BY DEF HitInv, TypeInv, TypeOK
    <3>2. request'[r] = n
      BY <2>1 DEF Disturbed
    <3> HIDE DEF q
    <3>3. /\ ~n.quiet /\ n.stamp = q.stamp /\ n.at = q.at /\ n.hit = q.hit
          /\ n.manifest = q.manifest /\ q.stamp \in Nat /\ q.manifest \in Nat
      BY <3>1 DEF RequestState, Stamps, Versions
    <3> QED BY <2>1, <3>1, <3>2, <3>3 DEF HitOfRequest, NotNewer
  <2>3. manifests # NoEntry => manifests.stamp \in Nat /\ manifests.manifest \in Nat
    BY DEF HitInv, TypeInv, TypeOK, Entry, Stamps, Versions
  <2> QED BY <2>1, <2>2, <2>3 DEF HitInv, NotNewer
<1>2. ASSUME NEW r \in Requests, RequestStep(r) PROVE HitInv'
  BY <1>2, RequestStepHit
<1>3. CASE EvictFragment \/ ClearCache \/ UNCHANGED vars
  <2>1. bvf' = bvf /\ request' = request /\ (manifests' = manifests \/ manifests' = NoEntry)
    BY <1>3 DEF EvictFragment, ClearCache, vars
  <2> QED BY <2>1 DEF HitInv, HitOfRequest, NotNewer
<1> QED BY <1>1, <1>2, <1>3 DEF Next

\* A manifest served from the cache while nobody writes the file is the
\* manifest of that file, for any number of requests, versions and races in
\* the unsynchronised dictionary (BvfManifestCache.GetOrLoad).
THEOREM HitIsCurrent == Spec => []ManifestHitIsCurrent
<1>1. HitInv => ManifestHitIsCurrent
  BY DEF HitInv, HitOfRequest, ManifestHitIsCurrent
<1> QED BY <1>1, HitInvInit, HitInvInductive, PTL DEF Spec

-----------------------------------------------------------------------------
(* A quiet request. *)

\* A timeline and a fragment were cut from a version that is not older than
\* the index they were located with, and not newer than the file.
SaneTimeline(t) == t.index <= t.data /\ t.data <= bvf.version
SaneFragment(g) == SaneTimeline(g) /\ SaneTimeline(g.timeline)

\* They were located with an index of the same layout.
OfLayout(t, layout) == Layout[t.index] = layout
FragmentOfLayout(g, layout) == OfLayout(g, layout) /\ OfLayout(g.timeline, layout)

SaneEntries ==
    /\ \A k \in DOMAIN timelines :
          SaneTimeline(timelines[k]) /\ OfLayout(timelines[k], k.layout)
    /\ \A k \in DOMAIN fragments :
          SaneFragment(fragments[k]) /\ FragmentOfLayout(fragments[k], k.layout)

\* The same of what a request holds.
Coherent(q) ==
    /\ q.at \in WithIndex =>
          q.index <= bvf.version /\ (q.quiet => q.index = bvf.version)
    /\ q.timeline # NoEntry => q.at \in WithTimeline \cup {"build"}
    /\ q.at \in WithTimeline \/ q.timeline # NoEntry =>
          SaneTimeline(q.timeline) /\ OfLayout(q.timeline, Layout[q.index])
    /\ q.fragment # NoEntry => q.at \in {"assemble", "done"}
    /\ q.at = "done" \/ q.fragment # NoEntry =>
          SaneFragment(q.fragment) /\ FragmentOfLayout(q.fragment, Layout[q.index])

\* The inductive invariant: an entry has the layout of its key and was read no
\* earlier than its index, so an entry for the layout of the newest version is
\* all of that version.
CoherenceInv ==
    /\ TypeInv
    /\ SaneEntries
    /\ \A r \in Requests : Coherent(request[r])

LEMMA RequestStepCoherent ==
    ASSUME CoherenceInv, NEW r \in Requests, RequestStep(r), TypeInv'
    PROVE  CoherenceInv'
<1> DEFINE q == request[r]
<1>1. /\ q \in RequestState /\ Progressed(q) /\ Coherent(q)
      /\ bvf.version \in Nat /\ SaneEntries
  BY DEF CoherenceInv, TypeInv, TypeOK, Versions
<1>2. Coherent(Idle)
  BY DEF Idle, Coherent, WithIndex, WithTimeline
<1>3. ASSUME NEW n, request' = [request EXCEPT ![r] = n], Coherent(n), bvf' = bvf, SaneEntries'
      PROVE  CoherenceInv'
  BY <1>3 DEF CoherenceInv, TypeInv, TypeOK, Coherent, SaneTimeline, SaneFragment
<1>4. ASSUME UNCHANGED <<bvf, timelines, fragments>> PROVE SaneEntries'
  BY <1>1, <1>4 DEF SaneEntries, SaneTimeline, SaneFragment
<1>5. ASSUME Fail(r), UNCHANGED <<bvf, timelines, fragments>> PROVE CoherenceInv'
  BY <1>2, <1>3, <1>4, <1>5 DEF Fail
<1> HIDE DEF q
<1> USE DEF WithIndex, WithTimeline
<1>6. CASE Begin(r)
  <2>1. Coherent([Idle EXCEPT !.quiet = TRUE, !.at = "stat"])
    BY DEF Idle, Coherent
  <2> QED BY <1>3, <1>4, <1>6, <2>1 DEF Begin, Go
<1>7. CASE Stat(r) \/ Lookup(r) \/ Load(r) \/ Enter(r)
  <2>1. /\ q.at \in {"stat", "lookup", "load", "enter"}
        /\ UNCHANGED <<bvf, timelines, fragments>>
    BY <1>7 DEF Stat, Lookup, Load, Enter, At, q
  <2>2. ASSUME NEW n,
               n.at \in {"lookup", "load", "enter", "index"},
               n.timeline = q.timeline, n.fragment = q.fragment
        PROVE  Coherent(n)
    BY <1>1, <2>1, <2>2 DEF Coherent
  <2>3. CASE Stat(r)
    <3> DEFINE n == [q EXCEPT !.stamp = bvf.stamp, !.at = "lookup"]
    <3>0. n.at = "lookup" /\ n.timeline = q.timeline /\ n.fragment = q.fragment
      BY <1>1 DEF RequestState
    <3>1. Coherent(n)
      <4> HIDE DEF n
      <4> QED BY <3>0, <2>2
    <3>2. request' = [request EXCEPT ![r] = n]
      BY <2>3 DEF Stat, Go, q
    <3> QED BY <1>3, <1>4, <2>1, <3>1, <3>2
  <2>4. CASE Lookup(r)
    <3> DEFINE hit == [q EXCEPT !.manifest = manifests.manifest, !.hit = TRUE, !.at = "index"]
               miss == [q EXCEPT !.at = "load"]
    <3>0. /\ hit.at = "index" /\ hit.timeline = q.timeline /\ hit.fragment = q.fragment
          /\ miss.at = "load" /\ miss.timeline = q.timeline /\ miss.fragment = q.fragment
      BY <1>1 DEF RequestState
    <3>1. Coherent(hit) /\ Coherent(miss)
      <4> HIDE DEF hit, miss
      <4> QED BY <3>0, <2>2
    <3>2. request' = [request EXCEPT ![r] = hit] \/ request' = [request EXCEPT ![r] = miss]
      BY <2>4 DEF Lookup, Go, q
    <3> QED BY <1>3, <1>4, <2>1, <3>1, <3>2
  <2>5. CASE Load(r)
    <3> DEFINE n == [q EXCEPT !.manifest = bvf.version, !.at = "enter"]
    <3>0. n.at = "enter" /\ n.timeline = q.timeline /\ n.fragment = q.fragment
      BY <1>1 DEF RequestState
    <3>1. Coherent(n)
      <4> HIDE DEF n
      <4> QED BY <3>0, <2>2
    <3>2. request' = [request EXCEPT ![r] = n] \/ Fail(r)
      BY <2>5 DEF Load, Go, q
    <3> QED BY <1>3, <1>4, <1>5, <2>1, <3>1, <3>2
  <2>6. CASE Enter(r)
    <3> DEFINE n == [q EXCEPT !.at = "index"]
    <3>0. n.at = "index" /\ n.timeline = q.timeline /\ n.fragment = q.fragment
      BY <1>1 DEF RequestState
    <3>1. Coherent(n)
      <4> HIDE DEF n
      <4> QED BY <3>0, <2>2
    <3>2. request' = [request EXCEPT ![r] = n] \/ Fail(r)
      BY <2>6 DEF Enter, Go, q
    <3> QED BY <1>3, <1>4, <1>5, <2>1, <3>1, <3>2
  <2> QED BY <1>7, <2>3, <2>4, <2>5, <2>6
<1>8. CASE ReadIndex(r)
  <2> DEFINE n == [q EXCEPT !.index = bvf.version, !.stamp = 0, !.manifest = 0,
                            !.hit = FALSE, !.at = "key"]
  <2>1. q.at = "index" /\ (request' = [request EXCEPT ![r] = n] \/ Fail(r))
    BY <1>8 DEF ReadIndex, At, Go, q
  <2>2. n.at = "key" /\ n.index = bvf.version /\ n.timeline = q.timeline /\ n.fragment = q.fragment
    BY <1>1 DEF RequestState
  <2>3. Coherent(n)
    BY <1>1, <2>1, <2>2 DEF Coherent
  <2> QED BY <1>3, <1>4, <1>5, <1>8, <2>1, <2>3 DEF ReadIndex
<1>9. CASE StatTimeline(r)
  <2> DEFINE n == [q EXCEPT !.stamp = bvf.stamp, !.at = "find"]
  <2>1. q.at = "key" /\ request' = [request EXCEPT ![r] = n]
    BY <1>9 DEF StatTimeline, At, Go, q
  <2>2. Coherent(n)
    BY <1>1, <2>1 DEF Coherent, RequestState
  <2> QED BY <1>3, <1>4, <1>9, <2>1, <2>2 DEF StatTimeline
<1>10. CASE FindTimeline(r)
  <2> DEFINE found == [q EXCEPT !.timeline = timelines[KeyOf(r)], !.at = "fragment_key"]
             build == [q EXCEPT !.at = "build"]
  <2>1. q.at = "find"
    BY <1>10 DEF FindTimeline, At, q
  <2>2. CASE KeyOf(r) \in DOMAIN timelines
    <3>1. SaneTimeline(timelines[KeyOf(r)]) /\ OfLayout(timelines[KeyOf(r)], Layout[q.index])
      BY <1>1, <2>2 DEF SaneEntries, KeyOf, q
    <3>2. Coherent(found)
      BY <1>1, <2>1, <3>1 DEF Coherent, RequestState
    <3>3. request' = [request EXCEPT ![r] = found]
      BY <1>10, <2>2 DEF FindTimeline, Go, q
    <3> QED BY <1>3, <1>4, <1>10, <3>2, <3>3 DEF FindTimeline
  <2>3. CASE KeyOf(r) \notin DOMAIN timelines
    <3>1. Coherent(build)
      BY <1>1, <2>1 DEF Coherent, RequestState
    <3>2. request' = [request EXCEPT ![r] = build]
      BY <1>10, <2>3 DEF FindTimeline, Go, q
    <3> QED BY <1>3, <1>4, <1>10, <3>1, <3>2 DEF FindTimeline
  <2> QED BY <2>2, <2>3
<1>11. CASE Build(r)
  <2> DEFINE t == [index |-> q.index, data |-> bvf.version]
             n == [q EXCEPT !.timeline = t, !.at = "build"]
  <2>1. q.at = "build" /\ (request' = [request EXCEPT ![r] = n] \/ Fail(r))
    BY <1>11 DEF Build, At, Go, q
  <2>2. SaneTimeline(t) /\ OfLayout(t, Layout[q.index])
    BY <1>1, <2>1 DEF Coherent, SaneTimeline, OfLayout
  <2> HIDE DEF t
  <2>3. Coherent(n)
    BY <1>1, <2>1, <2>2 DEF Coherent, RequestState
  <2> QED BY <1>3, <1>4, <1>5, <1>11, <2>1, <2>3 DEF Build
<1>12. CASE AddTimeline(r)
  <2> DEFINE n == [q EXCEPT !.timeline = timelines'[KeyOf(r)], !.at = "fragment_key"]
  <2>1. /\ q.at = "build" /\ q.timeline # NoEntry /\ request' = [request EXCEPT ![r] = n]
        /\ bvf' = bvf /\ fragments' = fragments
    BY <1>12 DEF AddTimeline, At, Go, q
  <2>2. \/ KeyOf(r) \in DOMAIN timelines /\ timelines' = timelines
        \/ timelines' = Put(timelines, KeyOf(r), q.timeline)
    BY <1>12 DEF AddTimeline, q
  <2>3. KeyOf(r).layout = Layout[q.index]
    BY DEF KeyOf, q
  <2>4. SaneTimeline(q.timeline) /\ OfLayout(q.timeline, Layout[q.index])
    BY <1>1, <2>1 DEF Coherent
  <2>5. \A k \in DOMAIN timelines' : SaneTimeline(timelines'[k]) /\ OfLayout(timelines'[k], k.layout)
    BY <1>1, <2>2, <2>3, <2>4 DEF SaneEntries, Put
  <2>6. SaneEntries'
    BY <1>1, <2>1, <2>5 DEF SaneEntries, SaneTimeline, SaneFragment
  <2>7. KeyOf(r) \in DOMAIN timelines'
    BY <2>2 DEF Put
  <2>8. Coherent(n)
    BY <1>1, <2>1, <2>3, <2>5, <2>7 DEF Coherent, RequestState
  <2> QED BY <1>3, <2>1, <2>6, <2>8
<1>13. CASE StatFragment(r)
  <2> DEFINE n == [q EXCEPT !.stamp = bvf.stamp, !.at = "fragment_find"]
  <2>1. q.at = "fragment_key" /\ request' = [request EXCEPT ![r] = n]
    BY <1>13 DEF StatFragment, At, Go, q
  <2>2. Coherent(n)
    BY <1>1, <2>1 DEF Coherent, RequestState
  <2> QED BY <1>3, <1>4, <1>13, <2>1, <2>2 DEF StatFragment
<1>14. CASE FindFragment(r)
  <2> DEFINE found == [q EXCEPT !.fragment = fragments[KeyOf(r)], !.at = "done"]
             assemble == [q EXCEPT !.at = "assemble"]
  <2>1. q.at = "fragment_find"
    BY <1>14 DEF FindFragment, At, q
  <2>2. CASE KeyOf(r) \in DOMAIN fragments
    <3>1. /\ SaneFragment(fragments[KeyOf(r)])
          /\ FragmentOfLayout(fragments[KeyOf(r)], Layout[q.index])
      BY <1>1, <2>2 DEF SaneEntries, KeyOf, q
    <3>2. Coherent(found)
      BY <1>1, <2>1, <3>1 DEF Coherent, RequestState
    <3>3. request' = [request EXCEPT ![r] = found]
      BY <1>14, <2>2 DEF FindFragment, Go, q
    <3> QED BY <1>3, <1>4, <1>14, <3>2, <3>3 DEF FindFragment
  <2>3. CASE KeyOf(r) \notin DOMAIN fragments
    <3>1. Coherent(assemble)
      BY <1>1, <2>1 DEF Coherent, RequestState
    <3>2. request' = [request EXCEPT ![r] = assemble]
      BY <1>14, <2>3 DEF FindFragment, Go, q
    <3> QED BY <1>3, <1>4, <1>14, <3>1, <3>2 DEF FindFragment
  <2> QED BY <2>2, <2>3
<1>15. CASE Assemble(r)
  <2> DEFINE g == [index |-> q.index, timeline |-> q.timeline, data |-> bvf.version]
             n == [q EXCEPT !.fragment = g, !.at = "assemble"]
  <2>1. q.at = "assemble" /\ (request' = [request EXCEPT ![r] = n] \/ Fail(r))
    BY <1>15 DEF Assemble, At, Go, q
  <2>2. SaneFragment(g) /\ FragmentOfLayout(g, Layout[q.index])
    BY <1>1, <2>1 DEF Coherent, SaneFragment, SaneTimeline, FragmentOfLayout, OfLayout
  <2> HIDE DEF g
  <2>3. Coherent(n)
    BY <1>1, <2>1, <2>2 DEF Coherent, RequestState
  <2> QED BY <1>3, <1>4, <1>5, <1>15, <2>1, <2>3 DEF Assemble
<1>16. CASE AddFragment(r)
  <2> DEFINE n == [q EXCEPT !.fragment = fragments'[KeyOf(r)], !.at = "done"]
  <2>1. /\ q.at = "assemble" /\ q.fragment # NoEntry /\ request' = [request EXCEPT ![r] = n]
        /\ bvf' = bvf /\ timelines' = timelines
    BY <1>16 DEF AddFragment, At, Go, q
  <2>2. \/ KeyOf(r) \in DOMAIN fragments /\ fragments' = fragments
        \/ fragments' = Put(fragments, KeyOf(r), q.fragment)
    BY <1>16 DEF AddFragment, q
  <2>3. KeyOf(r).layout = Layout[q.index]
    BY DEF KeyOf, q
  <2>4. SaneFragment(q.fragment) /\ FragmentOfLayout(q.fragment, Layout[q.index])
    BY <1>1, <2>1 DEF Coherent
  <2>5. \A k \in DOMAIN fragments' :
            SaneFragment(fragments'[k]) /\ FragmentOfLayout(fragments'[k], k.layout)
    BY <1>1, <2>2, <2>3, <2>4 DEF SaneEntries, Put
  <2>6. SaneEntries'
    BY <1>1, <2>1, <2>5 DEF SaneEntries, SaneTimeline, SaneFragment
  <2>7. KeyOf(r) \in DOMAIN fragments'
    BY <2>2 DEF Put
  <2>8. Coherent(n)
    BY <1>1, <2>1, <2>3, <2>5, <2>7 DEF Coherent, RequestState
  <2> QED BY <1>3, <2>1, <2>6, <2>8
<1>17. CASE Answer(r)
  BY <1>5, <1>17 DEF Answer, Fail
<1> QED BY <1>6, <1>7, <1>8, <1>9, <1>10, <1>11, <1>12, <1>13, <1>14, <1>15, <1>16, <1>17
        DEF RequestStep

LEMMA CoherenceInvInit == Init => CoherenceInv
BY TypeInvInit DEF Init, CoherenceInv, SaneEntries, Idle, Coherent, WithIndex, WithTimeline

LEMMA CoherenceInvInductive == CoherenceInv /\ [Next]_vars => CoherenceInv'
<1> SUFFICES ASSUME CoherenceInv, [Next]_vars, TypeInv' PROVE CoherenceInv'
  BY TypeInvInductive DEF CoherenceInv
<1>1. CASE Truncate \/ WriteRest
  <2>1. /\ bvf.version \in Nat /\ bvf'.version \in Nat /\ bvf'.version >= bvf.version
        /\ timelines' = timelines /\ fragments' = fragments /\ request' = Disturbed
    <3>1. bvf \in [version : Versions, whole : BOOLEAN, stamp : Stamps]
      BY DEF CoherenceInv, TypeInv, TypeOK
    <3>2. CASE Truncate
      BY <3>1, <3>2 DEF Truncate, Versions
    <3>3. CASE WriteRest
      <4>1. bvf' = [version |-> bvf.version, whole |-> TRUE, stamp |-> bvf.stamp + 1]
        BY <3>1, <3>3 DEF WriteRest
      <4> QED BY <3>1, <3>3, <4>1 DEF WriteRest, Versions
    <3> QED BY <1>1, <3>2, <3>3
  <2>2. ASSUME NEW t, t.index \in Nat, t.data \in Nat, SaneTimeline(t) PROVE SaneTimeline(t)'
    BY <2>1, <2>2 DEF SaneTimeline
  <2>3. SaneEntries'
    <3>1. ASSUME NEW k \in DOMAIN timelines
          PROVE  SaneTimeline(timelines[k])' /\ OfLayout(timelines[k], k.layout)
      <4>1. timelines[k] \in Timeline /\ SaneTimeline(timelines[k]) /\ OfLayout(timelines[k], k.layout)
        BY DEF CoherenceInv, SaneEntries, TypeInv, TypeOK
      <4> QED BY <2>1, <4>1 DEF SaneTimeline, Timeline, Versions
    <3>2. ASSUME NEW k \in DOMAIN fragments
          PROVE  SaneFragment(fragments[k])' /\ FragmentOfLayout(fragments[k], k.layout)
      <4>1. /\ fragments[k] \in Fragment
            /\ SaneFragment(fragments[k]) /\ FragmentOfLayout(fragments[k], k.layout)
        BY DEF CoherenceInv, SaneEntries, TypeInv, TypeOK
      <4> QED BY <2>1, <4>1 DEF SaneFragment, SaneTimeline, Fragment, Timeline, Versions
    <3> QED BY <2>1, <3>1, <3>2 DEF SaneEntries
  <2>4. ASSUME NEW q, q \in RequestState, Progressed(q), Coherent(q),
               NEW n, ~n.quiet, n.at = q.at, n.index = q.index,
               n.timeline = q.timeline, n.fragment = q.fragment
        PROVE  Coherent(n)'
    <3>1. q.at \in WithIndex => q.index <= bvf'.version
      BY <2>1, <2>4 DEF Coherent, RequestState, Progressed, Versions
    <3>2. q.timeline # NoEntry \/ q.at \in WithTimeline => SaneTimeline(q.timeline)'
      BY <2>1, <2>4 DEF Coherent, SaneTimeline, RequestState, Progressed, Timeline, Versions
    <3>3. q.fragment # NoEntry \/ q.at = "done" => SaneFragment(q.fragment)'
      <4> SUFFICES ASSUME q.fragment # NoEntry \/ q.at = "done"
                   PROVE  SaneFragment(q.fragment)'
        OBVIOUS
      <4>1. q.fragment \in Fragment /\ SaneFragment(q.fragment)
        BY <2>4 DEF RequestState, Progressed, Coherent
      <4> QED BY <2>1, <4>1 DEF SaneFragment, SaneTimeline, Fragment, Timeline, Versions
    <3> QED BY <2>4, <3>1, <3>2, <3>3 DEF Coherent
  <2>5. ASSUME NEW r \in Requests PROVE Coherent(request[r])'
    <3> DEFINE q == request[r]
               n == request'[r]
    <3>1. /\ q \in RequestState /\ Progressed(q) /\ Coherent(q)
          /\ n = [q EXCEPT !.quiet = FALSE]
      BY <2>1 DEF CoherenceInv, TypeInv, TypeOK, Disturbed
    <3>2. /\ ~n.quiet /\ n.at = q.at /\ n.index = q.index
          /\ n.timeline = q.timeline /\ n.fragment = q.fragment
      <4> HIDE DEF q, n
      <4> QED BY <3>1 DEF RequestState
    <3>3. ASSUME NEW m, m = n PROVE Coherent(m)'
      BY <2>4, <3>1, <3>2, <3>3
    <3> QED BY <3>3 DEF Coherent
  <2> QED BY <2>3, <2>5 DEF CoherenceInv
<1>2. ASSUME NEW r \in Requests, RequestStep(r) PROVE CoherenceInv'
  BY <1>2, RequestStepCoherent
<1>3. CASE EvictFragment \/ ClearCache \/ UNCHANGED vars
  <2>1. /\ bvf' = bvf /\ request' = request
        /\ timelines' = timelines \/ timelines' = <<>>
        /\ \A k \in DOMAIN fragments' : k \in DOMAIN fragments /\ fragments'[k] = fragments[k]
    <3>1. CASE EvictFragment
      BY <3>1 DEF EvictFragment
    <3>2. CASE ClearCache
      BY <3>2 DEF ClearCache
    <3> QED BY <1>3, <3>1, <3>2 DEF vars
  <2>2. SaneEntries'
    BY <2>1 DEF CoherenceInv, SaneEntries, SaneTimeline, SaneFragment
  <2> QED BY <2>1, <2>2 DEF CoherenceInv, Coherent, SaneTimeline, SaneFragment
<1> QED BY <1>1, <1>2, <1>3 DEF Next

\* Every version of the file has its blocks elsewhere.
LayoutsDiffer == \A v, w \in Versions : Layout[v] = Layout[w] => v = w

\* Where layouts differ, a request during which nobody writes the file gets a
\* timeline and a part that are cut from this file and nothing else, whatever
\* is left in the shared caches, for any number of requests and of versions.
THEOREM QuietIsCoherent ==
    ASSUME LayoutsDiffer
    PROVE  Spec => []QuietRequestIsCoherent
<1>1. CoherenceInv => QuietRequestIsCoherent
  <2> SUFFICES ASSUME CoherenceInv, NEW r \in Requests, At(r, "done"), request[r].quiet
               PROVE  LET now == [index |-> bvf.version, data |-> bvf.version]
                      IN  /\ request[r].timeline = now
                          /\ request[r].fragment = [index |-> bvf.version, timeline |-> now,
                                                    data |-> bvf.version]
    BY DEF QuietRequestIsCoherent
  <2> DEFINE q == request[r]
  <2>1. /\ q.at = "done" /\ q.quiet /\ Coherent(q) /\ bvf.version \in Versions
        /\ q.timeline \in Timeline /\ q.fragment \in Fragment
    BY DEF CoherenceInv, TypeInv, TypeOK, Progressed, At, WithTimeline
  <2> HIDE DEF q
  <2>2. /\ q.index = bvf.version
        /\ SaneTimeline(q.timeline) /\ OfLayout(q.timeline, Layout[bvf.version])
        /\ SaneFragment(q.fragment) /\ FragmentOfLayout(q.fragment, Layout[bvf.version])
    BY <2>1 DEF Coherent, WithIndex, WithTimeline
  <2>3. ASSUME NEW t, t.index \in Versions, t.data \in Versions, SaneTimeline(t),
               OfLayout(t, Layout[bvf.version])
        PROVE  t.index = bvf.version /\ t.data = bvf.version
    BY <2>1, <2>3, LayoutsDiffer DEF LayoutsDiffer, SaneTimeline, OfLayout, Versions
  <2>4. q.timeline = [index |-> bvf.version, data |-> bvf.version]
    BY <2>1, <2>2, <2>3 DEF Timeline
  <2>5. q.fragment.timeline = [index |-> bvf.version, data |-> bvf.version]
    BY <2>1, <2>2, <2>3 DEF Fragment, Timeline, SaneFragment, FragmentOfLayout
  <2>6. q.fragment.index = bvf.version /\ q.fragment.data = bvf.version
    BY <2>1, <2>2, <2>3 DEF Fragment, SaneFragment, FragmentOfLayout
  <2> QED BY <2>1, <2>4, <2>5, <2>6 DEF Fragment, q
<1> QED BY <1>1, CoherenceInvInit, CoherenceInvInductive, PTL DEF Spec

=============================================================================
