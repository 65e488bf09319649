------------------------- MODULE ProjectStoreProofs ------------------------
(* Theorems about ProjectStore for every set of requests, clients and clips *)
(* and any number of crashes: type correctness, the project file is never   *)
(* torn, stored segments name known clips, and listed clips have files.     *)
(* Until a save overwrites another one, revisions name contents and a put   *)
(* replaces what it was made from; a detection always keeps the reviewed    *)
(* segments it has loaded.                                                  *)
EXTENDS ProjectStore, TLAPS

USE ClipsAssumption, CrashAssumption, OldSegmentAssumption

-----------------------------------------------------------------------------
(* Type correctness. *)

\* The edits a client can send are sets of segments.
LEMMA EditsAreSegments ==
    ASSUME NEW v \in Project PROVE EditsOf(v) \subseteq SUBSET Segment
<1>1. v.segments \in SUBSET Segment /\ v.clips \in SUBSET Clips
  BY DEF Project
<1>2. {[s EXCEPT !.reviewed = TRUE] : s \in v.segments} \in SUBSET Segment
  BY <1>1 DEF Segment
<1>3. {s \in v.segments : s.reviewed} \in SUBSET Segment
  BY <1>1
<1>4. ASSUME NEW s \in v.segments, NEW c \in v.clips
      PROVE  (v.segments \ {s}) \cup {[s EXCEPT !.clip = c]} \in SUBSET Segment
  <2>1. [s EXCEPT !.clip = c] \in Segment
    BY <1>1 DEF Segment
  <2> QED BY <1>1, <2>1
<1> QED BY <1>1, <1>2, <1>3, <1>4 DEF EditsOf

\* Changing the segments or the revision of a project, and asking for the
\* result, stays within the types.
LEMMA AskedType ==
    ASSUME Stored \in Project, NEW op \in Ops, NEW copy \in Project, NEW at \in Points
    PROVE  Asked(op, copy, at) \in HandlerState
BY DEF Asked, HandlerState, First, Project, Segment

LEMMA WithSegmentsType ==
    ASSUME TypeOK, NEW segs \in SUBSET Segment
    PROVE  WithSegments(segs) \in Project
BY DEF TypeOK, File, WithSegments, Stored, Project

-----------------------------------------------------------------------------
(* The file. *)

\* A request that saves has its temporary file, synced before the rename; one
\* that receives a clip has its name.
RequestHasFile ==
    \A h \in Handlers :
        /\ handler[h].at \in {"written", "synced"} => tmp[h] \in File
        /\ handler[h].at = "synced" => tmp[h].bytes = "durable"
        /\ handler[h].at = "receiving" => handler[h].clip \in Clips

\* The inductive invariant.  Neither the types nor ProjectAlwaysReadable are
\* inductive without RequestHasFile, and bytes that are only cached would not
\* survive the crash that may follow.
FileInv == TypeOK /\ RequestHasFile /\ project.bytes = "durable"

LEMMA FileInvInit == Init => FileInv
<1> SUFFICES ASSUME Init PROVE FileInv
  OBVIOUS
<1>1. First \in Project
  BY DEF First, Project, Segment
<1>2. Asked("none", First, "idle") \in HandlerState
  BY <1>1, AskedType DEF Init, Stored, Ops, Points
<1>3. TypeOK
  <2>1. project \in File /\ handler \in [Handlers -> HandlerState] /\ lost \in BOOLEAN
    BY <1>1, <1>2 DEF Init, File, Bytes, Asked, Stored
  <2> QED BY <1>1, <2>1 DEF Init, TypeOK
<1> QED BY <1>3 DEF Init, FileInv, RequestHasFile, Asked

\* A request that has only loaded changes neither the file nor any temporary
\* one.
LEMMA LoadingKeepsFileInv ==
    ASSUME FileInv, NEW h \in Handlers,
           handler' = [handler EXCEPT ![h] = handler'[h]],
           handler'[h] \in HandlerState,
           \/ handler'[h].at \in {"loaded", "refused"}
           \/ handler'[h].at = "receiving" /\ handler'[h].clip \in Clips,
           UNCHANGED <<project, tmp, view, lost, crashes>>,
           clipFile' \in [Clips -> {"none", "partial", "whole"}]
    PROVE  FileInv'
<1>1. TypeOK'
  BY DEF FileInv, TypeOK
<1>2. \A k \in Handlers \ {h} : handler'[k] = handler[k]
  BY DEF FileInv, TypeOK
<1>3. RequestHasFile'
  BY <1>2 DEF FileInv, RequestHasFile
<1> QED BY <1>1, <1>3 DEF FileInv

\* What Loads leaves in the request's entry, and in the other entries.
LEMMA LoadsEntry ==
    ASSUME TypeOK, NEW h \in Handlers, NEW asked, Loads(h, asked)
    PROVE  handler'[h] = asked /\ handler' = [handler EXCEPT ![h] = handler'[h]]
BY DEF TypeOK, Loads

\* What the requests ask for is well typed and never skips the save.
LEMMA RequestKeepsFileInv ==
    ASSUME FileInv, NEW h \in Handlers, Request(h) PROVE FileInv'
<1> USE DEF FileInv
<1>0. Stored \in Project /\ Stored.segments \in SUBSET Segment
      /\ clipFile \in [Clips -> {"none", "partial", "whole"}]
  BY DEF TypeOK, Stored, File, Project
<1>1. ASSUME NEW c \in Clients, NEW segs \in EditsOf(view[c]), Put(h, c, segs)
      PROVE  FileInv'
  <2>1. view[c] \in Project /\ segs \in SUBSET Segment
    BY EditsAreSegments DEF TypeOK
  <2>2. ASSUME NEW ok \in BOOLEAN
        PROVE  /\ AskedPut(c, segs, ok) \in HandlerState
               /\ AskedPut(c, segs, ok).at \in {"loaded", "refused"}
    BY <1>0, <2>1, WithSegmentsType DEF AskedPut, HandlerState, Points, Ops
  <2> DEFINE ok == /\ view[c].revision = Stored.revision
                   /\ \A s \in segs : KnownClip(s, Stored)
             asked == AskedPut(c, segs, ok)
  <2>3. /\ Loads(h, asked)
        /\ UNCHANGED <<project, tmp, view, lost, crashes>>
        /\ clipFile' \in [Clips -> {"none", "partial", "whole"}]
    BY <1>0, <1>1 DEF Put
  <2>4. asked \in HandlerState /\ asked.at \in {"loaded", "refused"}
    <3>1. ok \in BOOLEAN
      OBVIOUS
    <3> HIDE DEF ok
    <3> QED BY <3>1, <2>2
  <2>5. handler'[h] = asked /\ handler' = [handler EXCEPT ![h] = handler'[h]]
    BY <2>3, LoadsEntry
  <2> QED BY <1>0, <2>3, <2>4, <2>5, LoadingKeepsFileInv
<1>s. ASSUME NEW op \in Ops, NEW segs \in SUBSET Segment, NEW seg \in Segment
      PROVE  /\ AskedSegment(op, segs, seg) \in HandlerState
             /\ AskedSegment(op, segs, seg).at \in {"loaded", "refused"}
  <2> DEFINE at == IF KnownClip(seg, Stored) THEN "loaded" ELSE "refused"
  <2>1. at \in {"loaded", "refused"}
    OBVIOUS
  <2>2. AskedSegment(op, segs, seg) = Asked(op, WithSegments(segs \cup {seg}), at)
    BY DEF AskedSegment
  <2> HIDE DEF at
  <2>3. WithSegments(segs \cup {seg}) \in Project
    <3>1. segs \cup {seg} \in SUBSET Segment
      OBVIOUS
    <3> QED BY <3>1, WithSegmentsType
  <2>4. Asked(op, WithSegments(segs \cup {seg}), at) \in HandlerState
    BY <1>0, <2>1, <2>3, AskedType DEF Points
  <2> QED BY <2>1, <2>2, <2>4 DEF Asked
<1>2. ASSUME NEW reviewed \in BOOLEAN, NEW clip \in Clips \cup {NoClip},
             AddSegment(h, reviewed, clip)
      PROVE  FileInv'
  <2> DEFINE seg == [id |-> h, reviewed |-> reviewed, clip |-> clip]
             asked == AskedSegment("add", Stored.segments, seg)
  <2>1. seg \in Segment
    BY DEF Segment
  <2>2. asked \in HandlerState /\ asked.at \in {"loaded", "refused"}
    BY <1>0, <1>s, <2>1 DEF Ops
  <2>3. Loads(h, asked) /\ UNCHANGED <<project, tmp, clipFile, view, lost, crashes>>
    BY <1>2 DEF AddSegment
  <2>4. handler'[h] = asked /\ handler' = [handler EXCEPT ![h] = handler'[h]]
    BY <2>3, LoadsEntry
  <2> QED BY <1>0, <2>2, <2>3, <2>4, LoadingKeepsFileInv
<1>3. ASSUME NEW seg \in Stored.segments, NEW reviewed \in BOOLEAN,
             NEW clip \in Clips \cup {NoClip}, PatchSegment(h, seg, reviewed, clip)
      PROVE  FileInv'
  <2> DEFINE new == [seg EXCEPT !.reviewed = reviewed, !.clip = clip]
             asked == AskedSegment("patch", Stored.segments \ {seg}, new)
  <2>1. new \in Segment
    BY <1>0 DEF Segment
  <2>2. asked \in HandlerState /\ asked.at \in {"loaded", "refused"}
    BY <1>0, <1>s, <2>1 DEF Ops
  <2>3. Loads(h, asked) /\ UNCHANGED <<project, tmp, clipFile, view, lost, crashes>>
    BY <1>3 DEF PatchSegment
  <2>4. handler'[h] = asked /\ handler' = [handler EXCEPT ![h] = handler'[h]]
    BY <2>3, LoadsEntry
  <2> QED BY <1>0, <2>2, <2>3, <2>4, LoadingKeepsFileInv
<1>4. ASSUME NEW seg \in Stored.segments, DeleteSegment(h, seg) PROVE FileInv'
  <2> DEFINE asked == Asked("delete", WithSegments(Stored.segments \ {seg}), "loaded")
  <2>1. asked \in HandlerState /\ asked.at = "loaded"
    BY <1>0, WithSegmentsType, AskedType DEF Ops, Points, Asked
  <2>3. Loads(h, asked) /\ UNCHANGED <<project, tmp, clipFile, view, lost, crashes>>
    BY <1>4 DEF DeleteSegment
  <2>4. handler'[h] = asked /\ handler' = [handler EXCEPT ![h] = handler'[h]]
    BY <2>3, LoadsEntry
  <2> QED BY <1>0, <2>1, <2>3, <2>4, LoadingKeepsFileInv
<1>5. ASSUME NEW clip \in Clips, UploadBegins(h, clip) PROVE FileInv'
  <2> DEFINE asked == [Asked("upload", Stored, "receiving") EXCEPT !.clip = clip]
  <2>1. Asked("upload", Stored, "receiving") \in HandlerState
    BY <1>0, AskedType DEF Ops, Points
  <2>2. asked \in HandlerState /\ asked.at = "receiving" /\ asked.clip = clip
    BY <2>1 DEF HandlerState, Asked
  <2>3. clipFile' \in [Clips -> {"none", "partial", "whole"}]
    BY <1>0, <1>5 DEF UploadBegins
  <2>4. Loads(h, asked) /\ UNCHANGED <<project, tmp, view, lost, crashes>>
    BY <1>5 DEF UploadBegins
  <2>5. handler'[h] = asked /\ handler' = [handler EXCEPT ![h] = handler'[h]]
    BY <2>4, LoadsEntry
  <2> HIDE DEF asked
  <2>6. handler'[h] \in HandlerState /\ handler'[h].at = "receiving"
        /\ handler'[h].clip \in Clips
    BY <2>2, <2>5
  <2> QED BY <2>3, <2>4, <2>5, <2>6, LoadingKeepsFileInv
<1>6. ASSUME NEW some \in BOOLEAN, Detect(h, some) PROVE FileInv'
  <2> DEFINE segs == {s \in Stored.segments : s.reviewed} \cup Found(h, some)
             asked == Asked("detect", WithSegments(segs), "loaded")
  <2>1. segs \in SUBSET Segment
    <3>1. Found(h, some) \in SUBSET Segment
      BY DEF Found, Segment
    <3> QED BY <1>0, <3>1
  <2>2. asked \in HandlerState /\ asked.at = "loaded"
    BY <1>0, <2>1, WithSegmentsType, AskedType DEF Ops, Points, Asked
  <2>3. Loads(h, asked) /\ UNCHANGED <<project, tmp, clipFile, view, lost, crashes>>
    BY <1>6 DEF Detect
  <2>4. handler'[h] = asked /\ handler' = [handler EXCEPT ![h] = handler'[h]]
    BY <2>3, LoadsEntry
  <2> QED BY <1>0, <2>2, <2>3, <2>4, LoadingKeepsFileInv
<1> QED BY <1>1, <1>2, <1>3, <1>4, <1>5, <1>6 DEF Request

\* A save and the end of an upload move one request along.
LEMMA SaveKeepsFileInv ==
    ASSUME FileInv, NEW h \in Handlers, Save(h) \/ UploadReceived(h) PROVE FileInv'
<1> USE DEF FileInv
<1>0. handler \in [Handlers -> HandlerState] /\ handler[h].copy \in Project
      /\ tmp \in [Handlers -> File \cup {NoFile}]
  BY DEF TypeOK, HandlerState
<1>a. ASSUME NEW at \in Points
      PROVE  [handler EXCEPT ![h].at = at] \in [Handlers -> HandlerState]
  <2>1. [handler[h] EXCEPT !.at = at] \in HandlerState
    BY <1>0 DEF HandlerState
  <2> QED BY <1>0, <2>1
<1>1. CASE SaveWrite(h)
  <2> DEFINE saved == [handler[h].copy EXCEPT !.revision = @ + 1]
  <2>1. saved \in Project
    BY <1>0 DEF Project
  <2>2. [content |-> saved, bytes |-> "cached"] \in File
    BY <2>1 DEF File, Bytes
  <2> HIDE DEF saved
  <2>3. /\ tmp' = [tmp EXCEPT ![h] = [content |-> saved, bytes |-> "cached"]]
        /\ handler' = [handler EXCEPT ![h].at = "written", ![h].copy = saved]
        /\ UNCHANGED <<project, clipFile, view, lost, crashes>>
    BY <1>1 DEF SaveWrite, saved
  <2>4. TypeOK'
    <3>1. [handler[h] EXCEPT !.at = "written", !.copy = saved] \in HandlerState
      BY <1>0, <2>1 DEF HandlerState, Points
    <3>2. handler' = [handler EXCEPT ![h] =
                        [handler[h] EXCEPT !.at = "written", !.copy = saved]]
      BY <1>0, <2>3
    <3> QED BY <1>0, <2>2, <2>3, <3>1, <3>2 DEF TypeOK
  <2>5. RequestHasFile'
    BY <1>0, <2>2, <2>3 DEF RequestHasFile
  <2> QED BY <2>3, <2>4, <2>5
<1>2. CASE SaveSync(h)
  <2>1. tmp[h] \in File
    BY <1>2 DEF SaveSync, RequestHasFile
  <2>2. [tmp[h] EXCEPT !.bytes = "durable"] \in File
    BY <2>1 DEF File, Bytes
  <2>3. TypeOK'
    <3>1. handler' \in [Handlers -> HandlerState]
      BY <1>a, <1>2 DEF SaveSync, Points
    <3> QED BY <1>0, <1>2, <2>2, <3>1 DEF SaveSync, TypeOK
  <2>4. RequestHasFile'
    <3>1. tmp'[h] \in File /\ tmp'[h].bytes = "durable"
      BY <1>0, <1>2, <2>1, <2>2 DEF SaveSync, File
    <3>2. \A k \in Handlers \ {h} : tmp'[k] = tmp[k] /\ handler'[k] = handler[k]
      BY <1>0, <1>2 DEF SaveSync
    <3>3. handler'[h].at = "synced"
      BY <1>0, <1>2 DEF SaveSync, HandlerState
    <3> QED BY <3>1, <3>2, <3>3 DEF RequestHasFile
  <2> QED BY <1>2, <2>3, <2>4 DEF SaveSync
<1>3. CASE SaveReplace(h)
  <2>1. project' \in File /\ project'.bytes = "durable"
    BY <1>3 DEF SaveReplace, RequestHasFile
  <2>2. TypeOK'
    <3>1. handler' \in [Handlers -> HandlerState]
      BY <1>a, <1>3 DEF SaveReplace, Points
    <3> QED BY <1>0, <1>3, <2>1, <3>1 DEF SaveReplace, TypeOK
  <2>3. RequestHasFile'
    BY <1>0, <1>3 DEF SaveReplace, RequestHasFile, HandlerState
  <2> QED BY <2>1, <2>2, <2>3
<1>4. CASE Fails(h)
  <2>1. TypeOK'
    <3>1. handler' \in [Handlers -> HandlerState]
      BY <1>a, <1>4 DEF Fails, Points
    <3> QED BY <1>0, <1>4, <3>1 DEF Fails, TypeOK
  <2>2. RequestHasFile'
    BY <1>0, <1>4 DEF Fails, RequestHasFile, HandlerState
  <2> QED BY <1>4, <2>1, <2>2 DEF Fails
<1>5. CASE UploadReceived(h)
  <2>1. handler[h].clip \in Clips
    BY <1>5 DEF UploadReceived, RequestHasFile
  <2>2. [handler[h].copy EXCEPT !.clips = @ \cup {handler[h].clip}] \in Project
    BY <1>0, <2>1 DEF Project
  <2>3. handler' = [handler EXCEPT ![h] =
                      [handler[h] EXCEPT !.at = "loaded",
                         !.copy = [handler[h].copy EXCEPT
                                     !.clips = @ \cup {handler[h].clip}]]]
    <3> DEFINE copy == [handler[h].copy EXCEPT !.clips = @ \cup {handler[h].clip}]
    <3>1. handler' = [handler EXCEPT ![h].at = "loaded", ![h].copy = copy]
      BY <1>5 DEF UploadReceived
    <3> HIDE DEF copy
    <3>2. handler' = [handler EXCEPT ![h] =
                        [handler[h] EXCEPT !.at = "loaded", !.copy = copy]]
      BY <1>0, <3>1
    <3> QED BY <3>2 DEF copy
  <2>4. handler' \in [Handlers -> HandlerState] /\ handler'[h].at = "loaded"
    BY <1>0, <2>2, <2>3 DEF HandlerState, Points
  <2>5. TypeOK'
    BY <1>5, <2>1, <2>4 DEF UploadReceived, TypeOK
  <2>6. \A k \in Handlers \ {h} : handler'[k] = handler[k]
    BY <1>0, <2>3
  <2>7. RequestHasFile'
    BY <1>5, <2>4, <2>6 DEF UploadReceived, RequestHasFile
  <2> QED BY <1>5, <2>5, <2>7 DEF UploadReceived
<1> QED BY <1>1, <1>2, <1>3, <1>4, <1>5 DEF Save

\* Every step keeps the invariant; a crash finds only durable bytes.
LEMMA FileInvInductive == FileInv /\ [Next]_vars => FileInv'
<1> SUFFICES ASSUME FileInv, [Next]_vars PROVE FileInv'
  OBVIOUS
<1>1. ASSUME NEW h \in Handlers, Request(h) \/ UploadReceived(h) \/ Save(h)
      PROVE  FileInv'
  BY <1>1, RequestKeepsFileInv, SaveKeepsFileInv
<1>2. ASSUME NEW c \in Clients, Get(c) PROVE FileInv'
  BY <1>2 DEF Get, FileInv, TypeOK, RequestHasFile, Stored, File
<1>3. CASE Crash
  <2> USE DEF FileInv
  <2>1. handler' \in [Handlers -> HandlerState]
    <3>1. \A k \in Handlers : [handler[k] EXCEPT !.at = "refused"] \in HandlerState
      BY DEF TypeOK, HandlerState, Points
    <3> QED BY <1>3, <3>1 DEF Crash, TypeOK
  <2>2. project' = project
    BY <1>3 DEF Crash, TypeOK, File
  <2>3. crashes' \in 0..MaxCrashes
    BY <1>3 DEF Crash, TypeOK
  <2>4. TypeOK'
    BY <1>3, <2>1, <2>2, <2>3 DEF Crash, TypeOK
  <2>5. \A k \in Handlers : handler'[k].at \notin {"receiving", "written", "synced"}
    BY <1>3 DEF Crash, InFlight, TypeOK, HandlerState
  <2>6. RequestHasFile'
    BY <2>5 DEF RequestHasFile
  <2> QED BY <2>2, <2>4, <2>6
<1>4. CASE UNCHANGED vars
  BY <1>4 DEF vars, FileInv, TypeOK, RequestHasFile
<1> QED BY <1>1, <1>2, <1>3, <1>4 DEF Next

\* The invariant above holds in every reachable state.
THEOREM FileInvHolds == Spec => []FileInv
BY FileInvInit, FileInvInductive, PTL DEF Spec

\* Every reachable state of the store has the declared types.
THEOREM TypeCorrect == Spec => []TypeOK
<1>1. FileInv => TypeOK
  BY DEF FileInv
<1> QED BY <1>1, FileInvHolds, PTL

\* project.json can be parsed in every state, whatever the number of requests
\* and wherever in their saves the crashes fall.
THEOREM NeverTorn == Spec => []ProjectAlwaysReadable
<1>1. FileInv => ProjectAlwaysReadable
  BY DEF FileInv, ProjectAlwaysReadable
<1> QED BY <1>1, FileInvHolds, PTL

-----------------------------------------------------------------------------
(* Replacement clips. *)

\* Every segment of a version names a clip of the same version.
Consistent(p) == \A s \in p.segments : KnownClip(s, p)

\* What a request will save is consistent, in its copy and in its file.
CopiesConsistent ==
    \A h \in Handlers :
        /\ InFlight(h) => Consistent(handler[h].copy)
        /\ handler[h].at \in {"written", "synced"} => Consistent(tmp[h].content)

\* The inductive invariant: StoredClipsAreKnown speaks of project.json only,
\* and the next version of it is in the copy of some request.
ClipsInv == FileInv /\ Consistent(Stored) /\ CopiesConsistent

\* A request that has loaded leaves all versions consistent if its own is.
LEMMA LoadingKeepsClipsInv ==
    ASSUME ClipsInv, NEW h \in Handlers,
           handler' = [handler EXCEPT ![h] = handler'[h]],
           handler'[h].at \in {"loaded", "refused", "receiving"},
           handler'[h].at = "refused" \/ Consistent(handler'[h].copy),
           UNCHANGED <<project, tmp>>
    PROVE  Consistent(Stored)' /\ CopiesConsistent'
<1>1. \A k \in Handlers \ {h} : handler'[k] = handler[k]
  BY DEF ClipsInv, FileInv, TypeOK
<1>2. Consistent(Stored)'
  BY DEF ClipsInv, Consistent, Stored, KnownClip
<1>3. ASSUME NEW k \in Handlers, k # h
      PROVE  /\ InFlight(k)' => Consistent(handler'[k].copy)
             /\ handler'[k].at \in {"written", "synced"} => Consistent(tmp'[k].content)
  BY <1>1, <1>3 DEF ClipsInv, CopiesConsistent, InFlight
<1>4. /\ InFlight(h)' => Consistent(handler'[h].copy)
      /\ handler'[h].at \notin {"written", "synced"}
  BY DEF InFlight
<1> QED BY <1>2, <1>3, <1>4 DEF CopiesConsistent, Consistent, KnownClip

\* Every request validates its clips against the very copy it will save.
LEMMA RequestKeepsClips ==
    ASSUME ClipsInv, NEW h \in Handlers, Request(h)
    PROVE  Consistent(Stored)' /\ CopiesConsistent'
<1>0. TypeOK /\ Stored \in Project
  BY DEF ClipsInv, FileInv, TypeOK, File, Stored
<1>a. ASSUME NEW segs PROVE WithSegments(segs).segments = segs
                            /\ WithSegments(segs).clips = Stored.clips
  BY <1>0 DEF WithSegments, Project
<1>b. ASSUME NEW asked, Loads(h, asked), UNCHANGED <<project, tmp>>,
             asked.at \in {"loaded", "refused", "receiving"},
             asked.at = "refused" \/ Consistent(asked.copy)
      PROVE  Consistent(Stored)' /\ CopiesConsistent'
  <2>1. handler'[h] = asked /\ handler' = [handler EXCEPT ![h] = handler'[h]]
    BY <1>0, <1>b, LoadsEntry
  <2> QED BY <1>b, <2>1, LoadingKeepsClipsInv
<1>c. \A s \in Stored.segments : KnownClip(s, Stored)
  BY DEF ClipsInv, Consistent
<1>d. ASSUME NEW segs, \A s \in segs : KnownClip(s, Stored)
      PROVE  Consistent(WithSegments(segs))
  BY <1>a, <1>d DEF Consistent, KnownClip
<1>1. ASSUME NEW c \in Clients, NEW segs \in EditsOf(view[c]), Put(h, c, segs)
      PROVE  Consistent(Stored)' /\ CopiesConsistent'
  <2> DEFINE ok == /\ view[c].revision = Stored.revision
                   /\ \A s \in segs : KnownClip(s, Stored)
             asked == AskedPut(c, segs, ok)
  <2>1. /\ asked.at = IF ok THEN "loaded" ELSE "refused"
        /\ asked.copy = WithSegments(segs)
    BY DEF AskedPut
  <2>2. asked.at \in {"loaded", "refused"}
        /\ (asked.at = "refused" \/ Consistent(asked.copy))
    BY <1>d, <2>1
  <2>3. Loads(h, asked) /\ UNCHANGED <<project, tmp>>
    BY <1>1 DEF Put
  <2> QED BY <1>b, <2>2, <2>3
<1>s. ASSUME NEW op, NEW segs, NEW seg, \A s \in segs : KnownClip(s, Stored)
      PROVE  LET asked == AskedSegment(op, segs, seg)
             IN  /\ asked.at \in {"loaded", "refused"}
                 /\ asked.at = "refused" \/ Consistent(asked.copy)
  <2>1. KnownClip(seg, Stored) => Consistent(WithSegments(segs \cup {seg}))
    BY <1>d, <1>s
  <2> QED BY <2>1 DEF AskedSegment, Asked
<1>2. ASSUME NEW reviewed \in BOOLEAN, NEW clip \in Clips \cup {NoClip},
             AddSegment(h, reviewed, clip)
      PROVE  Consistent(Stored)' /\ CopiesConsistent'
  <2> DEFINE asked == AskedSegment("add", Stored.segments,
                                   [id |-> h, reviewed |-> reviewed, clip |-> clip])
  <2>1. asked.at \in {"loaded", "refused"}
        /\ (asked.at = "refused" \/ Consistent(asked.copy))
    BY <1>c, <1>s
  <2>2. Loads(h, asked) /\ UNCHANGED <<project, tmp>>
    BY <1>2 DEF AddSegment
  <2> QED BY <1>b, <2>1, <2>2
<1>3. ASSUME NEW seg \in Stored.segments, NEW reviewed \in BOOLEAN,
             NEW clip \in Clips \cup {NoClip}, PatchSegment(h, seg, reviewed, clip)
      PROVE  Consistent(Stored)' /\ CopiesConsistent'
  <2> DEFINE asked == AskedSegment("patch", Stored.segments \ {seg},
                                   [seg EXCEPT !.reviewed = reviewed, !.clip = clip])
  <2>1. asked.at \in {"loaded", "refused"}
        /\ (asked.at = "refused" \/ Consistent(asked.copy))
    BY <1>c, <1>s
  <2>2. Loads(h, asked) /\ UNCHANGED <<project, tmp>>
    BY <1>3 DEF PatchSegment
  <2> QED BY <1>b, <2>1, <2>2
<1>4. ASSUME NEW seg \in Stored.segments, DeleteSegment(h, seg)
      PROVE  Consistent(Stored)' /\ CopiesConsistent'
  <2>1. Consistent(WithSegments(Stored.segments \ {seg}))
    BY <1>c, <1>d
  <2>2. Loads(h, Asked("delete", WithSegments(Stored.segments \ {seg}), "loaded"))
        /\ UNCHANGED <<project, tmp>>
    BY <1>4 DEF DeleteSegment
  <2> QED BY <1>b, <2>1, <2>2 DEF Asked
<1>5. ASSUME NEW clip \in Clips, UploadBegins(h, clip)
      PROVE  Consistent(Stored)' /\ CopiesConsistent'
  <2> DEFINE asked == [Asked("upload", Stored, "receiving") EXCEPT !.clip = clip]
  <2>1. asked.at = "receiving" /\ asked.copy = Stored
    BY DEF Asked
  <2>2. Consistent(asked.copy)
    BY <1>c, <2>1 DEF Consistent
  <2>3. Loads(h, asked) /\ UNCHANGED <<project, tmp>>
    BY <1>5 DEF UploadBegins
  <2> QED BY <1>b, <2>1, <2>2, <2>3
<1>6. ASSUME NEW some \in BOOLEAN, Detect(h, some)
      PROVE  Consistent(Stored)' /\ CopiesConsistent'
  <2> DEFINE segs == {s \in Stored.segments : s.reviewed} \cup Found(h, some)
  <2>1. Consistent(WithSegments(segs))
    BY <1>c, <1>d DEF Found, KnownClip
  <2>2. Loads(h, Asked("detect", WithSegments(segs), "loaded"))
        /\ UNCHANGED <<project, tmp>>
    BY <1>6 DEF Detect
  <2> QED BY <1>b, <2>1, <2>2 DEF Asked
<1> QED BY <1>1, <1>2, <1>3, <1>4, <1>5, <1>6 DEF Request

LEMMA SaveKeepsClips ==
    ASSUME ClipsInv, NEW h \in Handlers, Save(h) \/ UploadReceived(h)
    PROVE  Consistent(Stored)' /\ CopiesConsistent'
<1> USE DEF ClipsInv
<1>0. /\ handler \in [Handlers -> HandlerState] /\ handler[h].copy \in Project
      /\ tmp \in [Handlers -> File \cup {NoFile}]
  BY DEF FileInv, TypeOK, HandlerState
<1>1. CASE SaveWrite(h)
  <2> DEFINE saved == [handler[h].copy EXCEPT !.revision = @ + 1]
  <2>1. saved.segments = handler[h].copy.segments /\ saved.clips = handler[h].copy.clips
    BY <1>0 DEF Project
  <2>2. Consistent(saved)
    BY <1>1, <2>1 DEF SaveWrite, CopiesConsistent, InFlight, Consistent, KnownClip
  <2> HIDE DEF saved
  <2>3. /\ tmp' = [tmp EXCEPT ![h] = [content |-> saved, bytes |-> "cached"]]
        /\ handler' = [handler EXCEPT ![h].at = "written", ![h].copy = saved]
        /\ project' = project
    BY <1>1 DEF SaveWrite, saved
  <2>4. handler'[h].copy = saved /\ tmp'[h].content = saved
        /\ \A k \in Handlers \ {h} : handler'[k] = handler[k] /\ tmp'[k] = tmp[k]
    BY <1>0, <2>3 DEF HandlerState
  <2> QED BY <2>2, <2>3, <2>4 DEF CopiesConsistent, InFlight, Consistent, Stored, KnownClip
<1>2. CASE SaveSync(h)
  <2>1. /\ handler'[h].copy = handler[h].copy /\ InFlight(h)
        /\ tmp'[h].content = tmp[h].content /\ handler[h].at = "written"
    BY <1>0, <1>2 DEF SaveSync, HandlerState, InFlight, FileInv, RequestHasFile, File
  <2>2. \A k \in Handlers \ {h} : handler'[k] = handler[k] /\ tmp'[k] = tmp[k]
    BY <1>0, <1>2 DEF SaveSync
  <2>3. project' = project
    BY <1>2 DEF SaveSync
  <2> QED BY <2>1, <2>2, <2>3 DEF CopiesConsistent, InFlight, Consistent, Stored, KnownClip
<1>3. CASE SaveReplace(h)
  <2>1. project' = tmp[h] /\ handler'[h].at = "saved" /\ handler[h].at = "synced"
        /\ \A k \in Handlers \ {h} : handler'[k] = handler[k] /\ tmp'[k] = tmp[k]
    BY <1>0, <1>3 DEF SaveReplace, HandlerState
  <2>2. Consistent(Stored)'
    BY <2>1 DEF CopiesConsistent, Consistent, Stored, KnownClip
  <2>3. CopiesConsistent'
    BY <2>1 DEF CopiesConsistent, InFlight, Consistent, KnownClip
  <2> QED BY <2>2, <2>3
<1>4. CASE Fails(h)
  <2>1. project' = project /\ handler'[h].at = "refused"
        /\ \A k \in Handlers \ {h} : handler'[k] = handler[k] /\ tmp'[k] = tmp[k]
    BY <1>0, <1>4 DEF Fails, HandlerState
  <2> QED BY <2>1 DEF CopiesConsistent, InFlight, Consistent, Stored, KnownClip
<1>5. CASE UploadReceived(h)
  <2> DEFINE listed == [handler[h].copy EXCEPT !.clips = @ \cup {handler[h].clip}]
  <2>1. /\ listed.segments = handler[h].copy.segments
        /\ listed.clips = handler[h].copy.clips \cup {handler[h].clip}
    BY <1>0 DEF Project
  <2>2. Consistent(listed)
    BY <1>5, <2>1 DEF UploadReceived, CopiesConsistent, InFlight, Consistent, KnownClip
  <2> HIDE DEF listed
  <2>3. /\ handler' = [handler EXCEPT ![h].at = "loaded", ![h].copy = listed]
        /\ project' = project /\ tmp' = tmp
    BY <1>5 DEF UploadReceived, listed
  <2>4. handler'[h].copy = listed /\ handler'[h].at = "loaded"
        /\ \A k \in Handlers \ {h} : handler'[k] = handler[k]
    BY <1>0, <2>3 DEF HandlerState
  <2> QED BY <2>2, <2>3, <2>4 DEF CopiesConsistent, InFlight, Consistent, Stored, KnownClip
<1> QED BY <1>1, <1>2, <1>3, <1>4, <1>5 DEF Save

\* Every clip a stored segment names is a replacement of the stored project,
\* however requests overlap and overwrite each other.
THEOREM ClipsStayKnown == Spec => []StoredClipsAreKnown
<1>1. Init => ClipsInv
  <2>1. Init => Consistent(Stored) /\ CopiesConsistent
    BY DEF Init, Consistent, Stored, CopiesConsistent, InFlight, Asked, First, KnownClip
  <2> QED BY <2>1, FileInvInit DEF ClipsInv
<1>2. ClipsInv /\ [Next]_vars => ClipsInv'
  <2> SUFFICES ASSUME ClipsInv, [Next]_vars PROVE ClipsInv'
    OBVIOUS
  <2>0. FileInv'
    BY FileInvInductive DEF ClipsInv
  <2>1. CASE \E h \in Handlers : Request(h) \/ UploadReceived(h) \/ Save(h)
    BY <2>0, <2>1, RequestKeepsClips, SaveKeepsClips DEF ClipsInv
  <2>2. CASE \E c \in Clients : Get(c)
    BY <2>0, <2>2 DEF Get, ClipsInv, Consistent, Stored, CopiesConsistent, InFlight,
                      KnownClip
  <2>3. CASE Crash
    <3>1. Stored' = Stored
      BY <2>3 DEF Crash, Stored, ClipsInv, FileInv, TypeOK, File
    <3>2. \A k \in Handlers : ~InFlight(k)'
      BY <2>3 DEF Crash, InFlight, ClipsInv, FileInv, TypeOK, HandlerState
    <3>3. CopiesConsistent'
      BY <3>2 DEF CopiesConsistent, InFlight
    <3> QED BY <2>0, <3>1, <3>3 DEF ClipsInv, Consistent, KnownClip
  <2>4. CASE UNCHANGED vars
    BY <2>0, <2>4 DEF vars, ClipsInv, Consistent, Stored, CopiesConsistent, InFlight,
                      KnownClip
  <2> QED BY <2>1, <2>2, <2>3, <2>4 DEF Next
<1>3. ClipsInv => StoredClipsAreKnown
  BY DEF ClipsInv, Consistent, StoredClipsAreKnown
<1> QED BY <1>1, <1>2, <1>3, PTL DEF Spec

-----------------------------------------------------------------------------
(* The files of the clips. *)

HasFiles(p) == \A c \in p.clips : clipFile[c] # "none"

\* A clip has a file in every version that a request holds, and the one that
\* is being received has one already.
RequestClipsHaveFiles ==
    \A h \in Handlers :
        /\ InFlight(h) => HasFiles(handler[h].copy)
        /\ handler[h].at \in {"written", "synced"} => HasFiles(tmp[h].content)
        /\ handler[h].at = "receiving" => clipFile[handler[h].clip] # "none"

\* The inductive invariant: before the project lists a clip, the request that
\* uploads it lists it in its copy and then in its temporary file, and the
\* file of the clip is there at each of these points.
ClipFilesInv ==
    FileInv /\ (crashes = 0 => HasFiles(Stored) /\ RequestClipsHaveFiles)

\* Without a crash no file of a clip goes away.
FilesStay == \A c \in Clips : clipFile[c] # "none" => clipFile'[c] # "none"

\* A request that has loaded lists what the stored project lists.
LEMMA LoadingKeepsClipFiles ==
    ASSUME FileInv, HasFiles(Stored), RequestClipsHaveFiles, NEW h \in Handlers, NEW asked,
           Loads(h, asked), asked.at \in {"loaded", "refused", "receiving"},
           asked.copy.clips = Stored.clips,
           asked.at = "receiving" => clipFile'[asked.clip] # "none",
           FilesStay, UNCHANGED <<project, tmp>>
    PROVE  HasFiles(Stored)' /\ RequestClipsHaveFiles'
<1>1. handler'[h] = asked /\ \A k \in Handlers \ {h} : handler'[k] = handler[k]
  BY LoadsEntry DEF FileInv, TypeOK, Loads
<1>2. Stored.clips \subseteq Clips /\ Stored' = Stored
  BY DEF FileInv, TypeOK, Stored, File, Project
<1>3. HasFiles(Stored)'
  BY <1>2 DEF HasFiles, FilesStay
<1>4. ASSUME NEW k \in Handlers, k # h
      PROVE  /\ InFlight(k)' => HasFiles(handler[k].copy)'
             /\ handler'[k].at \in {"written", "synced"} => HasFiles(tmp[k].content)'
             /\ handler'[k].at = "receiving" => clipFile'[handler'[k].clip] # "none"
  <2>1. /\ handler'[k] = handler[k] /\ tmp'[k] = tmp[k]
        /\ handler[k].copy.clips \subseteq Clips
        /\ handler[k].at = "receiving" => handler[k].clip \in Clips
        /\ handler[k].at \in {"written", "synced"} => tmp[k].content.clips \subseteq Clips
    BY <1>1, <1>4 DEF FileInv, TypeOK, RequestHasFile, HandlerState, File, Project
  <2> QED BY <2>1 DEF RequestClipsHaveFiles, HasFiles, FilesStay, InFlight
<1>5. /\ InFlight(h)' => HasFiles(handler[h].copy)'
      /\ handler'[h].at \notin {"written", "synced"}
      /\ handler'[h].at = "receiving" => clipFile'[handler'[h].clip] # "none"
  BY <1>1, <1>2, <1>3 DEF HasFiles
<1> QED BY <1>3, <1>4, <1>5 DEF RequestClipsHaveFiles

LEMMA RequestKeepsClipFiles ==
    ASSUME FileInv, HasFiles(Stored), RequestClipsHaveFiles, NEW h \in Handlers, Request(h)
    PROVE  HasFiles(Stored)' /\ RequestClipsHaveFiles'
<1>0. Stored \in Project /\ clipFile \in [Clips -> {"none", "partial", "whole"}]
  BY DEF FileInv, TypeOK, File, Stored
<1>a. \A segs : WithSegments(segs).clips = Stored.clips
  BY <1>0 DEF WithSegments, Project
<1>b. ASSUME NEW op, NEW segs, NEW at, at \in {"loaded", "refused"},
             Loads(h, Asked(op, WithSegments(segs), at)),
             UNCHANGED <<project, tmp, clipFile>>
      PROVE  HasFiles(Stored)' /\ RequestClipsHaveFiles'
  BY <1>a, <1>b, LoadingKeepsClipFiles DEF Asked, FilesStay
<1>1. ASSUME NEW c \in Clients, NEW segs \in EditsOf(view[c]), Put(h, c, segs)
      PROVE  HasFiles(Stored)' /\ RequestClipsHaveFiles'
  <2> DEFINE ok == /\ view[c].revision = Stored.revision
                   /\ \A s \in segs : KnownClip(s, Stored)
             asked == AskedPut(c, segs, ok)
  <2>1. asked.at \in {"loaded", "refused"} /\ asked.copy.clips = Stored.clips
    BY <1>a DEF AskedPut
  <2>2. Loads(h, asked) /\ UNCHANGED <<project, tmp, clipFile>>
    BY <1>1 DEF Put
  <2> HIDE DEF asked
  <2> QED BY <2>1, <2>2, LoadingKeepsClipFiles DEF FilesStay
<1>2. ASSUME NEW reviewed \in BOOLEAN, NEW clip \in Clips \cup {NoClip},
             AddSegment(h, reviewed, clip)
      PROVE  HasFiles(Stored)' /\ RequestClipsHaveFiles'
  BY <1>2, <1>b DEF AddSegment, AskedSegment
<1>3. ASSUME NEW seg \in Stored.segments, NEW reviewed \in BOOLEAN,
             NEW clip \in Clips \cup {NoClip}, PatchSegment(h, seg, reviewed, clip)
      PROVE  HasFiles(Stored)' /\ RequestClipsHaveFiles'
  BY <1>3, <1>b DEF PatchSegment, AskedSegment
<1>4. ASSUME NEW seg \in Stored.segments, DeleteSegment(h, seg)
      PROVE  HasFiles(Stored)' /\ RequestClipsHaveFiles'
  BY <1>4, <1>b DEF DeleteSegment
<1>5. ASSUME NEW clip \in Clips, UploadBegins(h, clip)
      PROVE  HasFiles(Stored)' /\ RequestClipsHaveFiles'
  <2> DEFINE asked == [Asked("upload", Stored, "receiving") EXCEPT !.clip = clip]
  <2>1. asked.at = "receiving" /\ asked.copy = Stored /\ asked.clip = clip
    BY DEF Asked
  <2>2. Loads(h, asked) /\ UNCHANGED <<project, tmp>>
    BY <1>5 DEF UploadBegins
  <2>3. clipFile'[clip] # "none" /\ FilesStay
    BY <1>0, <1>5 DEF UploadBegins, FilesStay
  <2> HIDE DEF asked
  <2> QED BY <2>1, <2>2, <2>3, LoadingKeepsClipFiles
<1>6. ASSUME NEW some \in BOOLEAN, Detect(h, some)
      PROVE  HasFiles(Stored)' /\ RequestClipsHaveFiles'
  BY <1>6, <1>b DEF Detect
<1> QED BY <1>1, <1>2, <1>3, <1>4, <1>5, <1>6 DEF Request

\* A save moves its copy into the project; the end of an upload lists a clip
\* whose file was made when the upload began.
LEMMA SaveKeepsClipFiles ==
    ASSUME FileInv, HasFiles(Stored), RequestClipsHaveFiles, NEW h \in Handlers,
           Save(h) \/ UploadReceived(h)
    PROVE  HasFiles(Stored)' /\ RequestClipsHaveFiles'
<1>0. /\ handler \in [Handlers -> HandlerState] /\ handler[h].copy \in Project
      /\ tmp \in [Handlers -> File \cup {NoFile}]
      /\ clipFile \in [Clips -> {"none", "partial", "whole"}]
      /\ Stored.clips \subseteq Clips
  BY DEF FileInv, TypeOK, HandlerState, Stored, File, Project
<1>1. CASE SaveWrite(h)
  <2> DEFINE saved == [handler[h].copy EXCEPT !.revision = @ + 1]
  <2>1. saved.clips = handler[h].copy.clips /\ HasFiles(handler[h].copy)
    BY <1>0, <1>1 DEF Project, SaveWrite, RequestClipsHaveFiles, InFlight
  <2> HIDE DEF saved
  <2>2. /\ tmp' = [tmp EXCEPT ![h] = [content |-> saved, bytes |-> "cached"]]
        /\ handler' = [handler EXCEPT ![h].at = "written", ![h].copy = saved]
        /\ project' = project /\ clipFile' = clipFile
    BY <1>1 DEF SaveWrite, saved
  <2>3. /\ handler'[h].copy = saved /\ tmp'[h].content = saved /\ handler'[h].at = "written"
        /\ \A k \in Handlers \ {h} : handler'[k] = handler[k] /\ tmp'[k] = tmp[k]
    BY <1>0, <2>2 DEF HandlerState
  <2>4. HasFiles(handler[h].copy)' /\ HasFiles(tmp[h].content)' /\ HasFiles(Stored)'
    BY <2>1, <2>2, <2>3 DEF HasFiles, Stored
  <2>5. ASSUME NEW k \in Handlers, k # h
        PROVE  /\ InFlight(k)' => HasFiles(handler[k].copy)'
               /\ handler'[k].at \in {"written", "synced"} => HasFiles(tmp[k].content)'
               /\ handler'[k].at = "receiving" => clipFile'[handler'[k].clip] # "none"
    BY <2>2, <2>3, <2>5 DEF RequestClipsHaveFiles, InFlight, HasFiles
  <2> QED BY <2>3, <2>4, <2>5 DEF RequestClipsHaveFiles
<1>2. CASE SaveSync(h)
  <2>1. /\ handler'[h].copy = handler[h].copy /\ handler'[h].at = "synced" /\ InFlight(h)
        /\ tmp'[h].content = tmp[h].content /\ handler[h].at = "written"
    BY <1>0, <1>2 DEF SaveSync, HandlerState, InFlight, FileInv, RequestHasFile, File
  <2>2. \A k \in Handlers \ {h} : handler'[k] = handler[k] /\ tmp'[k] = tmp[k]
    BY <1>0, <1>2 DEF SaveSync
  <2>3. project' = project /\ clipFile' = clipFile
    BY <1>2 DEF SaveSync
  <2> QED BY <2>1, <2>2, <2>3 DEF RequestClipsHaveFiles, InFlight, HasFiles, Stored
<1>3. CASE SaveReplace(h)
  <2>1. /\ project' = tmp[h] /\ handler'[h].at = "saved" /\ handler[h].at = "synced"
        /\ clipFile' = clipFile
        /\ \A k \in Handlers \ {h} : handler'[k] = handler[k] /\ tmp'[k] = tmp[k]
    BY <1>0, <1>3 DEF SaveReplace, HandlerState
  <2>2. HasFiles(Stored)'
    BY <2>1 DEF RequestClipsHaveFiles, HasFiles, Stored
  <2> QED BY <2>1, <2>2 DEF RequestClipsHaveFiles, InFlight, HasFiles
<1>4. CASE Fails(h)
  <2>1. /\ project' = project /\ clipFile' = clipFile /\ handler'[h].at = "refused"
        /\ \A k \in Handlers \ {h} : handler'[k] = handler[k] /\ tmp'[k] = tmp[k]
    BY <1>0, <1>4 DEF Fails, HandlerState
  <2> QED BY <2>1 DEF RequestClipsHaveFiles, InFlight, HasFiles, Stored
<1>5. CASE UploadReceived(h)
  <2> DEFINE clip == handler[h].clip
             listed == [handler[h].copy EXCEPT !.clips = @ \cup {clip}]
  <2>1. /\ clip \in Clips /\ clipFile[clip] # "none" /\ HasFiles(handler[h].copy)
        /\ listed.clips = handler[h].copy.clips \cup {clip}
    BY <1>0, <1>5 DEF UploadReceived, FileInv, RequestHasFile, RequestClipsHaveFiles,
                      InFlight, Project
  <2>2. clipFile' = [clipFile EXCEPT ![clip] = "whole"] /\ project' = project /\ tmp' = tmp
    BY <1>5 DEF UploadReceived
  <2>3. FilesStay
    BY <1>0, <2>1, <2>2 DEF FilesStay
  <2> HIDE DEF listed
  <2>4. handler' = [handler EXCEPT ![h].at = "loaded", ![h].copy = listed]
    BY <1>5 DEF UploadReceived, listed
  <2>5. handler'[h].copy = listed /\ handler'[h].at = "loaded"
        /\ \A k \in Handlers \ {h} : handler'[k] = handler[k]
    BY <1>0, <2>4 DEF HandlerState
  <2>6. HasFiles(Stored)'
    BY <1>0, <2>2, <2>3 DEF HasFiles, FilesStay, Stored
  <2>7. HasFiles(handler[h].copy)'
    BY <1>0, <2>1, <2>3, <2>5 DEF HasFiles, FilesStay, Project
  <2>8. ASSUME NEW k \in Handlers, k # h
        PROVE  /\ InFlight(k)' => HasFiles(handler[k].copy)'
               /\ handler'[k].at \in {"written", "synced"} => HasFiles(tmp[k].content)'
               /\ handler'[k].at = "receiving" => clipFile'[handler'[k].clip] # "none"
    <3>1. /\ handler'[k] = handler[k] /\ tmp'[k] = tmp[k]
          /\ handler[k].copy.clips \subseteq Clips
          /\ handler[k].at = "receiving" => handler[k].clip \in Clips
          /\ handler[k].at \in {"written", "synced"} => tmp[k].content.clips \subseteq Clips
      BY <2>2, <2>5, <2>8 DEF FileInv, TypeOK, RequestHasFile, HandlerState, File, Project
    <3> QED BY <2>3, <3>1 DEF RequestClipsHaveFiles, HasFiles, FilesStay, InFlight
  <2> QED BY <2>5, <2>6, <2>7, <2>8 DEF RequestClipsHaveFiles
<1> QED BY <1>1, <1>2, <1>3, <1>4, <1>5 DEF Save

\* A replacement that the project lists has a file, for any number of uploads
\* that fail, overlap and are overtaken by other saves, until the machine goes
\* down.
THEOREM ListedClipsKeepFiles == Spec => []ListedClipHasFile
<1>1. Init => ClipFilesInv
  <2>1. Init => HasFiles(Stored) /\ RequestClipsHaveFiles
    BY DEF Init, HasFiles, Stored, RequestClipsHaveFiles, InFlight, Asked, First
  <2> QED BY <2>1, FileInvInit DEF ClipFilesInv
<1>2. ClipFilesInv /\ [Next]_vars => ClipFilesInv'
  <2> SUFFICES ASSUME ClipFilesInv, [Next]_vars, crashes' = 0
               PROVE  HasFiles(Stored)' /\ RequestClipsHaveFiles'
    BY FileInvInductive DEF ClipFilesInv
  <2>0. /\ FileInv /\ crashes \in 0..MaxCrashes
        /\ crashes = 0 => HasFiles(Stored) /\ RequestClipsHaveFiles
    BY DEF ClipFilesInv, FileInv, TypeOK
  <2>1. ASSUME NEW h \in Handlers, Request(h) \/ UploadReceived(h) \/ Save(h)
        PROVE  HasFiles(Stored)' /\ RequestClipsHaveFiles'
    <3>1. crashes' = crashes
      BY <2>1 DEF Request, UploadReceived, Save, Put, AddSegment, PatchSegment, DeleteSegment,
                  UploadBegins, Detect, SaveWrite, SaveSync, SaveReplace, Fails
    <3> QED BY <2>0, <2>1, <3>1, RequestKeepsClipFiles, SaveKeepsClipFiles
  <2>2. CASE (\E c \in Clients : Get(c)) \/ UNCHANGED vars
    BY <2>0, <2>2 DEF Get, vars, HasFiles, Stored, RequestClipsHaveFiles, InFlight
  <2>3. CASE Crash
    BY <2>0, <2>3 DEF Crash
  <2> QED BY <2>1, <2>2, <2>3 DEF Next
<1>3. ClipFilesInv => ListedClipHasFile
  BY DEF ClipFilesInv, HasFiles, ListedClipHasFile
<1> QED BY <1>1, <1>2, <1>3, PTL DEF Spec

-----------------------------------------------------------------------------
(* What the revision check is worth.                                        *)

Reviewed(p) == {s \in p.segments : s.reviewed}

\* What a request in flight knows about the version it loaded: its copy carries
\* that revision until the save counts it up, its temporary file holds the
\* copy, a detection has every reviewed segment, and a put was edited from the
\* segments it loaded unless saves have overwritten each other.
KeepsTrack(h) ==
    /\ handler[h].at \in {"receiving", "loaded"} =>
          handler[h].copy.revision = handler[h].from.revision
    /\ handler[h].at \in {"written", "synced"} =>
          /\ handler[h].copy.revision = handler[h].from.revision + 1
          /\ tmp[h].content = handler[h].copy
    /\ handler[h].op = "detect" => Reviewed(handler[h].from) \subseteq handler[h].copy.segments
    /\ handler[h].op = "put" => lost \/ handler[h].base.segments = handler[h].from.segments

\* A client has the stored project or one with a smaller revision.
ViewsAreOlder ==
    \A c \in Clients : view[c].revision < Stored.revision \/ view[c] = Stored

\* The inductive invariant.  RevisionNamesContent alone is not inductive: a
\* save that did not count its revision up would put new content under a
\* number some client has; and what a put was compared with is forgotten by
\* the time it saves, unless its request keeps track of it.
TrackInv ==
    /\ FileInv
    /\ \A h \in Handlers : InFlight(h) => KeepsTrack(h)
    /\ lost \/ ViewsAreOlder

\* What a request keeps track of is its own: a step of another request can at
\* most raise the alarm.
LEMMA OneStepKeepsTrackInv ==
    ASSUME TrackInv, FileInv', NEW h \in Handlers,
           \A k \in Handlers \ {h} : handler'[k] = handler[k] /\ tmp'[k] = tmp[k],
           lost => lost',
           InFlight(h)' => KeepsTrack(h)',
           (lost \/ ViewsAreOlder)'
    PROVE  TrackInv'
<1>1. ASSUME NEW k \in Handlers, k # h, InFlight(k)' PROVE KeepsTrack(k)'
  <2>1. handler'[k] = handler[k] /\ tmp'[k] = tmp[k] /\ InFlight(k)
    BY <1>1 DEF InFlight
  <2> QED BY <2>1 DEF TrackInv, KeepsTrack, Reviewed
<1> QED BY <1>1 DEF TrackInv

\* A request begins with the stored project.
LEMMA LoadingKeepsTrackInv ==
    ASSUME TrackInv, FileInv', NEW h \in Handlers, NEW asked,
           Loads(h, asked), asked.at \in {"receiving", "loaded", "refused"},
           asked.from = Stored, asked.copy.revision = Stored.revision,
           asked.op = "put" /\ asked.at # "refused" =>
              lost \/ asked.base.segments = Stored.segments,
           asked.op = "detect" => Reviewed(Stored) \subseteq asked.copy.segments,
           UNCHANGED <<project, tmp, view, lost>>
    PROVE  TrackInv'
<1>1. handler'[h] = asked /\ \A k \in Handlers \ {h} : handler'[k] = handler[k]
  BY LoadsEntry DEF TrackInv, FileInv, TypeOK, Loads
<1>2. Stored' = Stored
  BY DEF Stored
<1>3. InFlight(h)' => KeepsTrack(h)'
  BY <1>1 DEF InFlight, KeepsTrack, Reviewed
<1>4. (lost \/ ViewsAreOlder)'
  BY <1>2 DEF TrackInv, ViewsAreOlder
<1> QED BY <1>1, <1>3, <1>4, OneStepKeepsTrackInv

LEMMA RequestKeepsTrackInv ==
    ASSUME TrackInv, FileInv', NEW h \in Handlers, Request(h)
    PROVE  TrackInv'
<1>0. Stored \in Project
  BY DEF TrackInv, FileInv, TypeOK, File, Stored
<1>a. \A segs : /\ WithSegments(segs).revision = Stored.revision
                /\ WithSegments(segs).segments = segs
  BY <1>0 DEF WithSegments, Project
<1>b. ASSUME NEW op, op \in {"add", "patch", "delete"}, NEW segs, NEW at,
             at \in {"loaded", "refused"}, Loads(h, Asked(op, WithSegments(segs), at)),
             UNCHANGED <<project, tmp, view, lost>>
      PROVE  TrackInv'
  BY <1>a, <1>b, LoadingKeepsTrackInv DEF Asked
<1>1. ASSUME NEW c \in Clients, NEW segs \in EditsOf(view[c]), Put(h, c, segs)
      PROVE  TrackInv'
  <2> DEFINE ok == /\ view[c].revision = Stored.revision
                   /\ \A s \in segs : KnownClip(s, Stored)
             asked == AskedPut(c, segs, ok)
  <2>1. /\ asked.at \in {"loaded", "refused"} /\ asked.op = "put"
        /\ asked.from = Stored
        /\ asked.copy.revision = Stored.revision /\ asked.base = view[c]
        /\ asked.at # "refused" => view[c].revision = Stored.revision
    BY <1>a DEF AskedPut
  <2>2. view[c].revision = Stored.revision => lost \/ view[c] = Stored
    <3>1. Stored.revision \in Nat
      BY <1>0 DEF Project
    <3> QED BY <3>1 DEF TrackInv, ViewsAreOlder
  <2>3. Loads(h, asked) /\ UNCHANGED <<project, tmp, view, lost>>
    BY <1>1 DEF Put
  <2> HIDE DEF asked
  <2> QED BY <2>1, <2>2, <2>3, LoadingKeepsTrackInv
<1>2. ASSUME NEW reviewed \in BOOLEAN, NEW clip \in Clips \cup {NoClip},
             AddSegment(h, reviewed, clip)
      PROVE  TrackInv'
  BY <1>2, <1>b DEF AddSegment, AskedSegment
<1>3. ASSUME NEW seg \in Stored.segments, NEW reviewed \in BOOLEAN,
             NEW clip \in Clips \cup {NoClip}, PatchSegment(h, seg, reviewed, clip)
      PROVE  TrackInv'
  BY <1>3, <1>b DEF PatchSegment, AskedSegment
<1>4. ASSUME NEW seg \in Stored.segments, DeleteSegment(h, seg) PROVE TrackInv'
  BY <1>4, <1>b DEF DeleteSegment
<1>5. ASSUME NEW clip \in Clips, UploadBegins(h, clip) PROVE TrackInv'
  <2> DEFINE asked == [Asked("upload", Stored, "receiving") EXCEPT !.clip = clip]
  <2>1. /\ asked.at = "receiving" /\ asked.copy = Stored /\ asked.op = "upload"
        /\ asked.from = Stored
    BY DEF Asked
  <2>2. Loads(h, asked) /\ UNCHANGED <<project, tmp, view, lost>>
    BY <1>5 DEF UploadBegins
  <2> HIDE DEF asked
  <2> QED BY <2>1, <2>2, LoadingKeepsTrackInv
<1>6. ASSUME NEW some \in BOOLEAN, Detect(h, some) PROVE TrackInv'
  <2> DEFINE asked == Asked("detect", WithSegments(Reviewed(Stored) \cup Found(h, some)),
                            "loaded")
  <2>1. /\ asked.at = "loaded" /\ asked.op = "detect" /\ asked.from = Stored
        /\ asked.copy.revision = Stored.revision
        /\ Reviewed(Stored) \subseteq asked.copy.segments
    BY <1>a DEF Asked
  <2>2. Loads(h, asked) /\ UNCHANGED <<project, tmp, view, lost>>
    BY <1>6 DEF Detect, Reviewed
  <2> HIDE DEF asked
  <2> QED BY <2>1, <2>2, LoadingKeepsTrackInv
<1> QED BY <1>1, <1>2, <1>3, <1>4, <1>5, <1>6 DEF Request

\* A save counts the revision it loaded up by one; if it overwrites another
\* save it says so, and otherwise that is the stored revision.
LEMMA SaveKeepsTrackInv ==
    ASSUME TrackInv, FileInv', NEW h \in Handlers, Save(h) \/ UploadReceived(h)
    PROVE  TrackInv'
<1>0. /\ handler \in [Handlers -> HandlerState] /\ handler[h] \in HandlerState
      /\ handler[h].copy \in Project /\ handler[h].copy.revision \in Nat
      /\ tmp \in [Handlers -> File \cup {NoFile}]
      /\ Stored \in Project /\ Stored.revision \in Nat
  BY DEF TrackInv, FileInv, TypeOK, HandlerState, Stored, File, Project
<1>a. InFlight(h) /\ KeepsTrack(h)
  BY DEF Save, SaveWrite, SaveSync, SaveReplace, Fails, UploadReceived, InFlight, TrackInv
<1>b. ASSUME Stored' = Stored, view' = view, lost' = lost
      PROVE  (lost \/ ViewsAreOlder)'
  BY <1>b DEF TrackInv, ViewsAreOlder
<1>1. CASE SaveWrite(h)
  <2> DEFINE saved == [handler[h].copy EXCEPT !.revision = @ + 1]
  <2>1. /\ saved.revision = handler[h].from.revision + 1
        /\ saved.segments = handler[h].copy.segments
    BY <1>0, <1>1, <1>a DEF Project, SaveWrite, KeepsTrack
  <2>2. /\ tmp' = [tmp EXCEPT ![h] = [content |-> saved, bytes |-> "cached"]]
        /\ handler' = [handler EXCEPT ![h].at = "written", ![h].copy = saved]
        /\ Stored' = Stored /\ view' = view /\ lost' = lost
    BY <1>1 DEF SaveWrite, Stored
  <2> HIDE DEF saved
  <2>3. /\ handler'[h].at = "written" /\ handler'[h].copy = saved
        /\ tmp'[h].content = saved /\ handler'[h].op = handler[h].op
        /\ handler'[h].base = handler[h].base /\ handler'[h].from = handler[h].from
        /\ \A k \in Handlers \ {h} : handler'[k] = handler[k] /\ tmp'[k] = tmp[k]
    BY <1>0, <2>2 DEF HandlerState
  <2>4. KeepsTrack(h)'
    BY <1>a, <2>1, <2>2, <2>3 DEF KeepsTrack, Reviewed
  <2> QED BY <1>b, <2>2, <2>3, <2>4, OneStepKeepsTrackInv
<1>2. CASE SaveSync(h)
  <2>1. /\ handler'[h].at = "synced" /\ handler'[h].copy = handler[h].copy
        /\ handler'[h].op = handler[h].op /\ handler'[h].base = handler[h].base
        /\ handler'[h].from = handler[h].from /\ handler[h].at = "written"
        /\ \A k \in Handlers \ {h} : handler'[k] = handler[k] /\ tmp'[k] = tmp[k]
    BY <1>0, <1>2 DEF SaveSync, HandlerState
  <2>2. tmp'[h].content = tmp[h].content
    BY <1>0, <1>2 DEF SaveSync, TrackInv, FileInv, RequestHasFile, File
  <2>3. Stored' = Stored /\ view' = view /\ lost' = lost
    BY <1>2 DEF SaveSync, Stored
  <2>4. KeepsTrack(h)'
    BY <1>a, <2>1, <2>2, <2>3 DEF KeepsTrack, Reviewed
  <2> QED BY <1>b, <2>1, <2>3, <2>4, OneStepKeepsTrackInv
<1>3. CASE SaveReplace(h)
  <2>1. /\ Stored' = handler[h].copy
        /\ Stored'.revision = handler[h].from.revision + 1
        /\ lost' = (lost \/ handler[h].from # Stored)
    BY <1>3, <1>a DEF SaveReplace, KeepsTrack, Stored
  <2>2. /\ handler'[h].at = "saved"
        /\ \A k \in Handlers \ {h} : handler'[k] = handler[k] /\ tmp'[k] = tmp[k]
    BY <1>0, <1>3 DEF SaveReplace, HandlerState
  <2>3. ASSUME ~lost' PROVE ViewsAreOlder'
    <3>1. handler[h].from = Stored /\ ViewsAreOlder
      BY <2>1, <2>3 DEF TrackInv
    <3>2. ASSUME NEW c \in Clients
          PROVE  view'[c] = Stored' \/ view'[c] = view[c]
      BY <1>3, <2>1 DEF SaveReplace
    <3>3. ASSUME NEW c \in Clients PROVE view[c].revision < Stored'.revision
      <4>1. view[c].revision \in Nat
        BY DEF TrackInv, FileInv, TypeOK, Project
      <4>2. view[c].revision =< Stored.revision
        BY <1>0, <3>1, <4>1 DEF ViewsAreOlder
      <4> QED BY <1>0, <2>1, <3>1, <4>1, <4>2
    <3> QED BY <3>2, <3>3 DEF ViewsAreOlder
  <2> QED BY <2>1, <2>2, <2>3, OneStepKeepsTrackInv DEF InFlight
<1>4. CASE Fails(h)
  <2>1. /\ handler'[h].at = "refused" /\ Stored' = Stored /\ view' = view /\ lost' = lost
        /\ \A k \in Handlers \ {h} : handler'[k] = handler[k] /\ tmp'[k] = tmp[k]
    BY <1>0, <1>4 DEF Fails, HandlerState, Stored
  <2> QED BY <1>b, <2>1, OneStepKeepsTrackInv DEF InFlight
<1>5. CASE UploadReceived(h)
  <2> DEFINE listed == [handler[h].copy EXCEPT !.clips = @ \cup {handler[h].clip}]
  <2>1. /\ listed.revision = handler[h].copy.revision
        /\ listed.segments = handler[h].copy.segments
    BY <1>0 DEF Project
  <2>2. /\ handler' = [handler EXCEPT ![h].at = "loaded", ![h].copy = listed]
        /\ Stored' = Stored /\ view' = view /\ lost' = lost /\ tmp' = tmp
        /\ handler[h].at = "receiving"
    BY <1>5 DEF UploadReceived, Stored
  <2> HIDE DEF listed
  <2>3. /\ handler'[h].at = "loaded" /\ handler'[h].copy = listed
        /\ handler'[h].op = handler[h].op /\ handler'[h].base = handler[h].base
        /\ handler'[h].from = handler[h].from
        /\ \A k \in Handlers \ {h} : handler'[k] = handler[k]
    BY <1>0, <2>2 DEF HandlerState
  <2>4. KeepsTrack(h)'
    BY <1>a, <2>1, <2>2, <2>3 DEF KeepsTrack, Reviewed
  <2> QED BY <1>b, <2>2, <2>3, <2>4, OneStepKeepsTrackInv
<1> QED BY <1>1, <1>2, <1>3, <1>4, <1>5 DEF Save

LEMMA TrackInvInductive == TrackInv /\ [Next]_vars => TrackInv'
<1> SUFFICES ASSUME TrackInv, [Next]_vars PROVE TrackInv'
  OBVIOUS
<1>0. FileInv'
  BY FileInvInductive DEF TrackInv
<1>1. CASE \E h \in Handlers : Request(h) \/ UploadReceived(h) \/ Save(h)
  BY <1>0, <1>1, RequestKeepsTrackInv, SaveKeepsTrackInv
<1>2. ASSUME NEW c \in Clients, Get(c) PROVE TrackInv'
  <2>1. Stored' = Stored /\ UNCHANGED <<project, handler, tmp, lost>>
    BY <1>2 DEF Get, Stored
  <2>2. (lost \/ ViewsAreOlder)'
    BY <1>2, <2>1 DEF Get, TrackInv, FileInv, TypeOK, ViewsAreOlder
  <2> QED BY <1>0, <2>1, <2>2 DEF TrackInv, InFlight, KeepsTrack, Reviewed
<1>3. CASE Crash
  <2>1. Stored' = Stored /\ view' = view /\ lost' = lost
    BY <1>3 DEF Crash, Stored, TrackInv, FileInv, TypeOK, File
  <2>2. \A k \in Handlers : ~InFlight(k)'
    BY <1>3 DEF Crash, InFlight, TrackInv, FileInv, TypeOK, HandlerState
  <2>3. (lost \/ ViewsAreOlder)'
    BY <2>1 DEF TrackInv, ViewsAreOlder
  <2> QED BY <1>0, <2>2, <2>3 DEF TrackInv
<1>4. CASE UNCHANGED vars
  BY <1>0, <1>4 DEF vars, TrackInv, InFlight, KeepsTrack, Reviewed, ViewsAreOlder, Stored
<1> QED BY <1>1, <1>2, <1>3, <1>4 DEF Next

\* The invariant above holds in every reachable state.
THEOREM TrackInvHolds == Spec => []TrackInv
<1>1. Init => TrackInv
  <2>1. Init => (\A h \in Handlers : ~InFlight(h)) /\ ViewsAreOlder
    BY DEF Init, InFlight, Asked, ViewsAreOlder, Stored
  <2> QED BY <2>1, FileInvInit DEF TrackInv
<1> QED BY <1>1, TrackInvInductive, PTL DEF Spec

\* As long as no save has overwritten another one, however requests overlap,
\* fail or crash, no two contents get one revision that a client can tell:
\* put_project may compare numbers instead of contents.
THEOREM RevisionsHold == Spec => []RevisionNamesContent
<1>1. TrackInv => RevisionNamesContent
  BY DEF TrackInv, FileInv, TypeOK, File, Project, Stored, ViewsAreOlder,
         RevisionNamesContent
<1> QED BY <1>1, TrackInvHolds, PTL

\* The step by which a request passes from "synced" to "saved" is its rename.
LEMMA SavedByReplace ==
    ASSUME FileInv, NEW h \in Handlers, [Next]_vars,
           handler[h].at = "synced", handler'[h].at = "saved"
    PROVE  SaveReplace(h)
<1>0. handler \in [Handlers -> HandlerState]
  BY DEF FileInv, TypeOK
<1>1. ASSUME NEW k \in Handlers, Request(k) PROVE FALSE
  <2>1. PICK asked : Loads(k, asked)
    BY <1>1, Zenon DEF Request, Put, AddSegment, PatchSegment, DeleteSegment,
                       UploadBegins, Detect
  <2> QED BY <1>0, <2>1 DEF Loads
<1>2. ASSUME NEW k \in Handlers, UploadReceived(k) \/ Save(k) PROVE SaveReplace(h)
  <2>1. CASE k = h
    BY <1>0, <1>2, <2>1 DEF UploadReceived, Save, SaveWrite, SaveSync, Fails, HandlerState
  <2>2. CASE k # h
    BY <1>0, <1>2, <2>2 DEF UploadReceived, Save, SaveWrite, SaveSync, SaveReplace, Fails
  <2> QED BY <2>1, <2>2
<1>3. CASE Crash
  BY <1>0, <1>3 DEF Crash, InFlight, HandlerState
<1>4. CASE (\E c \in Clients : Get(c)) \/ UNCHANGED vars
  BY <1>4 DEF Get, vars
<1> QED BY <1>1, <1>2, <1>3, <1>4 DEF Next

\* put_project's check is as good as its lock-free load and save allow: a put
\* that neither overwrites a save made since its load nor follows such an
\* accident replaces exactly the segments its client edited.
THEOREM UncontestedPutsHold == Spec => UncontestedPutSeesCurrent
<1> DEFINE A == \A h \in Handlers :
                   Saves(h, "put") /\ ~lost' => handler[h].base.segments = Stored.segments
<1>1. TrackInv /\ [Next]_vars => A
  <2> SUFFICES ASSUME TrackInv, [Next]_vars, NEW h \in Handlers,
                      Saves(h, "put"), ~lost'
               PROVE  handler[h].base.segments = Stored.segments
    OBVIOUS
  <2>1. KeepsTrack(h)
    BY DEF TrackInv, InFlight, Saves
  <2>2. lost' = (lost \/ handler[h].from # Stored)
    BY SavedByReplace DEF TrackInv, SaveReplace, Saves
  <2> QED BY <2>1, <2>2 DEF KeepsTrack, Saves
<1>2. TrackInv /\ [Next]_vars => [A]_vars
  BY <1>1
<1> QED BY <1>2, TrackInvHolds, PTL DEF Spec, UncontestedPutSeesCurrent

\* A detection, however long its scan and whatever is saved, fails or crashes
\* beside it, destroys no review that it has loaded.
THEOREM DetectionsHold == Spec => DetectionKeepsReviewed
<1> DEFINE A == \A h \in Handlers : Saves(h, "detect") =>
                   \A s \in Stored.segments \ Stored'.segments :
                       s.reviewed => s \notin handler[h].from.segments
<1>1. TrackInv /\ [Next]_vars => A
  <2> SUFFICES ASSUME TrackInv, [Next]_vars, NEW h \in Handlers, Saves(h, "detect")
               PROVE  Reviewed(handler[h].from) \subseteq Stored'.segments
    BY DEF Reviewed
  <2>1. KeepsTrack(h)
    BY DEF TrackInv, InFlight, Saves
  <2>2. Stored' = handler[h].copy
    BY <2>1, SavedByReplace DEF TrackInv, SaveReplace, KeepsTrack, Stored, Saves
  <2> QED BY <2>1, <2>2 DEF KeepsTrack, Saves
<1>2. TrackInv /\ [Next]_vars => [A]_vars
  BY <1>1
<1> QED BY <1>2, TrackInvHolds, PTL DEF Spec, DetectionKeepsReviewed

=============================================================================
