---------------------------- MODULE ProjectStore ----------------------------
(* One project.json and everything that rewrites it: the mutating request   *)
(* handlers of editor/app.py, the detection worker of editor/detect.py, and *)
(* load_project / save_project of editor/project.py.                        *)
(*                                                                          *)
(* Every writer loads the whole project, changes its own copy and saves the *)
(* whole copy; no lock spans the two: requests overlap as they like, and a   *)
(* save may overwrite what was saved since its load.  A handler is one such  *)
(* request: it loads, maybe waits, writes a temporary file, syncs it and    *)
(* renames it over project.json.  A segment keeps what the writers look at: *)
(* whether somebody has reviewed it (source manual or status accepted) and  *)
(* which clip replaces it; its times, topic and action are left out.        *)
(*                                                                          *)
(* A crash is a loss of power: bytes that were written and not synced may   *)
(* be lost.  A rename is taken to be durable once made.                     *)
EXTENDS Naturals, FiniteSets

CONSTANTS
    Handlers,    \* the requests that may be made, one each
    Clients,     \* browsers, each with the project as it last received it
    Clips,       \* names of replacement clips
    NoClip,      \* replacement_clip is None
    OldSegment,  \* the segment of the project at the start
    MaxCrashes   \* bound: how often the machine goes down

ASSUME OldSegmentAssumption == OldSegment \notin Handlers
ASSUME ClipsAssumption == NoClip \notin Clips
ASSUME CrashAssumption == MaxCrashes \in Nat

VARIABLES
    project,   \* project.json: its content and how safe the bytes are
    handler,   \* what each request is doing, with its copy and its client
    tmp,       \* the temporary file of a request that saves
    clipFile,  \* the files under replacements/
    view,      \* what each client last received
    lost,      \* history: a save has overwritten one it had not loaded
    crashes

vars == <<project, handler, tmp, clipFile, view, lost, crashes>>

\* Segment ids are random; here a request names the segment it makes.
Segment == [id : Handlers \cup {OldSegment}, reviewed : BOOLEAN, clip : Clips \cup {NoClip}]
Project == [revision : Nat, segments : SUBSET Segment, clips : SUBSET Clips]

\* Of a file: cut short by a crash, in the page cache only, or on the disk.
Bytes == {"partial", "cached", "durable"}
File == [content : Project, bytes : Bytes]
NoFile == [bytes |-> "none"]

Ops == {"none", "put", "add", "patch", "delete", "upload", "detect"}
Points == {"idle", "receiving", "loaded", "written", "synced", "saved", "refused"}

\* The project after its creation and one detection with one suggestion.
First == [revision |-> 2, clips |-> {},
          segments |-> {[id |-> OldSegment, reviewed |-> FALSE, clip |-> NoClip]}]

\* from is the project as the request loaded it (history), copy what it will
\* save.  client and base are for put: who sent it, edited from which version;
\* clip is for upload.
HandlerState == [at : Points, op : Ops, from : Project, copy : Project,
                 clip : Clips \cup {NoClip}, client : SUBSET Clients, base : Project]

TypeOK ==
    /\ project \in File
    /\ handler \in [Handlers -> HandlerState]
    /\ tmp \in [Handlers -> File \cup {NoFile}]
    /\ clipFile \in [Clips -> {"none", "partial", "whole"}]
    /\ view \in [Clients -> Project]
    /\ lost \in BOOLEAN
    /\ crashes \in 0..MaxCrashes

Stored == project.content

Asked(op, copy, at) ==
    [at |-> at, op |-> op, from |-> Stored, copy |-> copy, clip |-> NoClip,
     client |-> {}, base |-> First]

Init ==
    /\ project = [content |-> First, bytes |-> "durable"]
    /\ handler = [h \in Handlers |-> Asked("none", First, "idle")]
    /\ tmp = [h \in Handlers |-> NoFile]
    /\ clipFile = [c \in Clips |-> "none"]
    /\ view = [c \in Clients |-> First]
    /\ lost = FALSE
    /\ crashes = 0

-----------------------------------------------------------------------------
(* Helpers. *)

InFlight(h) == handler[h].at \in {"receiving", "loaded", "written", "synced"}

\* validate_segment_replacements against the copy the request has loaded.
KnownClip(seg, copy) == seg.clip \in copy.clips \cup {NoClip}

\* The request has loaded the project (load_project parses the file, so a
\* file cut short raises) and goes on with what it asks for.
Loads(h, asked) ==
    /\ handler[h].at = "idle"
    /\ project.bytes # "partial"
    /\ handler' = [handler EXCEPT ![h] = asked]

WithSegments(segs) == [Stored EXCEPT !.segments = segs]

-----------------------------------------------------------------------------
(* Requests, up to the point where they save. *)

\* What app.js can send: nothing changed, all suggestions accepted or
\* cleared, or a clip chosen for one segment.
EditsOf(v) ==
    {v.segments,
     {[s EXCEPT !.reviewed = TRUE] : s \in v.segments},
     {s \in v.segments : s.reviewed}}
    \cup {(v.segments \ {s}) \cup {[s EXCEPT !.clip = c]} :
             s \in v.segments, c \in v.clips}

\* get_project: the client takes what the server holds.
Get(c) ==
    /\ project.bytes # "partial"
    /\ view' = [view EXCEPT ![c] = Stored]
    /\ UNCHANGED <<project, handler, tmp, clipFile, lost, crashes>>

\* The request of a put, accepted or refused.
AskedPut(c, segs, accepted) ==
    [at |-> IF accepted THEN "loaded" ELSE "refused", op |-> "put",
     from |-> Stored, copy |-> WithSegments(segs), clip |-> NoClip, client |-> {c}, base |-> view[c]]

\* Bug variant of Put: no comparison of revisions.
PutUnconditionally(h, c, segs) ==
    /\ Loads(h, AskedPut(c, segs, \A s \in segs : KnownClip(s, Stored)))
    /\ UNCHANGED <<project, tmp, clipFile, view, lost, crashes>>

\* Bug variant of Put: clips are not validated against the stored project.
PutAnyClips(h, c, segs) ==
    /\ Loads(h, AskedPut(c, segs, view[c].revision = Stored.revision))
    /\ UNCHANGED <<project, tmp, clipFile, view, lost, crashes>>

\* put_project: 409 unless the client's revision is the stored one, then
\* every segment of the payload is validated against the stored project.
Put(h, c, segs) ==
    /\ Loads(h, AskedPut(c, segs, /\ view[c].revision = Stored.revision
                                  /\ \A s \in segs : KnownClip(s, Stored)))
    /\ UNCHANGED <<project, tmp, clipFile, view, lost, crashes>>

\* The request of an add or a patch: refused (400) if the clip is unknown.
AskedSegment(op, segs, seg) ==
    Asked(op, WithSegments(segs \cup {seg}),
          IF KnownClip(seg, Stored) THEN "loaded" ELSE "refused")

\* add_segment: no revision is asked for.
AddSegment(h, reviewed, clip) ==
    LET seg == [id |-> h, reviewed |-> reviewed, clip |-> clip]
    IN  /\ Loads(h, AskedSegment("add", Stored.segments, seg))
        /\ UNCHANGED <<project, tmp, clipFile, view, lost, crashes>>

\* patch_segment of a segment that is there.
PatchSegment(h, seg, reviewed, clip) ==
    LET new == [seg EXCEPT !.reviewed = reviewed, !.clip = clip]
    IN  /\ Loads(h, AskedSegment("patch", Stored.segments \ {seg}, new))
        /\ UNCHANGED <<project, tmp, clipFile, view, lost, crashes>>

\* delete_segment.
DeleteSegment(h, seg) ==
    /\ Loads(h, Asked("delete", WithSegments(Stored.segments \ {seg}), "loaded"))
    /\ UNCHANGED <<project, tmp, clipFile, view, lost, crashes>>

\* Bug variant of UploadBegins: the file name is lost (an empty entry).
UploadForgetsName(h, clip) ==
    /\ Loads(h, Asked("upload", Stored, "receiving"))
    /\ clipFile' = [clipFile EXCEPT ![clip] = "partial"]
    /\ UNCHANGED <<project, tmp, view, lost, crashes>>

\* upload_replacement loads the project, then truncates the clip's file and
\* receives it chunk by chunk.
UploadBegins(h, clip) ==
    /\ Loads(h, [Asked("upload", Stored, "receiving") EXCEPT !.clip = clip])
    /\ clipFile' = [clipFile EXCEPT ![clip] = "partial"]
    /\ UNCHANGED <<project, tmp, view, lost, crashes>>

\* The last chunk; the entry goes into the copy loaded at the beginning.
UploadReceived(h) ==
    LET clip == handler[h].clip
        listed == [handler[h].copy EXCEPT !.clips = @ \cup {clip}]
    IN  /\ handler[h].at = "receiving"
        /\ clipFile' = [clipFile EXCEPT ![clip] = "whole"]
        /\ handler' = [handler EXCEPT ![h].at = "loaded", ![h].copy = listed]
        /\ UNCHANGED <<project, tmp, view, lost, crashes>>

\* What a detection suggests.
Found(h, some) ==
    IF some THEN {[id |-> h, reviewed |-> FALSE, clip |-> NoClip]} ELSE {}

NoDetection == \A k \in Handlers : ~(InFlight(k) /\ handler[k].op = "detect")

\* Bug variant of Detect: all segments are replaced, reviewed ones included.
DetectReplacesAll(h, some) ==
    /\ NoDetection
    /\ Loads(h, Asked("detect", WithSegments(Found(h, some)), "loaded"))
    /\ UNCHANGED <<project, tmp, clipFile, view, lost, crashes>>

\* run_detection: the copy it will save is the one loaded before the scan;
\* the job registry admits one detection at a time.
Detect(h, some) ==
    /\ NoDetection
    /\ Loads(h, Asked("detect",
                      WithSegments({s \in Stored.segments : s.reviewed}
                                      \cup Found(h, some)),
                      "loaded"))
    /\ UNCHANGED <<project, tmp, clipFile, view, lost, crashes>>

-----------------------------------------------------------------------------
(* save_project. *)

\* Bug variant of SaveWrite: the revision of the copy is saved as it is.
SaveWriteSameRevision(h) ==
    /\ handler[h].at = "loaded"
    /\ tmp' = [tmp EXCEPT ![h] = [content |-> handler[h].copy, bytes |-> "cached"]]
    /\ handler' = [handler EXCEPT ![h].at = "written"]
    /\ UNCHANGED <<project, clipFile, view, lost, crashes>>

\* validate, revision += 1 in the copy, mkstemp, write.
SaveWrite(h) ==
    LET saved == [handler[h].copy EXCEPT !.revision = @ + 1]
    IN  /\ handler[h].at = "loaded"
        /\ tmp' = [tmp EXCEPT ![h] = [content |-> saved, bytes |-> "cached"]]
        /\ handler' = [handler EXCEPT ![h].at = "written", ![h].copy = saved]
        /\ UNCHANGED <<project, clipFile, view, lost, crashes>>

\* Bug variant of SaveSync: flush only, no fsync.
SaveFlush(h) ==
    /\ handler[h].at = "written"
    /\ handler' = [handler EXCEPT ![h].at = "synced"]
    /\ UNCHANGED <<project, tmp, clipFile, view, lost, crashes>>

\* flush and fsync.
SaveSync(h) ==
    /\ handler[h].at = "written"
    /\ tmp' = [tmp EXCEPT ![h].bytes = "durable"]
    /\ handler' = [handler EXCEPT ![h].at = "synced"]
    /\ UNCHANGED <<project, clipFile, view, lost, crashes>>

\* os.replace, and the response: a client's put brings it the new version.
SaveReplace(h) ==
    /\ handler[h].at = "synced"
    /\ project' = tmp[h]
    /\ tmp' = [tmp EXCEPT ![h] = NoFile]
    /\ handler' = [handler EXCEPT ![h].at = "saved"]
    /\ view' = [c \in Clients |->
                  IF c \in handler[h].client THEN handler[h].copy ELSE view[c]]
    /\ lost' = (lost \/ handler[h].from # Stored)
    /\ UNCHANGED <<clipFile, crashes>>

\* Bug variant of Fails: a failed upload also removes the clip's file.
FailsRemovingClip(h) ==
    /\ handler[h].at \in {"receiving", "loaded", "written", "synced"}
    /\ tmp' = [tmp EXCEPT ![h] = NoFile]
    /\ handler' = [handler EXCEPT ![h].at = "refused"]
    /\ clipFile' = [c \in Clips |-> IF c = handler[h].clip THEN "none" ELSE clipFile[c]]
    /\ UNCHANGED <<project, view, lost, crashes>>

\* The probe of an upload, the write, the sync or the rename raises: the
\* temporary file is removed and the request answers 500.
Fails(h) ==
    /\ handler[h].at \in {"receiving", "loaded", "written", "synced"}
    /\ tmp' = [tmp EXCEPT ![h] = NoFile]
    /\ handler' = [handler EXCEPT ![h].at = "refused"]
    /\ UNCHANGED <<project, clipFile, view, lost, crashes>>

\* The machine goes down: requests in flight are gone, their temporary files
\* are left behind unread, and bytes that were not synced may be lost; the
\* files of clips never are synced.
Crash ==
    /\ crashes < MaxCrashes
    /\ crashes' = crashes + 1
    /\ \E b \in IF project.bytes = "cached" THEN {"partial", "durable"}
                ELSE {project.bytes} :
          project' = [project EXCEPT !.bytes = b]
    /\ handler' = [h \in Handlers |->
                     IF InFlight(h) THEN [handler[h] EXCEPT !.at = "refused"]
                     ELSE handler[h]]
    /\ tmp' = [h \in Handlers |-> NoFile]
    /\ clipFile' \in [Clips -> {"none", "partial", "whole"}]
    /\ \A c \in Clips : clipFile'[c] \in {clipFile[c], "none"}
                              \cup IF clipFile[c] = "none" THEN {} ELSE {"partial"}
    /\ UNCHANGED <<view, lost>>

-----------------------------------------------------------------------------
Request(h) ==
    \/ \E c \in Clients : \E segs \in EditsOf(view[c]) : Put(h, c, segs)
    \/ \E reviewed \in BOOLEAN, clip \in Clips \cup {NoClip} :
          \/ AddSegment(h, reviewed, clip)
          \/ \E seg \in Stored.segments : PatchSegment(h, seg, reviewed, clip)
    \/ \E seg \in Stored.segments : DeleteSegment(h, seg)
    \/ \E clip \in Clips : UploadBegins(h, clip)
    \/ \E some \in BOOLEAN : Detect(h, some)

Save(h) ==
    \/ SaveWrite(h)
    \/ SaveSync(h)
    \/ SaveReplace(h)
    \/ Fails(h)

Next ==
    \/ \E h \in Handlers : Request(h) \/ UploadReceived(h) \/ Save(h)
    \/ \E c \in Clients : Get(c)
    \/ Crash

Spec == Init /\ [][Next]_vars

-----------------------------------------------------------------------------
(* What holds however requests overlap. *)

\* project.json can be parsed in every state, also after a crash at any
\* point of any save: the editor never loses a whole project.
ProjectAlwaysReadable == project.bytes # "partial"

\* Every clip a stored segment names is a replacement of the stored project,
\* although save_project does not validate it and requests overlap: each
\* request validates against the copy it saves.
StoredClipsAreKnown == \A s \in Stored.segments : KnownClip(s, Stored)

\* A replacement that the project lists has a file, however uploads fail and
\* overlap, as long as the machine stays up.
ListedClipHasFile == crashes = 0 => \A c \in Stored.clips : clipFile[c] # "none"

-----------------------------------------------------------------------------
(* What the revision check is worth.  No lock spans a load and its save, so  *)
(* a save can overwrite another one; lost says that this has happened.       *)

\* As long as no save has overwritten another one, a client that holds the
\* stored revision holds the stored project, whatever is under way, fails or
\* crashes: this is what lets put_project compare numbers instead of contents.
RevisionNamesContent ==
    ~lost => \A c \in Clients : view[c].revision = Stored.revision => view[c] = Stored

Saves(h, op) ==
    handler[h].at = "synced" /\ handler'[h].at = "saved" /\ handler[h].op = op

\* put_project: "project changed on server; reload and retry" is said whenever
\* it is true.  It is not: another request can save between the comparison of
\* the revisions and the rename.
AcceptedPutSeesCurrent ==
    [][\A h \in Handlers :
          Saves(h, "put") => handler[h].base.segments = Stored.segments]_vars

\* That race is the only way: a put that goes through replaces the segments
\* its client edited, unless it or an earlier save overwrote a version that
\* came between its load and its rename.
UncontestedPutSeesCurrent ==
    [][\A h \in Handlers :
          Saves(h, "put") /\ ~lost' => handler[h].base.segments = Stored.segments]_vars

\* A detection, however long its scan and whatever is saved meanwhile, removes
\* no reviewed segment that was there when it loaded the project; what it can
\* destroy is a review made during the scan.
DetectionKeepsReviewed ==
    [][\A h \in Handlers : Saves(h, "detect") =>
          \A s \in Stored.segments \ Stored'.segments :
              s.reviewed => s \notin handler[h].from.segments]_vars

=============================================================================
