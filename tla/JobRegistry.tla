---------------------------- MODULE JobRegistry ----------------------------
(* editor/jobs.py (JobRegistry) together with the three request handlers   *)
(* of editor/app.py that use it: start_detect, start_export and get_job.   *)
(*                                                                         *)
(* One job is made per request, so a job stands for its whole thread of    *)
(* control: the request handler up to the start of the worker, then the    *)
(* worker's wrapper with the work() closure inside it.  pc[j] is the point *)
(* that thread has reached.  Every registry method runs under one lock;    *)
(* to_api does not take it, so a reader sees the fields one at a time.     *)
(*                                                                         *)
(* progress and message are left out: they are written by every update and *)
(* read by nobody in the server.                                           *)

CONSTANTS
    DetectJobs,    \* jobs made by POST /detect
    ExportJobs,    \* jobs made by POST /export
    Readers,       \* concurrent GET /api/jobs/{id} requests
    NoJob,         \* None
    SpawnMayFail   \* whether Thread.start() may raise

ASSUME JobSetsAreDisjoint == DetectJobs \cap ExportJobs = {}
ASSUME NoJobIsNoJob == NoJob \notin DetectJobs \cup ExportJobs
ASSUME SpawnMayFailIsBoolean == SpawnMayFail \in BOOLEAN

Jobs == DetectJobs \cup ExportJobs

VARIABLES
    jobs,     \* the _jobs dictionary: status, has a result, has an error text
    active,   \* _active_detect_job_id
    lock,     \* who holds _lock across a step (NoJob: it is free)
    pc,       \* where the handler or the worker of a job is
    reader    \* the answer each reader is putting together

vars == <<jobs, active, lock, pc, reader>>

Statuses == {"absent", "queued", "running", "done", "error"}
Live == {"queued", "running"}
Terminal == {"done", "error"}

\* The points of a detection's thread between its claim and its release.
Holding == {"claimed", "dropped", "spawned", "body", "publish",
            "release_ok", "release_error"}

\* The points where the worker is inside work(), the detection itself.
InWork == {"body", "publish", "release_ok", "release_error"}

Points == Holding \cup
          {"new", "created", "refused", "complete", "fail", "failing", "ended"}

JobState == [status : Statuses, result : BOOLEAN, error : BOOLEAN]
ReaderState == [at : {"idle", "status", "result", "error", "answered"},
                job : Jobs \cup {NoJob}, status : Statuses,
                result : BOOLEAN, error : BOOLEAN]

TypeOK ==
    /\ jobs \in [Jobs -> JobState]
    /\ active \in DetectJobs \cup {NoJob}
    /\ lock \in Jobs \cup {NoJob}
    /\ pc \in [Jobs -> Points]
    /\ reader \in [Readers -> ReaderState]

LockFree == lock = NoJob

Init ==
    /\ jobs = [j \in Jobs |->
                 [status |-> "absent", result |-> FALSE, error |-> FALSE]]
    /\ active = NoJob
    /\ lock = NoJob
    /\ pc = [j \in Jobs |-> "new"]
    /\ reader = [r \in Readers |->
                   [at |-> "idle", job |-> NoJob, status |-> "absent",
                    result |-> FALSE, error |-> FALSE]]

Goto(j, point) == pc' = [pc EXCEPT ![j] = point]

-----------------------------------------------------------------------------
(* The request handlers. *)

\* JobRegistry.create, the first thing both start handlers do.
Create(j) ==
    /\ LockFree
    /\ pc[j] = "new"
    /\ jobs' = [jobs EXCEPT ![j].status = "queued"]
    /\ Goto(j, "created")
    /\ UNCHANGED <<active, lock, reader>>

\* Bug variant of Busy: only a job that already runs counts, not a queued one.
BusyIfRunning(j) ==
    /\ active # NoJob
    /\ active # j
    /\ jobs[active].status = "running"

\* The job that keeps claim_detect_job(j) from succeeding.
Busy(j) ==
    /\ active # NoJob
    /\ active # j
    /\ jobs[active].status \in Live

\* Bug variant of Claim: the slot is read by one call and taken by another.
ClaimUnchecked(j) ==
    /\ LockFree
    /\ pc[j] = "created"
    /\ active' = j
    /\ Goto(j, "claimed")
    /\ UNCHANGED <<jobs, lock, reader>>

\* claim_detect_job; a refused request answers 409 and leaves its job queued.
Claim(j) ==
    /\ LockFree
    /\ pc[j] = "created"
    /\ \/ /\ Busy(j)
          /\ Goto(j, "refused")
          /\ UNCHANGED active
       \/ /\ ~Busy(j)
          /\ active' = j
          /\ Goto(j, "claimed")
    /\ UNCHANGED <<jobs, lock, reader>>

\* A detection starts its worker once claimed, an export at once.
MaySpawn(j) == pc[j] = IF j \in DetectJobs THEN "claimed" ELSE "created"

\* run_in_thread starts the daemon thread.
Spawn(j) ==
    /\ MaySpawn(j)
    /\ Goto(j, "spawned")
    /\ UNCHANGED <<jobs, active, lock, reader>>

\* Thread.start() raises: the handler answers 500, the claim stays taken.
SpawnFails(j) ==
    /\ SpawnMayFail
    /\ MaySpawn(j)
    /\ Goto(j, "dropped")
    /\ UNCHANGED <<jobs, active, lock, reader>>

-----------------------------------------------------------------------------
(* The worker: wrapper() of run_in_thread around work().  *)

\* update(status="running").
Start(j) ==
    /\ LockFree
    /\ pc[j] = "spawned"
    /\ jobs' = [jobs EXCEPT ![j].status = "running"]
    /\ Goto(j, "body")
    /\ UNCHANGED <<active, lock, reader>>

\* run_detection, or the load and the export, returns.
BodyReturns(j) ==
    /\ pc[j] = "body"
    /\ Goto(j, "publish")
    /\ UNCHANGED <<jobs, active, lock, reader>>

\* It raises: a detection still goes through its finally clause.
BodyRaises(j) ==
    /\ pc[j] = "body"
    /\ Goto(j, IF j \in DetectJobs THEN "release_error" ELSE "fail")
    /\ UNCHANGED <<jobs, active, lock, reader>>

\* update(result=...), the last statement of the try block.
Publish(j) ==
    /\ LockFree
    /\ pc[j] = "publish"
    /\ jobs' = [jobs EXCEPT ![j].result = TRUE]
    /\ Goto(j, IF j \in DetectJobs THEN "release_ok" ELSE "complete")
    /\ UNCHANGED <<active, lock, reader>>

\* Bug variant of Release: the claim is given up only on success.
ReleaseOnSuccess(j) ==
    /\ LockFree
    /\ pc[j] \in {"release_ok", "release_error"}
    /\ active' = IF active = j /\ pc[j] = "release_ok" THEN NoJob ELSE active
    /\ Goto(j, IF pc[j] = "release_ok" THEN "complete" ELSE "fail")
    /\ UNCHANGED <<jobs, lock, reader>>

\* release_detect_job in the finally clause: before the status changes.
Release(j) ==
    /\ LockFree
    /\ pc[j] \in {"release_ok", "release_error"}
    /\ active' = IF active = j THEN NoJob ELSE active
    /\ Goto(j, IF pc[j] = "release_ok" THEN "complete" ELSE "fail")
    /\ UNCHANGED <<jobs, lock, reader>>

\* update(status="done").
Complete(j) ==
    /\ LockFree
    /\ pc[j] = "complete"
    /\ jobs' = [jobs EXCEPT ![j].status = "done"]
    /\ Goto(j, "ended")
    /\ UNCHANGED <<active, lock, reader>>

\* Bug variant of FailStatus: the exception handler forgets the status.
FailSilently(j) ==
    /\ LockFree
    /\ pc[j] = "fail"
    /\ lock' = j
    /\ Goto(j, "failing")
    /\ UNCHANGED <<jobs, active, reader>>

\* update(status="error", error=...): the status is written first ...
FailStatus(j) ==
    /\ LockFree
    /\ pc[j] = "fail"
    /\ lock' = j
    /\ jobs' = [jobs EXCEPT ![j].status = "error"]
    /\ Goto(j, "failing")
    /\ UNCHANGED <<active, reader>>

\* Bug variant of FailText: the wrapper retries by queueing the job again.
FailRequeues(j) ==
    /\ pc[j] = "failing"
    /\ lock' = NoJob
    /\ jobs' = [jobs EXCEPT ![j].status = "queued", ![j].error = TRUE]
    /\ Goto(j, "ended")
    /\ UNCHANGED <<active, reader>>

\* ... and the error text last, in the same critical section.
FailText(j) ==
    /\ pc[j] = "failing"
    /\ lock' = NoJob
    /\ jobs' = [jobs EXCEPT ![j].error = TRUE]
    /\ Goto(j, "ended")
    /\ UNCHANGED <<active, reader>>

-----------------------------------------------------------------------------
(* Reading the registry. *)

\* running_detect_job_id: forgets a claim whose job is over.
RunningDetectJobId ==
    /\ LockFree
    /\ active # NoJob
    /\ active' = IF jobs[active].status \in Live THEN active ELSE NoJob
    /\ UNCHANGED <<jobs, lock, pc, reader>>

\* get_job: jobs.get under the lock; an unknown id is a 404 and no answer.
GetJob(r, j) ==
    /\ LockFree
    /\ reader[r].at \in {"idle", "answered"}
    /\ jobs[j].status # "absent"
    /\ reader' = [reader EXCEPT ![r] =
                    [at |-> "status", job |-> j, status |-> "absent",
                     result |-> FALSE, error |-> FALSE]]
    /\ UNCHANGED <<jobs, active, lock, pc>>

\* Bug variant of ReadStatus: the answer reads the result before the status.
ReadResultFirst(r) ==
    \/ /\ reader[r].at = "status"
       /\ reader' = [reader EXCEPT ![r].result = jobs[reader[r].job].result,
                                   ![r].at = "result"]
       /\ UNCHANGED <<jobs, active, lock, pc>>
    \/ /\ reader[r].at = "result"
       /\ reader' = [reader EXCEPT ![r].status = jobs[reader[r].job].status,
                                   ![r].at = "error"]
       /\ UNCHANGED <<jobs, active, lock, pc>>

\* to_api reads the fields one by one, in this order and without the lock.
ReadField(r) ==
    \/ /\ reader[r].at = "status"
       /\ reader' = [reader EXCEPT ![r].status = jobs[reader[r].job].status,
                                   ![r].at = "result"]
       /\ UNCHANGED <<jobs, active, lock, pc>>
    \/ /\ reader[r].at = "result"
       /\ reader' = [reader EXCEPT ![r].result = jobs[reader[r].job].result,
                                   ![r].at = "error"]
       /\ UNCHANGED <<jobs, active, lock, pc>>

\* The last field; the answer is sent.
ReadError(r) ==
    /\ reader[r].at = "error"
    /\ reader' = [reader EXCEPT ![r].error = jobs[reader[r].job].error,
                                ![r].at = "answered"]
    /\ UNCHANGED <<jobs, active, lock, pc>>

-----------------------------------------------------------------------------
\* Bug variant of HandlerStep: exports take the detection slot as well.
HandlerStepClaimsAlways(j) == \/ Create(j)
                              \/ Claim(j)
                              \/ Spawn(j)
                              \/ SpawnFails(j)

HandlerStep(j) == \/ Create(j)
                  \/ j \in DetectJobs /\ Claim(j)
                  \/ Spawn(j)
                  \/ SpawnFails(j)

WorkerStep(j) == \/ Start(j)
                 \/ BodyReturns(j)
                 \/ BodyRaises(j)
                 \/ Publish(j)
                 \/ Release(j)
                 \/ Complete(j)
                 \/ FailStatus(j)
                 \/ FailText(j)

ReaderStep(r) == \/ \E j \in Jobs : GetJob(r, j)
                 \/ ReadField(r)
                 \/ ReadError(r)

Next == \/ \E j \in Jobs : HandlerStep(j) \/ WorkerStep(j)
        \/ RunningDetectJobId
        \/ \E r \in Readers : ReaderStep(r)

Spec == Init /\ [][Next]_vars

\* Threads run: a handler that has made its job goes on to start the worker,
\* and a worker goes on to its end.  run_detection and the export are loops
\* over finitely many frames or one ffmpeg process, so they return or raise.
Fairness == \A j \in Jobs : /\ WF_vars(Spawn(j))
                            /\ WF_vars(WorkerStep(j))

FairSpec == Spec /\ Fairness

-----------------------------------------------------------------------------
(* Properties. *)

\* Two detections never run at once, whatever the order in which requests,
\* workers and releases interleave (the scanner holds one model on the GPU).
OneDetectionAtATime ==
    \A j, k \in DetectJobs :
        (pc[j] \in InWork /\ pc[k] \in InWork) => j = k

\* A claim that is still recorded belongs to a job that has not ended, so the
\* "other job is over" branches of claim and of running_detect_job_id are
\* only a second line of defence: the release alone keeps the slot right.
ClaimIsLive == active # NoJob => jobs[active].status \in Live

\* Between its claim and its release a detection is the recorded one, still
\* live; with it, a claim by another job is refused.  (Inductive.)
HolderIsActive ==
    \A j \in DetectJobs :
        pc[j] \in Holding => active = j /\ jobs[j].status \in Live

\* An answer that says "done" carries the result, although its fields are
\* read without the lock: app.js shows the export's download link from it.
DoneAnswerHasResult ==
    \A r \in Readers :
        reader[r].at = "answered" /\ reader[r].status = "done"
            => reader[r].result

\* A job that has ended never changes status again: a client that stopped
\* polling on "done" or "error" has not stopped too early.
EndedJobStaysEnded ==
    [][\A j \in Jobs :
          jobs[j].status \in Terminal => jobs'[j].status = jobs[j].status]_vars

\* Every worker that is started ends in "done" or "error".
StartedJobEnds ==
    \A j \in Jobs : pc[j] = "spawned" ~> jobs[j].status \in Terminal

\* The detection slot that a job takes becomes free of that job again, but for
\* a job whose worker could not be started: nothing gives up its claim.
ClaimIsReleased ==
    \A j \in DetectJobs : active = j ~> (active # j \/ pc[j] = "dropped")

-----------------------------------------------------------------------------
(* The registry implements DetectionLock: a job holds the slot from its     *)
(* claim to its release.                                                    *)

Phase(j) == CASE pc[j] \in {"new", "created"} -> "idle"
              [] pc[j] = "refused" -> "refused"
              [] pc[j] \in Holding -> "holding"
              [] OTHER -> "left"

Slot == INSTANCE DetectionLock WITH
            Jobs <- DetectJobs,
            phase <- [j \in DetectJobs |-> Phase(j)]

\* Admission one at a time, and no refusal without an admitted job.
SlotSpec == Slot!Spec

=============================================================================
