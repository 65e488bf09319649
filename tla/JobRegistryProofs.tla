------------------------- MODULE JobRegistryProofs -------------------------
(* Theorems about JobRegistry for every set of jobs and readers: type      *)
(* correctness, mutual exclusion of detections, completeness of a "done"   *)
(* answer, finality of an ended job, and refinement of DetectionLock.      *)
EXTENDS JobRegistry, TLAPS

USE JobSetsAreDisjoint, NoJobIsNoJob

-----------------------------------------------------------------------------
(* Type correctness. *)

\* What update() writes is one field of one job.
LEMMA UpdateIsTyped ==
    ASSUME jobs \in [Jobs -> JobState], NEW j \in Jobs
    PROVE  /\ [jobs EXCEPT ![j].result = TRUE] \in [Jobs -> JobState]
           /\ [jobs EXCEPT ![j].error = TRUE] \in [Jobs -> JobState]
<1>1. [jobs[j] EXCEPT !.result = TRUE] \in JobState
  BY DEF JobState
<1>2. [jobs[j] EXCEPT !.error = TRUE] \in JobState
  BY DEF JobState
<1>3. ASSUME NEW n \in JobState PROVE [jobs EXCEPT ![j] = n] \in [Jobs -> JobState]
  OBVIOUS
<1> QED BY <1>1, <1>2, <1>3

\* Every reachable state of the registry, its threads and its readers has
\* the declared types.
THEOREM TypeCorrect == Spec => []TypeOK
<1> USE DEF TypeOK, Jobs, JobState, ReaderState, Statuses, Points, Holding
<1>1. Init => TypeOK
  BY DEF Init
<1>2. TypeOK /\ [Next]_vars => TypeOK'
  <2> SUFFICES ASSUME TypeOK, [Next]_vars PROVE TypeOK'
    OBVIOUS
  <2>1. ASSUME NEW j \in Jobs, HandlerStep(j) PROVE TypeOK'
    <3>1. CASE Create(j)
      BY <3>1 DEF Create, Goto
    <3>2. CASE j \in DetectJobs /\ Claim(j)
      BY <3>2 DEF Claim, Goto
    <3>3. CASE Spawn(j)
      BY <3>3 DEF Spawn, Goto
    <3>4. CASE SpawnFails(j)
      BY <3>4 DEF SpawnFails, Goto
    <3> QED BY <2>1, <3>1, <3>2, <3>3, <3>4 DEF HandlerStep
  <2>2. ASSUME NEW j \in Jobs, WorkerStep(j) PROVE TypeOK'
    <3>1. CASE Start(j)
      BY <3>1 DEF Start, Goto
    <3>2. CASE BodyReturns(j) \/ BodyRaises(j)
      BY <3>2 DEF BodyReturns, BodyRaises, Goto
    <3>3. CASE Publish(j)
      <4>1. jobs' \in [Jobs -> JobState]
        <5>1. jobs' = [jobs EXCEPT ![j].result = TRUE]
          BY <3>3 DEF Publish
        <5> HIDE DEF Jobs, JobState
        <5> QED BY <5>1, UpdateIsTyped DEF TypeOK
      <4>2. pc' \in [Jobs -> Points]
        BY <3>3 DEF Publish, Goto
      <4> QED BY <3>3, <4>1, <4>2 DEF Publish
    <3>4. CASE Release(j)
      BY <3>4 DEF Release, Goto
    <3>5. CASE Complete(j)
      BY <3>5 DEF Complete, Goto
    <3>6. CASE FailStatus(j)
      BY <3>6 DEF FailStatus, Goto
    <3>7. CASE FailText(j)
      <4>1. jobs' \in [Jobs -> JobState]
        <5>1. jobs' = [jobs EXCEPT ![j].error = TRUE]
          BY <3>7 DEF FailText
        <5> HIDE DEF Jobs, JobState
        <5> QED BY <5>1, UpdateIsTyped DEF TypeOK
      <4>2. pc' \in [Jobs -> Points]
        BY <3>7 DEF FailText, Goto
      <4> QED BY <3>7, <4>1, <4>2 DEF FailText
    <3> QED BY <2>2, <3>1, <3>2, <3>3, <3>4, <3>5, <3>6, <3>7 DEF WorkerStep
  <2>3. CASE RunningDetectJobId
    BY <2>3 DEF RunningDetectJobId
  <2>4. ASSUME NEW r \in Readers, ReaderStep(r) PROVE TypeOK'
    <3>1. ASSUME NEW j \in Jobs, GetJob(r, j) PROVE TypeOK'
      BY <3>1 DEF GetJob
    <3>2. CASE ReadField(r)
      BY <3>2 DEF ReadField
    <3>3. CASE ReadError(r)
      BY <3>3 DEF ReadError
    <3> QED BY <2>4, <3>1, <3>2, <3>3 DEF ReaderStep
  <2>5. CASE UNCHANGED vars
    BY <2>5 DEF vars
  <2> QED BY <2>1, <2>2, <2>3, <2>4, <2>5 DEF Next
<1> QED BY <1>1, <1>2, PTL DEF Spec

-----------------------------------------------------------------------------
(* The detection slot. *)

\* A recorded claim is of a job between its claim and its release.
ActiveIsHolding == active # NoJob => pc[active] \in Holding

\* A job that has been made and not yet claimed or started is queued.
CreatedIsQueued ==
    \A j \in Jobs : pc[j] = "created" => jobs[j].status = "queued"

\* The inductive invariant: OneDetectionAtATime alone is not inductive, for a
\* claim by k is refused only because the holder is the recorded, live job.
SlotInv == TypeOK /\ HolderIsActive /\ ActiveIsHolding /\ CreatedIsQueued

\* A step of a job's thread other than Claim and Release keeps the claim, and
\* leaves its job where it holds the slot, if it held it.
LEMMA SlotInvInductive == SlotInv /\ [Next]_vars /\ TypeOK' => SlotInv'
<1> SUFFICES ASSUME SlotInv, [Next]_vars, TypeOK' PROVE SlotInv'
  OBVIOUS
<1> USE DEF SlotInv, HolderIsActive, ActiveIsHolding, CreatedIsQueued, Holding,
            Live, Jobs, TypeOK, JobState, Statuses, Points
<1>1. ASSUME NEW j \in Jobs, HandlerStep(j) PROVE SlotInv'
  <2>1. CASE Create(j)
    BY <2>1 DEF Create, Goto
  <2>2. CASE j \in DetectJobs /\ Claim(j)
    <3>1. CASE Busy(j)
      BY <2>2, <3>1 DEF Claim, Goto
    <3>2. CASE ~Busy(j)
      <4>1. active' = j /\ pc' = [pc EXCEPT ![j] = "claimed"]
            /\ jobs' = jobs /\ pc[j] = "created"
        BY <2>2, <3>2 DEF Claim, Goto
      <4>2. \A k \in DetectJobs : pc[k] \notin Holding
        BY <2>2, <3>2 DEF Claim, Busy
      <4> QED BY <2>2, <4>1, <4>2
    <3> QED BY <3>1, <3>2
  <2>3. CASE Spawn(j)
    BY <2>3 DEF Spawn, MaySpawn, Goto
  <2>4. CASE SpawnFails(j)
    BY <2>4 DEF SpawnFails, MaySpawn, Goto
  <2> QED BY <1>1, <2>1, <2>2, <2>3, <2>4 DEF HandlerStep
<1>2. ASSUME NEW j \in Jobs, WorkerStep(j) PROVE SlotInv'
  <2>1. CASE Start(j)
    BY <2>1 DEF Start, Goto
  <2>2. CASE BodyReturns(j)
    BY <2>2 DEF BodyReturns, Goto
  <2>3. CASE BodyRaises(j)
    BY <2>3 DEF BodyRaises, Goto
  <2>4. CASE Publish(j)
    BY <2>4 DEF Publish, Goto
  <2>5. CASE Release(j)
    BY <2>5 DEF Release, Goto
  <2>6. CASE Complete(j)
    BY <2>6 DEF Complete, Goto
  <2>7. CASE FailStatus(j)
    BY <2>7 DEF FailStatus, Goto
  <2>8. CASE FailText(j)
    BY <2>8 DEF FailText, Goto
  <2> QED BY <1>2, <2>1, <2>2, <2>3, <2>4, <2>5, <2>6, <2>7, <2>8 DEF WorkerStep
<1>3. CASE RunningDetectJobId
  BY <1>3 DEF RunningDetectJobId
<1>4. ASSUME NEW r \in Readers, ReaderStep(r) PROVE SlotInv'
  BY <1>4 DEF ReaderStep, GetJob, ReadField, ReadError
<1>5. CASE UNCHANGED vars
  BY <1>5 DEF vars
<1> QED BY <1>1, <1>2, <1>3, <1>4, <1>5 DEF Next

\* The invariant above holds in every reachable state.
THEOREM SlotInvHolds == Spec => []SlotInv
<1>1. Init => SlotInv
  <2>1. Init => TypeOK
    BY DEF Init, TypeOK, Jobs, JobState, ReaderState, Statuses, Points, Holding
  <2> QED
    BY <2>1 DEF Init, SlotInv, HolderIsActive, ActiveIsHolding, CreatedIsQueued,
                Holding, Jobs
<1> QED BY <1>1, SlotInvInductive, TypeCorrect, PTL DEF Spec

\* Two detections never run at once, for any number of requests.
THEOREM MutualExclusion == Spec => []OneDetectionAtATime
<1>1. SlotInv => OneDetectionAtATime
  BY DEF SlotInv, HolderIsActive, OneDetectionAtATime, InWork, Holding
<1> QED BY <1>1, SlotInvHolds, PTL

\* A recorded claim belongs to a job that has not ended.
THEOREM ClaimStaysLive == Spec => []ClaimIsLive
<1>1. SlotInv => ClaimIsLive
  BY DEF SlotInv, TypeOK, HolderIsActive, ActiveIsHolding, ClaimIsLive, Jobs
<1> QED BY <1>1, SlotInvHolds, PTL

-----------------------------------------------------------------------------
(* Answers of get_job. *)

\* The result is there once the worker is past publishing it.
PublishedHasResult ==
    \A j \in Jobs :
        \/ pc[j] \in {"release_ok", "complete"}
        \/ jobs[j].status = "done"
        => jobs[j].result

\* What a reader has collected so far: after a "done" status, the result is
\* there to be read; once read, it is in the answer.
ReaderInv ==
    \A r \in Readers :
        reader[r].at \in {"result", "error", "answered"} /\ reader[r].status = "done"
            => /\ reader[r].job \in Jobs => jobs[reader[r].job].result
               /\ reader[r].at # "result" => reader[r].result

\* A reader that is at work has a job to read.
ReaderHasJob ==
    \A r \in Readers :
        reader[r].at \in {"status", "result", "error"} => reader[r].job \in Jobs

AnswerInv == TypeOK /\ PublishedHasResult /\ ReaderInv /\ ReaderHasJob

\* No result is ever taken back, so what a reader will find is already there.
LEMMA ResultsStay ==
    ASSUME TypeOK, [Next]_vars
    PROVE  \A j \in Jobs : jobs[j].result => jobs'[j].result
<1> USE DEF TypeOK, JobState
<1>1. ASSUME NEW k \in Jobs, HandlerStep(k)
      PROVE  \A j \in Jobs : jobs[j].result => jobs'[j].result
  BY <1>1 DEF HandlerStep, Create, Claim, Spawn, SpawnFails
<1>2. ASSUME NEW k \in Jobs, WorkerStep(k)
      PROVE  \A j \in Jobs : jobs[j].result => jobs'[j].result
  BY <1>2 DEF WorkerStep, Start, BodyReturns, BodyRaises, Publish, Release,
              Complete, FailStatus, FailText
<1>3. CASE \E r \in Readers : ReaderStep(r)
  BY <1>3 DEF ReaderStep, GetJob, ReadField, ReadError
<1> QED BY <1>1, <1>2, <1>3 DEF Next, RunningDetectJobId, vars

LEMMA AnswerInvInductive == AnswerInv /\ [Next]_vars /\ TypeOK' => AnswerInv'
<1> SUFFICES ASSUME AnswerInv, [Next]_vars, TypeOK' PROVE AnswerInv'
  OBVIOUS
<1>0. \A j \in Jobs : jobs[j].result => jobs'[j].result
  BY ResultsStay DEF AnswerInv
<1> USE DEF AnswerInv, TypeOK, JobState, ReaderState
<1>1. PublishedHasResult'
  <2> USE DEF PublishedHasResult
  <2>1. ASSUME NEW j \in Jobs, HandlerStep(j) PROVE PublishedHasResult'
    BY <2>1 DEF HandlerStep, Create, Claim, Spawn, SpawnFails, Goto
  <2>2. ASSUME NEW j \in Jobs, WorkerStep(j) PROVE PublishedHasResult'
    <3>1. CASE Start(j) \/ BodyReturns(j) \/ BodyRaises(j) \/ Release(j)
      BY <3>1 DEF Start, BodyReturns, BodyRaises, Release, Goto
    <3>2. CASE Publish(j) \/ Complete(j)
      BY <3>2 DEF Publish, Complete, Goto
    <3>3. CASE FailStatus(j) \/ FailText(j)
      BY <3>3 DEF FailStatus, FailText, Goto
    <3> QED BY <2>2, <3>1, <3>2, <3>3 DEF WorkerStep
  <2>3. CASE \E r \in Readers : ReaderStep(r)
    BY <2>3 DEF ReaderStep, GetJob, ReadField, ReadError
  <2> QED BY <2>1, <2>2, <2>3 DEF Next, RunningDetectJobId, vars
<1>2. ReaderInv' /\ ReaderHasJob'
  <2> USE DEF ReaderInv, ReaderHasJob
  <2>1. CASE UNCHANGED reader
    BY <2>1, <1>0
  <2>2. ASSUME NEW r \in Readers, ReaderStep(r) PROVE ReaderInv' /\ ReaderHasJob'
    <3>1. ASSUME NEW j \in Jobs, GetJob(r, j) PROVE ReaderInv' /\ ReaderHasJob'
      BY <3>1 DEF GetJob
    <3>2. CASE ReadField(r)
      <4>1. CASE reader[r].at = "status"
        <5>1. reader' = [reader EXCEPT ![r].status = jobs[reader[r].job].status,
                                       ![r].at = "result"]
              /\ jobs' = jobs /\ reader[r].job \in Jobs
          BY <3>2, <4>1 DEF ReadField
        <5>2. jobs[reader[r].job].status = "done" => jobs[reader[r].job].result
          BY <5>1 DEF PublishedHasResult
        <5>3. reader'[r].at = "result" /\ reader'[r].job = reader[r].job
              /\ reader'[r].status = jobs[reader[r].job].status
          BY <5>1
        <5>4. \A q \in Readers \ {r} : reader'[q] = reader[q]
          BY <5>1
        <5>5. ReaderHasJob'
          BY <5>1, <5>3, <5>4
        <5>6. \A q \in Readers \ {r} :
                reader'[q].at \in {"result", "error", "answered"} /\ reader'[q].status = "done"
                  => /\ reader'[q].job \in Jobs => jobs'[reader'[q].job].result
                     /\ reader'[q].at # "result" => reader'[q].result
          BY <5>1, <5>4
        <5>7. reader'[r].status = "done" => jobs'[reader'[r].job].result
          BY <5>1, <5>2, <5>3
        <5> QED BY <5>3, <5>5, <5>6, <5>7
      <4>2. CASE reader[r].at = "result"
        <5>1. reader' = [reader EXCEPT ![r].result = jobs[reader[r].job].result,
                                       ![r].at = "error"]
              /\ jobs' = jobs /\ reader[r].job \in Jobs
          BY <3>2, <4>2 DEF ReadField
        <5>2. reader'[r].at = "error" /\ reader'[r].job = reader[r].job
              /\ reader'[r].status = reader[r].status
              /\ reader'[r].result = jobs[reader[r].job].result
          BY <5>1
        <5>3. \A q \in Readers \ {r} : reader'[q] = reader[q]
          BY <5>1
        <5>4. ReaderHasJob'
          BY <5>1, <5>2, <5>3
        <5>5. \A q \in Readers \ {r} :
                reader'[q].at \in {"result", "error", "answered"} /\ reader'[q].status = "done"
                  => /\ reader'[q].job \in Jobs => jobs'[reader'[q].job].result
                     /\ reader'[q].at # "result" => reader'[q].result
          BY <5>1, <5>3
        <5>6. reader'[r].status = "done"
                => jobs'[reader'[r].job].result /\ reader'[r].result
          BY <4>2, <5>1, <5>2
        <5> QED BY <5>2, <5>4, <5>5, <5>6
      <4> QED BY <3>2, <4>1, <4>2 DEF ReadField
    <3>3. CASE ReadError(r)
      <4>1. reader[r].at = "error"
            /\ reader' = [reader EXCEPT ![r].error = jobs[reader[r].job].error,
                                        ![r].at = "answered"]
            /\ jobs' = jobs /\ reader[r].job \in Jobs
        BY <3>3 DEF ReadError
      <4>2. reader'[r].at = "answered" /\ reader'[r].job = reader[r].job
            /\ reader'[r].status = reader[r].status
            /\ reader'[r].result = reader[r].result
        BY <4>1
      <4>3. \A q \in Readers \ {r} : reader'[q] = reader[q]
        BY <4>1
      <4>4. ReaderHasJob'
        <5> SUFFICES ASSUME NEW q \in Readers,
                            reader'[q].at \in {"status", "result", "error"}
                     PROVE  reader'[q].job \in Jobs
          OBVIOUS
        <5>1. q # r
          BY <4>2
        <5> QED BY <4>3, <5>1
      <4>5. \A q \in Readers \ {r} :
              reader'[q].at \in {"result", "error", "answered"} /\ reader'[q].status = "done"
                => /\ reader'[q].job \in Jobs => jobs'[reader'[q].job].result
                   /\ reader'[q].at # "result" => reader'[q].result
        BY <4>1, <4>3
      <4>6. reader'[r].status = "done"
              => jobs'[reader'[r].job].result /\ reader'[r].result
        BY <4>1, <4>2
      <4> QED BY <4>2, <4>4, <4>5, <4>6
    <3> QED BY <2>2, <3>1, <3>2, <3>3 DEF ReaderStep
  <2>3. CASE \E j \in Jobs : HandlerStep(j) \/ WorkerStep(j)
    <3>1. UNCHANGED reader
      BY <2>3 DEF HandlerStep, WorkerStep, Create, Claim, Spawn, SpawnFails, Start,
                  BodyReturns, BodyRaises, Publish, Release, Complete, FailStatus,
                  FailText
    <3> QED BY <3>1, <2>1
  <2> QED BY <2>1, <2>2, <2>3 DEF Next, RunningDetectJobId, vars
<1> QED BY <1>1, <1>2

\* An answer that says "done" carries the result, although to_api reads the
\* fields without the lock.
THEOREM DoneAnswerComplete == Spec => []DoneAnswerHasResult
<1>1. Init => AnswerInv
  BY DEF Init, AnswerInv, TypeOK, Jobs, JobState, ReaderState, Statuses, Points,
         Holding, PublishedHasResult, ReaderInv, ReaderHasJob
<1>2. AnswerInv => DoneAnswerHasResult
  BY DEF AnswerInv, ReaderInv, DoneAnswerHasResult
<1> QED BY <1>1, <1>2, AnswerInvInductive, TypeCorrect, PTL DEF Spec

-----------------------------------------------------------------------------
(* The end of a job. *)

\* Only a worker at the very end of its thread has a final status: past it,
\* no step of that thread writes the status again.
EndedIsPastWriting ==
    \A j \in Jobs : jobs[j].status \in Terminal => pc[j] \in {"failing", "ended"}

\* A step keeps both the invariant and every final status: each action that
\* writes a status is taken at a point before the end of its own thread.
LEMMA EndedStays ==
    ASSUME TypeOK, EndedIsPastWriting, [Next]_vars
    PROVE  /\ EndedIsPastWriting'
           /\ \A j \in Jobs :
                jobs[j].status \in Terminal => jobs'[j].status = jobs[j].status
<1> DEFINE Kept == \A j \in Jobs :
             jobs[j].status \in Terminal => jobs'[j].status = jobs[j].status
<1> USE DEF TypeOK, JobState, EndedIsPastWriting, Terminal, Goto
<1>1. ASSUME NEW k \in Jobs, HandlerStep(k) PROVE EndedIsPastWriting' /\ Kept
  <2>1. CASE Create(k)
    BY <2>1 DEF Create
  <2>2. CASE Claim(k)
    BY <2>2 DEF Claim
  <2>3. CASE Spawn(k) \/ SpawnFails(k)
    BY <2>3 DEF Spawn, SpawnFails, MaySpawn
  <2> QED BY <1>1, <2>1, <2>2, <2>3 DEF HandlerStep
<1>2. ASSUME NEW k \in Jobs, WorkerStep(k) PROVE EndedIsPastWriting' /\ Kept
  <2>1. CASE Start(k)
    BY <2>1 DEF Start
  <2>2. CASE BodyReturns(k) \/ BodyRaises(k)
    BY <2>2 DEF BodyReturns, BodyRaises
  <2>3. CASE Publish(k)
    BY <2>3 DEF Publish
  <2>4. CASE Release(k)
    BY <2>4 DEF Release
  <2>5. CASE Complete(k)
    BY <2>5 DEF Complete
  <2>6. CASE FailStatus(k)
    BY <2>6 DEF FailStatus
  <2>7. CASE FailText(k)
    BY <2>7 DEF FailText
  <2> QED BY <1>2, <2>1, <2>2, <2>3, <2>4, <2>5, <2>6, <2>7 DEF WorkerStep
<1>3. CASE RunningDetectJobId \/ (\E r \in Readers : ReaderStep(r))
  BY <1>3 DEF RunningDetectJobId, ReaderStep, GetJob, ReadField, ReadError
<1>4. CASE UNCHANGED vars
  BY <1>4 DEF vars
<1> QED BY <1>1, <1>2, <1>3, <1>4 DEF Next

\* A job that has ended never changes its status again, so a client may stop
\* polling at the first "done" or "error".
THEOREM EndIsFinal == Spec => EndedJobStaysEnded
<1>1. Init => TypeOK /\ EndedIsPastWriting
  BY DEF Init, TypeOK, Jobs, JobState, ReaderState, Statuses, Points, Holding,
         EndedIsPastWriting, Terminal
<1>2. TypeOK /\ EndedIsPastWriting /\ [Next]_vars => EndedIsPastWriting'
  BY EndedStays
<1>3. TypeOK /\ EndedIsPastWriting /\ [Next]_vars
        => [\A j \in Jobs :
              jobs[j].status \in Terminal => jobs'[j].status = jobs[j].status]_vars
  BY EndedStays
<1> QED BY <1>1, <1>2, <1>3, TypeCorrect, PTL DEF Spec, EndedJobStaysEnded

-----------------------------------------------------------------------------
(* Refinement. *)

\* The registry implements DetectionLock: claim is Acquire or Refuse, release
\* is Leave, and every other step is a stutter.
THEOREM ImplementsDetectionLock == Spec => SlotSpec
<1> DEFINE phase == [j \in DetectJobs |-> Phase(j)]
<1>1. Init => Slot!Init
  BY DEF Init, Slot!Init, Phase, Jobs, Holding
<1>2. SlotInv /\ [Next]_vars => [Slot!Next]_phase
  <2> SUFFICES ASSUME SlotInv, [Next]_vars PROVE [Slot!Next]_phase
    OBVIOUS
  <2> USE DEF Jobs, TypeOK, Points
  <2>0. phase' = [j \in DetectJobs |-> Phase(j)']
    OBVIOUS
  <2>1. ASSUME NEW j \in DetectJobs, Claim(j) PROVE Slot!Next
    <3>1. CASE Busy(j)
      <4>1. active \in DetectJobs \ {j} /\ Phase(active) = "holding"
        BY <3>1 DEF Busy, SlotInv, ActiveIsHolding, Phase, Holding
      <4>2. Phase(j) = "idle" /\ phase' = [phase EXCEPT ![j] = "refused"]
        BY <2>1, <3>1 DEF Claim, Goto, SlotInv, Phase, Holding
      <4>3. Slot!Refuse(j)
        BY <4>1, <4>2 DEF Slot!Refuse
      <4> QED BY <4>3 DEF Slot!Next
    <3>2. CASE ~Busy(j)
      <4>1. pc[j] = "created" /\ pc' = [pc EXCEPT ![j] = "claimed"]
        BY <2>1, <3>2 DEF Claim, Goto
      <4>2. \A k \in DetectJobs : Phase(k) # "holding"
        BY <2>1, <3>2 DEF Claim, Busy, SlotInv, HolderIsActive, Phase, Holding
      <4>3. Phase(j) = "idle" /\ phase' = [phase EXCEPT ![j] = "holding"]
        BY <4>1 DEF SlotInv, Phase, Holding
      <4>4. Slot!Acquire(j)
        BY <4>2, <4>3 DEF Slot!Acquire
      <4> QED BY <4>4 DEF Slot!Next
    <3> QED BY <3>1, <3>2
  <2>2. ASSUME NEW j \in DetectJobs, Release(j) PROVE Slot!Next
    <3>1. Phase(j) = "holding" /\ phase' = [phase EXCEPT ![j] = "left"]
      BY <2>2 DEF Release, Goto, SlotInv, Phase, Holding
    <3>2. Slot!Leave(j)
      BY <3>1 DEF Slot!Leave
    <3> QED BY <3>2 DEF Slot!Next
  <2>3. ASSUME NEW j \in Jobs, HandlerStep(j) \/ WorkerStep(j), ~Claim(j), ~Release(j)
        PROVE  UNCHANGED phase
    <3>1. CASE Create(j) \/ Spawn(j) \/ SpawnFails(j)
      BY <3>1 DEF Create, Spawn, SpawnFails, MaySpawn, Goto, SlotInv, Phase, Holding
    <3>2. CASE Start(j) \/ BodyReturns(j) \/ Publish(j)
      BY <3>2 DEF Start, BodyReturns, Publish, Goto, SlotInv, Phase, Holding
    <3>3. CASE BodyRaises(j)
      BY <3>3 DEF BodyRaises, Goto, SlotInv, Phase, Holding
    <3>4. CASE Complete(j) \/ FailStatus(j) \/ FailText(j)
      BY <3>4 DEF Complete, FailStatus, FailText, Goto, SlotInv, Phase, Holding
    <3> QED BY <2>3, <3>1, <3>2, <3>3, <3>4 DEF HandlerStep, WorkerStep
  <2>4. ASSUME NEW j \in ExportJobs, Claim(j) \/ Release(j), HandlerStep(j) \/ WorkerStep(j)
        PROVE  UNCHANGED phase
    BY <2>4 DEF Claim, Release, Goto, SlotInv, Phase, Holding
  <2>5. CASE RunningDetectJobId \/ \E r \in Readers : ReaderStep(r)
    <3>1. pc' = pc
      BY <2>5 DEF RunningDetectJobId, ReaderStep, GetJob, ReadField, ReadError
    <3>2. \A j \in DetectJobs : Phase(j)' = Phase(j)
      BY <3>1 DEF Phase
    <3> QED BY <3>2
  <2>6. CASE UNCHANGED vars
    <3>1. \A j \in DetectJobs : Phase(j)' = Phase(j)
      BY <2>6 DEF vars, Phase
    <3> QED BY <3>1
  <2> QED BY <2>1, <2>2, <2>3, <2>4, <2>5, <2>6 DEF Next
<1> QED BY <1>1, <1>2, SlotInvHolds, PTL DEF Spec, SlotSpec, Slot!Spec

=============================================================================
