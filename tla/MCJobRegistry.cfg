SPECIFICATION FairSpec
CONSTANTS
    d1 = d1
    d2 = d2
    e1 = e1
    r1 = r1
    NoJob = NoJob
    DetectJobs <- TwoDetectJobs
    ExportJobs <- OneExportJob
    Readers <- OneReader
    SpawnMayFail = TRUE
INVARIANTS
    TypeOK
    OneDetectionAtATime
    DoneAnswerHasResult
PROPERTIES
    EndedJobStaysEnded
    SlotSpec
    StartedJobEnds
    ClaimIsReleased
