SPECIFICATION FairSpec
CONSTANTS
    w1 = w1
    j1 = j1
    j2 = j2
    Worker = {w1}
    Requester = "requester"
    Job = {j1, j2}
    WorkerNames <- TwoForOne
    CancelOnError = {j2}
    Timed = {j1}
    MayStop = {w1}
    MayDeactivate = {w1}
    NoJob = "no job"
INVARIANTS TypeOK FinishedOnce OneAtATime
PROPERTIES GroupFinishes CancelAnswered
CHECK_DEADLOCK FALSE
