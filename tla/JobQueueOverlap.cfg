SPECIFICATION Spec
CONSTANTS
    j1 = j1
    j2 = j2
    Jobs <- TwoJobs
    Rank <- J1First
    NoJob = NoJob
    NoWorker = NoWorker
    Workers = {w1, w2}
    Users = {u1}
    MaxAttempts = 2
    Overlap = TRUE
    MaxLapses = 1
    MaxCrashes = 1
    MaxRequeues = 1
VIEW WithoutHistory
SYMMETRY ActorSymmetry
INVARIANTS TypeOK LeasedRowIsReclaimable AttemptsMatchStatus
CHECK_DEADLOCK FALSE
