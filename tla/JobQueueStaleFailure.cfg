SPECIFICATION Spec
CONSTANTS
    j1 = j1
    j2 = j2
    Jobs <- TwoJobs
    Rank <- J1First
    NoJob = NoJob
    NoWorker = NoWorker
    Workers = {w1, w2}
    Users = {u1}
    MaxAttempts = 2
    Overlap = TRUE
    MaxLapses = 1
    MaxCrashes = 0
    MaxRequeues = 0
INVARIANT ExclusiveExecution
CHECK_DEADLOCK FALSE
