SPECIFICATION FairSpec
CONSTANTS
    j1 = j1
    j2 = j2
    Jobs <- TwoJobs
    Rank <- J1First
    NoJob = NoJob
    NoWorker = NoWorker
    Workers = {w1, w2}
    Users = {u1}
    MaxAttempts = 2
    Overlap = TRUE
    MaxLapses = 0
    MaxCrashes = 0
    MaxRequeues = 1
INVARIANT ExclusiveExecution
PROPERTY EveryJobSettles
CHECK_DEADLOCK FALSE
