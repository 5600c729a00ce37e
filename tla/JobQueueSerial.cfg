SPECIFICATION Spec
CONSTANTS
    j1 = j1
    j2 = j2
    Jobs <- TwoJobs
    Rank <- J1First
    NoJob = NoJob
    NoWorker = NoWorker
    Workers = {w1, w2}
    Users = {u1}
    MaxAttempts = 2
    Overlap = FALSE
    MaxLapses = 2
    MaxCrashes = 1
    MaxRequeues = 1
INVARIANTS RetryBudget
PROPERTIES TerminalIsFinal
CHECK_DEADLOCK FALSE
