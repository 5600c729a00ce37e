SPECIFICATION FairSpec
CONSTANTS
    Files = {f1}
    Workers = {w1, w2}
    NoWorker = NoWorker
    MaxAttempts = 3
    MaxMishaps = 3
INVARIANTS CompletedIsResolved ServedIsHarmless
PROPERTIES VerdictStands EnqueuedIsScanned
