SPECIFICATION FairSpec
CONSTANTS
    Jobs = {j1}
    Workers = {w1, w2}
    NoWorker = NoWorker
    MaxAttempts = 2
    Length = 3
    PageCap = 2
    MaxFlaws = 2
    MaxMishaps = 1
INVARIANTS TypeOK CompletedIsRecorded RecordedOnce BlockedByThrowsOnly
PROPERTIES TriggeredIsSettled
