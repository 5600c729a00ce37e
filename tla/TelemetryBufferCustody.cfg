SPECIFICATION FairSpec
CONSTANTS
    tracker = tracker
    other = other
    first = first
    second = second
    single = single
    Devices = {tracker, other}
    Batches = {first, second}
    DeviceOf <- Owner
    Rank <- SendOrder
    Passes = {p1, p2}
    AppendsInWindow = FALSE
    MaxCrashes = 1
    MaxDiskErrors = 1
    MaxOutages = 1
INVARIANTS TypeOK InEnqueueOrder DeliveredOnce NoAckedBatchLost
PROPERTIES AckedIsAnswered
CHECK_DEADLOCK FALSE
