SPECIFICATION Spec
CONSTANTS
    tracker = tracker
    other = other
    first = first
    second = second
    single = single
    Devices = {tracker, other}
    Batches = {first, second, single}
    DeviceOf <- Owner
    Rank <- SendOrder
    Passes = {p1, p2}
    AppendsInWindow = TRUE
    MaxCrashes = 0
    MaxDiskErrors = 0
    MaxOutages = 0
INVARIANTS NoAckedBatchLost
CHECK_DEADLOCK FALSE
