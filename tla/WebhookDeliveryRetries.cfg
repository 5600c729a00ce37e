SPECIFICATION FairSpec
CONSTANTS
    Deliveries = {d1}
    Workers = {w1, w2}
    NoWorker = NoWorker
    MaxAttempts = 2
    DisableAfter = 3
    MaxReplays = 2
    MaxMishaps = 1
INVARIANTS TypeOK PendingHasJobUndisturbed DeliveredWasAccepted OneDispatcher
PROPERTIES TerminalIsFinal DeliverySettles
CHECK_DEADLOCK FALSE
