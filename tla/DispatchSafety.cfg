SPECIFICATION Spec
CONSTANTS
    NumWorkers = 2
    HighWatermark = 1
    Actors <- SameHome
    Producers = {p1}
    QueueCapacity = 2
    MailboxCapacity = 2
    MaxBatch = 1
    ParkSpin = TRUE
    LateProducers = TRUE
    StalledPop = TRUE
    DrainWindow = TRUE
    MaxSends = 2
    MaxPermits = 2
    None = None
INVARIANTS TypeOK TokenUnique TokenNotLost NoLostWakeup OverflowRelieved
CHECK_DEADLOCK FALSE
