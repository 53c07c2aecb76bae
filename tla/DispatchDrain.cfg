SPECIFICATION FairSpec
CONSTANTS
    NumWorkers = 2
    HighWatermark = 1
    Actors <- TwoActors
    Producers = {p1}
    QueueCapacity = 2
    MailboxCapacity = 2
    MaxBatch = 2
    ParkSpin = FALSE
    LateProducers = FALSE
    StalledPop = FALSE
    DrainWindow = FALSE
    MaxSends = 2
    MaxPermits = 1
    None = None
INVARIANTS PendingWorkAccounting DrainComplete
PROPERTIES SingleOwner MessageServed StopTerminates
CHECK_DEADLOCK FALSE
