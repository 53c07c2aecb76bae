SPECIFICATION FairSpec
CONSTANTS
    NumWorkers = 1
    HighWatermark = 1
    Actors <- ThreeActors
    Producers = {p1}
    QueueCapacity = 2
    MailboxCapacity = 2
    MaxBatch = 1
    ParkSpin = TRUE
    LateProducers = FALSE
    StalledPop = FALSE
    DrainWindow = FALSE
    MaxSends = 4
    MaxPermits = 2
    None = None
PROPERTY StopTerminates
CHECK_DEADLOCK FALSE
