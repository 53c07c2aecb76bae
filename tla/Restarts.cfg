SPECIFICATION Spec
CONSTANTS
    Actors = {a1, a2}
    Essential = {a1}
    MailboxCapacity = 2
    MaxBatch = 3
    DeadLetterCapacity = 2
    Scenarios <- FourScenarios
    Strategies <- EveryStrategy
    Limits = {0, 1}
    MaxCount = 4
    NoMsg = NoMsg
INVARIANTS FailureBudget RestartedOrStopped StoppedStaysDown ClosedAfterStop
CHECK_DEADLOCK FALSE
