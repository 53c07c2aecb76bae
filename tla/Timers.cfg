SPECIFICATION FairSpec
CONSTANTS
    Actors = {a}
    Kinds = {"timerfd", "thread"}
    Delays = {1, 2}
    ExactHits = FALSE
    MaxTimers = 2
    MaxTime = 3
    MaxPermits = 1
INVARIANTS NodesDisjoint ArmedForNext OnSchedule
PROPERTIES NoFireAfterCancel TimerFires
CHECK_DEADLOCK FALSE
