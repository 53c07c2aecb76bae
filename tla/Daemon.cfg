SPECIFICATION DaemonSpec
CONSTANTS
    system_manager = system_manager
    tick = tick
    dbus_actor = dbus_actor
    Created <- ThreeActors
    SystemManager = system_manager
    Dbus = dbus_actor
    Workers = {w1, w2}
    MaxSignals = 2
    MaxSends = 2
    DeviceStates = {"disconnected", "activating", "activated"}
    MaxNmMail = 1
    Calls = {c1, c2}
    Subscribers = {a1, a2}
    NoCall = NoCall
    NoOne = NoOne
    MaxRequests = 1
    MaxOpens = 2
INVARIANTS NoDanglingActor ClosedAtEnd RefreshNotLost OwnReply
PROPERTIES SignalStopsApp StatusCatchesUp CallEnds
CHECK_DEADLOCK FALSE
