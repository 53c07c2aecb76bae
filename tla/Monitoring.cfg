SPECIFICATION Spec
CONSTANTS
    Clients = {c1, c2}
    Fds = {1, 2}
    Restartable = {"device_manager", "monitor", "monitor_bridge"}
    MaxMail = 2
INVARIANT DemandFollowsClients
PROPERTIES NoStaleDisconnect SnapshotsGoOn QuitEnds
CHECK_DEADLOCK FALSE
