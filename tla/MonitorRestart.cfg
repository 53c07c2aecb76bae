SPECIFICATION Spec
CONSTANTS
    Clients = {c1}
    Fds = {1}
    Restartable = {"monitor"}
    MaxMail = 2
PROPERTY SnapshotsAlways
CHECK_DEADLOCK FALSE
