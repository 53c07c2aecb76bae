SPECIFICATION Spec
CONSTANTS
    Clients = {c1, c2}
    Fds = {1, 2}
    Arguments = {"wifi"}
    MaxArgs = 1
    MaxMail = 3
PROPERTY EveryCommandAnswered
CHECK_DEADLOCK FALSE
