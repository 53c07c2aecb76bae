SPECIFICATION Spec
CONSTANTS
    Clients = {c1, c2}
    Fds = {1, 2}
    Arguments = {"pmu", "status"}
    MaxArgs = 2
    MaxMail = 2
INVARIANTS StrangersGaveUp HelpIsTrue
PROPERTY Answered
CHECK_DEADLOCK FALSE
