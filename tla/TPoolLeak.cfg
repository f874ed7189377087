SPECIFICATION Spec
CONSTANTS
    w1 = w1
    a1 = a1
    s1 = s1
    Workers = {w1}
    AsyncTasks = {a1}
    SyncTasks = {s1}
    Callers = 1
    MaxLengths = {1}
    Timeouts = {TRUE}
    Polls = 1
    Env = {"timeout", "exit"}
PROPERTIES CleanExit
CHECK_DEADLOCK FALSE
