SPECIFICATION Spec
CONSTANTS
    w1 = w1
    w2 = w2
    a1 = a1
    a2 = a2
    a3 = a3
    s1 = s1
    Workers = {w1, w2}
    AsyncTasks = {a1, a2, a3}
    SyncTasks = {s1}
    Callers = 2
    MaxLengths = {1}
    Timeouts = {TRUE, FALSE}
    Polls = 1
    Env = {"timeout", "spurious", "clock"}
SYMMETRY Symmetry
INVARIANTS AtMostOnce NothingLost NoSleepOverQueue NoDoubleFree QueueOvershoot CountersAgree
PROPERTY Refines
CHECK_DEADLOCK FALSE
