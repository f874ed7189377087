SPECIFICATION FairSpec
CONSTANTS
    w1 = w1
    w2 = w2
    a1 = a1
    a2 = a2
    s1 = s1
    Workers = {w1, w2}
    AsyncTasks = {a1, a2}
    SyncTasks = {s1}
    Callers = 2
    MaxLengths = {0, 1}
    Timeouts = {TRUE}
    Polls = 1
    Env = {"exit"}
INVARIANTS SyncSuccessRan
PROPERTIES CleanExit AcceptedRuns SyncAnswered
CHECK_DEADLOCK FALSE
