SPECIFICATION FairSpec
CONSTANTS
    c1 = c1
    c2 = c2
    c3 = c3
    m1 = m1
    Callers = {c1, c2, c3}
    Monitors = {m1}
    Keepalive = Keepalive
    Env = {"slow", "nobase", "self", "exit"}
INVARIANTS ListRight
PROPERTIES DeletedSilent ServesUntilExit ExitReturns
CHECK_DEADLOCK FALSE
