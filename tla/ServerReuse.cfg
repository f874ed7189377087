SPECIFICATION Spec
CONSTANTS
    c1 = c1
    c2 = c2
    c3 = c3
    Conns = {c1, c2}
    MaxReqs <- OneEach
    NumFds = 2
    PoolSize = 2
    Kind <- AllCmds
    Env = {"hurry"}
INVARIANTS RepliesToSender
CHECK_DEADLOCK FALSE
