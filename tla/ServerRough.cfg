SPECIFICATION Spec
CONSTANTS
    c1 = c1
    c2 = c2
    c3 = c3
    Conns = {c1, c2}
    MaxReqs <- TwoAndNone
    NumFds = 2
    PoolSize = 2
    Kind <- CmdOrBad
    Env = {"pipeline", "hurry", "split", "error"}
INVARIANTS ClientMapAgrees SentOnce
CHECK_DEADLOCK FALSE
