SPECIFICATION FairSpec
CONSTANTS
    c1 = c1
    c2 = c2
    c3 = c3
    Conns = {c1, c2, c3}
    MaxReqs <- TwoAndNone
    NumFds = 2
    PoolSize = 2
    Kind <- CmdOther
    Env = {"split", "full", "popen", "listen", "exit"}
INVARIANTS RepliesToSender FramesWhole
PROPERTIES RequestAnswered GoneForgotten ExitJoins
CHECK_DEADLOCK FALSE
