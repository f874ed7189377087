SPECIFICATION FairSpec
CONSTANTS
    Senders = {s1, s2}
    MaxMsgs = 1
    HeadLen = 2
    TailLen = 1
    LenAt = 1
    MaxCont = 3
    IntMax = 4
    Foreign <- MCForeign
    Room = 6
    Env <- MCEnv
PROPERTIES Implements AllArrive
CHECK_DEADLOCK FALSE
