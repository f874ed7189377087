SPECIFICATION Spec
CONSTANTS
    w1 = w1
    w2 = w2
    w3 = w3
    Writers = {w1, w2, w3}
    LogMaxSize = 2
    LogMaxNum = 1
    MaxLines = 5
    Lives = 2
    Env = {"late", "burst", "tar", "fopen"}
INVARIANTS LinesKept FileBounded ArchivesBounded
SYMMETRY Symmetry
CHECK_DEADLOCK FALSE
