SPECIFICATION FairSpec
CONSTANTS
    MaxLines = 4
    Env = {"fail", "slow", "eof", "mixed", "others"}
INVARIANTS RepliesHaveModules LastWords
PROPERTIES RepliesPrinted ClientEnds
CHECK_DEADLOCK FALSE
