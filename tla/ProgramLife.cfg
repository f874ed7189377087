SPECIFICATION FairSpec
CONSTANTS
    start = start
    stop = stop
    other = other
    Procs = {start, stop, other}
    Given <- GivenTo
    MaxClients = 2
    MaxFd = 4
    MaxOthers = 1
    Env = {"fail", "health", "reset"}
INVARIANTS OneServer PidFileRight ModulesOutliveServerThread FaultsOnlyEarly
PROPERTIES StopStops CommandAnswered ProcessSettles
CHECK_DEADLOCK FALSE
