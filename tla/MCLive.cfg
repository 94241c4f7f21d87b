SPECIFICATION LiveSpec
CONSTANTS
    Callers = {a, b}
    Workloads <- MCLiveWorkloads
    Ids = {i, j}
CHECK_DEADLOCK FALSE
INVARIANT
    CloseLeavesNoServer
PROPERTIES
    TakesAll
    StopEnds
    SessionsClose
    IdleReturns
    ServersEnd
