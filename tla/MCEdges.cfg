SPECIFICATION EdgesSpec
CONSTANTS
    Attempts <- MCAttempts
    Home <- MCHome
    Processes <- MCProcesses
    AppProcess = "app"
    MaxGrants = 2
    MaxLogins = 2
    MaxClients = 2
    Askers = {"p"}
    QueueLimit = 1
    Loads <- MCLoads
CHECK_DEADLOCK FALSE
PROPERTIES
    ConnectionsEnd
    RefreshOnce
    SaveReplacesOwn
    LoginsEnd
