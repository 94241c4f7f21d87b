SPECIFICATION Spec
CONSTANTS
    Attempts = {"a", "b"}
    Home <- MCOneHome
    Processes <- MCProcesses
    AppProcess = "app"
    MaxGrants = 2
    MaxLogins = 1
CHECK_DEADLOCK FALSE
PROPERTY SpentStays
