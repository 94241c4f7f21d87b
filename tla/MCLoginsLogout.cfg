SPECIFICATION Spec
CONSTANTS
    Attempts = {"a", "b"}
    Home <- MCTwoHomes
    Processes <- MCProcesses
    AppProcess = "app"
    MaxGrants = 2
    MaxLogins = 2
CHECK_DEADLOCK FALSE
PROPERTY LogoutRemoves
