SPECIFICATION PartsSpec
CONSTANTS
    Callers = {a, b}
    Workloads <- MCWorkloads
    Observer = observer
    Views = {v}
    Questions = {q}
    Ids = {i, j}
SYMMETRY Alike
CHECK_DEADLOCK FALSE
INVARIANTS
    SlotTrue
    NoLostWake
    ListenersTrue
    JobsTold
    RequestsTrue
    NothingLost
    ScopesTrue
    PlanTrue
    FactsTrue
    PluginsTrue
PROPERTIES
    IdleTells
