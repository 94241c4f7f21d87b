SPECIFICATION Spec
CONSTANTS
    Ids = {a}
    Workloads <- MCLate
CHECK_DEADLOCK FALSE
INVARIANT ShownRuns
