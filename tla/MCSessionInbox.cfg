CONSTANTS
    p1 = p1
    p2 = p2
    Procs = {p1}
    Creator = p1
    MaxInputs = 3
    MaxAnswers = 1
    MaxFaults = 1
SPECIFICATION Spec
PROPERTY InboxFailureEnds
