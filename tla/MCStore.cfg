CONSTANTS
    p1 = p1
    p2 = p2
    q1 = q1
    q2 = q2
    q3 = q3
    s1 = s1
    s2 = s2
    b1 = b1
    Procs = {p1, p2}
    Creator = p1
    MaxInputs = 3
    MaxAnswers = 1
    MaxFaults = 2
SPECIFICATION StoreSpec
SYMMETRY Symmetry
INVARIANTS
    MemoryIsStore
    WritesContinue
    RecordsMatchBlocks
    OneOwner
    BlobsKept
    LoadIsReplay
PROPERTIES
    InterruptionTold
    ImplementsQueue
    LiveSessionsKept
    ForksAtEnd
