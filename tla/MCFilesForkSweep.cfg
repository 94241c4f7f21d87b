CONSTANTS
    p1 = p1
    p2 = p2
    p3 = p3
    s1 = s1
    s2 = s2
    b1 = b1
    Procs = {p1, p2, p3}
    Sessions = {s1, s2}
    Blobs = {b1}
    Existing = {s1}
    Workloads <- MCForkSweep
SPECIFICATION Spec
SYMMETRY Symmetry
PROPERTIES
    LiveFoldersKept
