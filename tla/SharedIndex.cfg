SPECIFICATION FairSpec
CONSTANTS
    p1 = p1
    p2 = p2
    p3 = p3
    a = a
    b = b
    c = c
    d = d
    x = x
    Procs = {p1, p2}
    Scanners = {p1}
    Entries = {a, b, c, d, x}
    Old = {d, x}
    Put <- MCPut
    Drop <- MCDrop
    Keep = 1
    MaxCrashes = 1
    MaxStalls = 1
INVARIANTS
    TypeOK
    OneHolderUnlessRobbed
    SavedIsServed
    KeptForScans
    NoLockLeft
PROPERTIES
    EverySaveEnds
