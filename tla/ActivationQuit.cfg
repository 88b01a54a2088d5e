SPECIFICATION Spec
CONSTANTS
    f1 = f1
    f2 = f2
    n1 = n1
    n2 = n2
    n3 = n3
    None = None
    c1 = c1
    c2 = c2
    Fonts = {f1, f2}
    RegNames = {n1, n2, n3}
    NamesOf <- NamesDistinct
    Calls = {c1, c2}
    Ops = {"activate", "deactivate"}
    MaxCopies = 2
    MaxAttempts = 2
    MaxSessions = 1
    Faults = {}
INVARIANTS
    QuitCanCleanEverything
