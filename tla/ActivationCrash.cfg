SPECIFICATION Spec
CONSTANTS
    c1 = c1
    c2 = c2
    f1 = f1
    f2 = f2
    n1 = n1
    n2 = n2
    n3 = n3
    None = None
    Fonts = {f1}
    RegNames = {n1}
    NamesOf <- NamesPlain
    Calls = {c1}
    Ops = {"activate", "activateBatch", "deactivate", "deactivateBatch"}
    MaxCopies = 2
    MaxAttempts = 2
    MaxSessions = 2
    Faults = {"registry", "add", "delete", "regDelete"}
INVARIANTS
    CleanupVerdict
PROPERTIES
    StartupKeepsRecords
