SPECIFICATION FairSpec
CONSTANTS
    f1 = f1
    f2 = f2
    n1 = n1
    n2 = n2
    n3 = n3
    None = None
    c1 = c1
    c2 = c2
    Fonts = {f1, f2}
    RegNames = {n1, n2, n3}
    NamesOf <- NamesDistinct
    Calls = {c1}
    Ops = {"activate", "activateBatch", "deactivate", "deactivateBatch"}
    MaxCopies = 2
    MaxAttempts = 2
    MaxSessions = 1
    Faults = {"source", "copy", "registry"}
INVARIANTS
    TypeOK
    OneRecordPerFont
    ActiveFontIsReal
PROPERTIES
    QuitDecides
