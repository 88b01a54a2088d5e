SPECIFICATION Spec
CHECK_DEADLOCK FALSE
CONSTANTS
    a = a
    b = b
    t = t
    u = u
    None = None
    Flag = Flag
    Fonts = {a}
    Tags = {t, u}
    Kinds = {"shared"}
    ForegroundRetries = 1
    MaxEdits = 2
    MaxCloses = 1
INVARIANTS
    SharedTagsKept
