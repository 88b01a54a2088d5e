SPECIFICATION FairSpec
CHECK_DEADLOCK FALSE
CONSTANTS
    a = a
    b = b
    t = t
    u = u
    None = None
    Flag = Flag
    Fonts = {a}
    Tags = {t}
    Kinds = {"local", "favorite"}
    ForegroundRetries = 1
    MaxEdits = 2
    MaxCloses = 2
INVARIANTS
    TypeOK
    LastEditKept
PROPERTIES
    SavedAnswerIsTrue
    EventuallySaved
    CloseRequestEnds
