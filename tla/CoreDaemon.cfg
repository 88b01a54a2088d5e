SPECIFICATION FairSpec
CONSTANTS
    w1 = w1
    w2 = w2
    r1 = r1
    r2 = r2
    write = write
    foreground = foreground
    NoJob = NoJob
    Jobs = {w1, w2, r1, r2}
    Lanes = {write, foreground}
    WriteLane = write
    LaneOf <- Lane
    MetadataReads = {r1, r2}
    MaxQueued <- Limits
    Panics = {r1}
    Cancels = {w1, r1}
INVARIANTS
    TypeOK
    ReadsSeeEarlierWrites
    LaneOrder
    DrainedAtExit
PROPERTIES
    EveryJobAnswered
    KeepsPromise
