SPECIFICATION FairSpec
CONSTANTS
    Commands <- MCCommands
    Profile <- MCProfile
    Keys <- PageKeys
    CommandOf <- PageCommandOf
    Queries <- MCQueries
    GlobalMax = 2
    Reserve = 1
    MaxCalls = 3
    MaxClears = 1
INVARIANTS
    TypeOK
    FreshAfterInvalidation
    SingleFlight
    SlotsRespected
    NoLostWakeup
    InteractiveNotHeld
PROPERTIES
    EveryCallAnswered
