CONSTANTS
    Objects <- MC_Objects
    InitNetifs <- MC_InitNetifs
    AddrSets <- MC_AddrSets

SPECIFICATION Spec

CONSTRAINT
    LiveBound

INVARIANTS
    RequestsFreed
