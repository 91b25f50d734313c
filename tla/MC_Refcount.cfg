CONSTANTS
    o1 = o1
    o2 = o2
    s1 = s1
    s2 = s2
    s3 = s3
    NULL = NULL
    NoTie = NoTie
    Objects <- MC_Objects
    Slots <- MC_Slots
    MaxRef <- MC_MaxRef

SPECIFICATION Spec

INVARIANTS
    TypeOK
    RefcountMatchesHolders
    NoDanglingTie
    NoUseAfterFree
PROPERTY
    ImplementsOwnership
SYMMETRY MC_Symmetry
