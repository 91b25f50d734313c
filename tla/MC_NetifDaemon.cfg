CONSTANTS
    Objects <- MC_Objects
    AddrSets <- MC_AddrSets
    IfNames <- MC_IfNames
    InitLinks <- MC_InitLinks
    NoDev = NoDev

SPECIFICATION Spec

CONSTRAINT
    LiveBound

INVARIANTS
    TypeOK
    CfgDevicesPut

PROPERTIES
    RequestFreedUnlessDictRejected
    NewDeviceYieldsRequestedMacvlan
