CONSTANTS
    NIfaces = 2
    FamilySeq <- MC_FamilySeq
    ModeSeq <- MC_ModeSeq
    Targets <- MC_Targets
    DefaultRoute = "default-route"
    HandlerKind <- MC_HandlerKind
    ConfigMask <- MC_ConfigMask
    RequestMask <- MC_RequestMask
    NoRequest = NoRequest
    LeaseInfo <- MC_LeaseInfo
    HandlersMayFail = FALSE
    MaxTime = 1
    NullSlotChecked = TRUE

SPECIFICATION Spec

INVARIANT
    ServiceFromPermittedLease

CHECK_DEADLOCK FALSE
