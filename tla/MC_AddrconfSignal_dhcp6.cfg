CONSTANTS
    NIfaces = 2
    FamilySeq <- MC_FamilySeq
    ModeSeq <- MC_ModeSeq
    Targets <- MC_Targets
    DefaultRoute = "default-route"
    HandlerKind <- MC_HandlerKind
    ConfigMask <- MC_ConfigMask
    RequestMask <- MC_RequestMask
    NoRequest = NoRequest
    LeaseInfo <- MC_LeaseInfo
    HandlersMayFail = FALSE
    MaxTime = 1
    NullSlotChecked = FALSE
    MaxIndex = 2
    Running = {"dhcp4", "dhcp6"}
    PeerSignals = {}
    ArgsMayFail = FALSE
    MaxQueue = 2
    MaxSent = 4

SPECIFICATION Spec

INVARIANT
    LeaseInSync
