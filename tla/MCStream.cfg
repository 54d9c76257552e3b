SPECIFICATION Spec
CONSTANTS
    WireCap = 1
    Kinds = {"cli", "test"}
    Intervals = {"positive", "bad"}
    Events = {"stop", "remove"}
INVARIANT
    NoSendAfterReturn
    NilOnlyAfterStop
CHECK_DEADLOCK FALSE
