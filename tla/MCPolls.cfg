SPECIFICATION Spec
CONSTANTS
    WireCap = 1
    Kinds = {"cli"}
    Intervals = {"positive"}
    Events = {}
PROPERTY
    PollsUntilHealthy
CHECK_DEADLOCK FALSE
