SPECIFICATION FairSpec
CONSTANTS
    WireCap = 1
    Kinds = {"cli", "test"}
    Intervals = {"positive"}
    Events = {}
PROPERTY
    StreamEnds
    ReceiverFinishes
    CommandEnds
    HealthyIsSeen
CHECK_DEADLOCK FALSE
