CONSTANTS
    Nil = Nil
    Handlers = {h1}
    Nets = {net1, net2}
    Names = {node1}
    Execs = {bin1, bin2}
    MaxPort = 3
    NwStopMayFail = TRUE
    Ops = {"start", "health", "status", "uris", "remove", "restart", "stop"}
    Polite = TRUE
SPECIFICATION Spec
SYMMETRY Symmetry
CONSTRAINT StillServing
CHECK_DEADLOCK FALSE
INVARIANTS
    NeverPanics
    HealthyIsReady
PROPERTY
    HealthReportsCurrentUris
    RestartTakesEffect
