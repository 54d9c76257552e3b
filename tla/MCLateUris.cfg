CONSTANTS
    Nil = Nil
    Handlers = {h1, h2}
    Nets = {net1}
    Names = {node1}
    Execs = {bin1}
    MaxPort = 2
    NwStopMayFail = FALSE
    Ops = {"start", "health", "restart"}
    Polite = FALSE
SPECIFICATION Spec
CHECK_DEADLOCK FALSE
PROPERTY HealthReportsCurrentUris
