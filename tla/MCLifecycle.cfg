CONSTANTS
    Nil = Nil
    Handlers = {h1, h2}
    Nets = {net1, net2}
    Names = {node1}
    Execs = {bin1, bin2}
    MaxPort = 2
    NwStopMayFail = FALSE
    Ops = {"start", "restart", "stop"}
    Polite = FALSE
SPECIFICATION Spec
SYMMETRY Symmetry
VIEW LiveView
CONSTRAINT StillServing
CHECK_DEADLOCK FALSE
INVARIANTS
    TypeOK
    OneCluster
PROPERTY
    ImplementsLifecycle
    RestartTakesEffect
