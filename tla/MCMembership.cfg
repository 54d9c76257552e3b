CONSTANTS
    Nil = Nil
    Handlers = {h1, h2}
    Nets = {net1}
    Names = {node1, node2}
    Execs = {bin1}
    MaxPort = 2
    NwStopMayFail = FALSE
    Ops = {"start", "health", "remove", "restart"}
    Polite = FALSE
SPECIFICATION Spec
SYMMETRY Symmetry
CONSTRAINT StillServing
CHECK_DEADLOCK FALSE
INVARIANTS
    ListingAgrees
    NoUnlistedProcess
    NilNetworkNeedsStop
PROPERTY
    ImplementsLifecycle
