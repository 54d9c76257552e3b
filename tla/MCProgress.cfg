CONSTANTS
    Nil = Nil
    Handlers = {h1, h2}
    Nets = {net1}
    Names = {node1}
    Execs = {bin1}
    MaxPort = 1
    NwStopMayFail = FALSE
    Ops = {"start", "health", "status", "remove", "stop"}
    Polite = FALSE
SPECIFICATION FairSpec
CHECK_DEADLOCK FALSE
PROPERTIES
    RPCsReturn
    ReadyIsPublished
