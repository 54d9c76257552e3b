CONSTANTS
    Nil = Nil
    Handlers = {h1, h2}
    Nets = {net1}
    Names = {node1}
    Execs = {bin1}
    MaxPort = 2
    NwStopMayFail = FALSE
    Ops = {"start", "health", "status", "uris", "remove", "restart", "stop"}
    Polite = FALSE
    HealthyWait = 1
    Patience = {1, 2, 3}
SPECIFICATION SessionSpec
CHECK_DEADLOCK FALSE
INVARIANTS
    PatientNeverPanics
    AnswerHolds
    SomebodyWorks
PROPERTY
    PatienceSuffices
