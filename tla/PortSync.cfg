SPECIFICATION Spec
CONSTANTS
    Kinds = {"stream"}
    NoSession = NoSession
    Session = NoSession
    FirstItems <- OneEach
    MaxEdits = 2
    MaxLosses = 1
    MinWait = 1
    MaxWait = 2
INVARIANTS
    StatsPendingIffCalled
    PortConfigConverges
    RetryPending
PROPERTIES
    WindowReturns
CHECK_DEADLOCK FALSE
