SPECIFICATION Spec
CONSTANTS
    Kinds = {"stream"}
    NoSession = NoSession
    Session = NoSession
    FirstItems <- OneEach
    MaxEdits = 2
    MaxLosses = 0
    MinWait = 1
    MaxWait = 1
INVARIANT
    ActivatedMeansApplied
CHECK_DEADLOCK FALSE
