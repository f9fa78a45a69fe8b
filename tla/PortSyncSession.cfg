SPECIFICATION Spec
CONSTANTS
    Kinds = {"stream", "devgrp"}
    NoSession = NoSession
    Session <- SavedSession
    FirstItems <- OneEach
    MaxEdits = 2
    MaxLosses = 1
    MinWait = 1
    MaxWait = 1
INVARIANTS
    CleanMeansSynced
    CallbackHasPort
CHECK_DEADLOCK FALSE
