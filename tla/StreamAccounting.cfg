SPECIFICATION Spec
CONSTANTS
    Streams = {1, 2}
    SeqCapacity = 2
    MaxInt = 15
    MaxCounter = 15
    List <- TwoStreams
    Directional = FALSE
    MaxRuns = 2
    MaxPackets = 4
    MaxOthers = 1
    MaxClears = 1
INVARIANTS
    TxConserved
    RxAdjusted
CHECK_DEADLOCK FALSE
