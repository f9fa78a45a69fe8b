SPECIFICATION Spec
CONSTANTS
    PacketLists <- MCPacketLists
    SeqCapacity = 2
    MaxInt = 15
    MaxCounter = 63
INVARIANTS
    ReadsInsideList
    NotRunningMeansGone
PROPERTIES
    ListStableInRun
    LateStopEndsAtFirstPacket
    ImplementsTransmitter
    CallsReturn
\* a start() that is lost before finish() leaves everybody waiting
CHECK_DEADLOCK FALSE
