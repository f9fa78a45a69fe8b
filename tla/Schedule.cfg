SPECIFICATION ModeSpec
CONSTANTS
    StreamLists <- AllLists
    PacedLists <- InterleavedLists
    MinPacketSetSize = 2
    SeqCapacity = 2
    MaxInt = 15
    MaxCounter = 63
    Second = 1000000
INVARIANTS
    EveryFrameSentOnce
    SetsTileList
    NeverSlowerThanRated
    StreamStatsExact
    PacketsOnTime
    NoneForgotten
