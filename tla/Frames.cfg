SPECIFICATION FrameSpec
CONSTANTS
    FrameStreams <- SomeStreams
    MaxPktSize = 92
    Rounds = 2
INVARIANTS
    HeadersRead
    ChecksumsVerify
    SignatureFound
    FramesRepeat
CHECK_DEADLOCK FALSE
