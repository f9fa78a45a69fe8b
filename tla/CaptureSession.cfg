SPECIFICATION Spec
CONSTANTS
    a = a
    b = b
    Clients = {a, b}
    Ops <- OneFetches
    MaxCaptures = 2
    MaxLen = 3
INVARIANTS StopUsesLiveSession BlobWhole
PROPERTIES StopReturns
CHECK_DEADLOCK FALSE
