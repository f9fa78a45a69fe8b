SPECIFICATION FairSpec
CONSTANTS
    a = a
    b = b
    Channels = {a, b}
    Kinds = {"plain", "blob", "incomplete"}
    MaxCalls <- CallLimit
    MaxConns <- ConnLimit
    MaxNotifs <- NotifLimit
CONSTRAINT Untorn
INVARIANTS StreamAligned AnswersMatchCalls
PROPERTIES EveryCallSettled
CHECK_DEADLOCK FALSE
