SPECIFICATION Spec
CONSTANTS
    c1 = c1
    c2 = c2
    s1 = s1
    s2 = s2
    Conns = {c1}
    StreamIds = {s1}
    Ops <- NeighborTransmitOps
    Budgets <- NeighborTransmit
INVARIANT RebuildOnlyWhenStopped
