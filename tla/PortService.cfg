SPECIFICATION Spec
CONSTANTS
    c1 = c1
    c2 = c2
    s1 = s1
    s2 = s2
    Conns = {c1, c2}
    StreamIds = {s1, s2}
    Ops <- AllOps
    Budgets <- OneOrTwo
INVARIANTS
    LockDiscipline
    StreamIdsUnique
    CleanMeansBuilt
PROPERTIES
    ConfigStableWhileRunning
    EveryRequestAnswered
