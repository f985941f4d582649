SPECIFICATION TSpec
CONSTANTS
    t1 = t1
    t2 = t2
    p1 = p1
    p2 = p2
    p3 = p3
    n1 = n1
    n2 = n2
    None = None
    Appenders = {t1, t2}
    Partitions = {p1, p2, p3}
    Nodes = {n1, n2}
    MaxBatches = 3
    MaxWait = 2
    Setups <- MCSetups
CHECK_DEADLOCK FALSE
INVARIANTS
    FlushPostcondition
    AbortMissesNothing
    NoOversleep
    NotStarved
