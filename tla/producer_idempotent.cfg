SPECIFICATION Spec
CONSTANTS
    Partitions = {p1, p2}
    Nodes = {n1, n2}
    MaxBatches = 3
    BatchSize = 1
    Retries = 1
    Idempotent = TRUE
    GuaranteeOrder = TRUE
    Expiry = TRUE
    ErrorKinds = {"retriable", "nonretriable", "clusterAuth"}
    MaxFaults = 2
SYMMETRY Symmetry
INVARIANTS
    TypeOK
    NothingLost
    OneInFlight
    NeverRaises
    QueueInOrder
    NoDuplicates
