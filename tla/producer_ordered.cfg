SPECIFICATION SpecTimed
CONSTANTS
    Partitions = {p1}
    Nodes = {n1}
    MaxBatches = 3
    BatchSize = 1
    Retries = 1
    Idempotent = FALSE
    GuaranteeOrder = TRUE
    Expiry = TRUE
    ErrorKinds = {"retriable", "nonretriable"}
    MaxFaults = 2
INVARIANTS
    AckedInOrder
PROPERTIES
    Reported
