SPECIFICATION SpecReachable
CONSTANTS
    Partitions = {p1, p2}
    Nodes = {n1}
    MaxBatches = 2
    BatchSize = 2
    Retries = 9
    Idempotent = TRUE
    GuaranteeOrder = TRUE
    Expiry = FALSE
    ErrorKinds = {"retriable"}
    MaxFaults = 2
PROPERTIES
    ImplementsOrderedDelivery
    Acknowledged
