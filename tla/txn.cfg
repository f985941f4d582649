SPECIFICATION FairSpec
CONSTANTS
    p1 = p1
    p2 = p2
    Partitions = {p1, p2}
    MaxSends = 3
    MaxTxns = 2
    MaxFaults = 2
    Setups <- MCSetups
INVARIANTS
    WriteRegistered
    OnlyCommittedVisible
    CleanStart
PROPERTIES
    
    CallReturns
