SPECIFICATION Spec
CONSTANTS
    p1 = p1
    p2 = p2
    n1 = n1
    n2 = n2
    None = None
    NoPid = NoPid
    TPs <- OneTP
    Nodes <- TwoNodes
    InitialLeader <- MCLeader
    Log <- MCLog
    AbortedTxns <- MCAborted
    AbortedBatches <- MCAbortedBatches
    Configs <- SafetyConfigs
    MaxPollRecords = 1
    MaxEvents = 2
    SeekOffsets = {0, 3}
INVARIANTS
    
    AtLeastOnce
