SPECIFICATION FairSpec
CONSTANTS
    p1 = p1
    p2 = p2
    n1 = n1
    n2 = n2
    None = None
    NoPid = NoPid
    TPs <- TwoTPs
    Nodes <- TwoNodes
    InitialLeader <- MCLeader
    Log <- MCCompacted
    AbortedTxns <- MCAborted
    AbortedBatches <- NoAborted
    Configs <- ProgressConfigs
    MaxPollRecords = 1
    MaxEvents = 1
    SeekOffsets = {3}
PROPERTIES
    OnlyFetchable
    Progress
    PollTerminates
