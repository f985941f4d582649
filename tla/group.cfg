SPECIFICATION FairSpec
CONSTANTS
    m1 = m1
    m2 = m2
    None = None
    Members <- TwoMembers
    Committers <- OneMember
    Setups <- BothSetups
    PartitionsOf <- MCPartitionsOf
    MaxSnapshot = 1
    MaxEvents = 1
INVARIANTS
    OneOwner
    

    
CHECK_DEADLOCK FALSE
