SPECIFICATION FairSpec
CONSTANTS
    boot = boot
    broker = broker
    t1 = t1
    t2 = t2
    Bootstrap <- MCBootstrap
    Nodes <- MCNodes
    Threads <- MCThreads
    Setups <- AllSetups
    IdSpace = 2
    MaxApiVersion = 1
    VersionChecks = 2
    MaxEvents = 1
    None = None
INVARIANTS
    
    NoLostWakeup
PROPERTIES
    Served
CHECK_DEADLOCK FALSE
