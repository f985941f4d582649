CONSTANTS
    None = None
    Radix = 4
    Setups <- MCSetups
    BrokerTime = 5
    MaxInt = 7
SPECIFICATION Spec
INVARIANTS
    ReadIntact
    SizesKept
    SequencesContinue
    ResponsesMatch
CHECK_DEADLOCK FALSE
