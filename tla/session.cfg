CONSTANTS
    TPs = {a, b}
    Offsets = {1, 2}
    MaxEpoch = 2
    MaxSessions = 2
    Throttled = {"full"}
    MaxFaults = 2

SPECIFICATION FairSpec

INVARIANTS
    OffsetsAgree
    NothingForgotten

PROPERTIES
    KeepsFetching
