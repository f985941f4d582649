CONSTANTS
    Members = {1, 2, 3}
    Topics = {1, 2}
    Setups <- AllSetups
    None = None

SPECIFICATION FairSpec

INVARIANTS
    ValidAndBalanced

PROPERTIES
    KeepsAssignment
    AssignTerminates

CHECK_DEADLOCK FALSE
