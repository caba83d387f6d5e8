SPECIFICATION Spec
CONSTANTS
    C = 1
    Worker = {w1, w2}
    NoOp = NoOp
    NoEvent = NoEvent
    Key = {"k1"}
    Region <- MCRegion
    PosOf <- MCPosOf
    UOf <- MCUOf
    Distance = 2
    Uncertainty = 1
    Steps = {1, 2}
    MaxOps = 3
INVARIANTS
    VerifyOrderHolds
    NothingLostByThreads
PROPERTIES
    FreshWritesAreAtomic
CHECK_DEADLOCK FALSE
