SPECIFICATION Spec
CONSTANTS
    Worker = {w1, w2}
    NoOp = NoOp
    MaxOps = 4
    Traces <- MCTraces
    Systems = {"baseline", "sql", "tiga"}
    Leftovers <- MCLeftovers
    MaxFaults = 1
INVARIANTS
    DependenciesReturned
    CommitSeqIsRealTime
    RowsAreClosed
    FaultFreeAcceptsAll
PROPERTIES
    PointEnds
CHECK_DEADLOCK FALSE
