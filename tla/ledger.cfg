SPECIFICATION Spec
CONSTANTS
    C = 1
    EventId = {e1, e2, e3}
    Times = {0, 1, 2}
    Places <- MCPlaces
    DependencyKinds = {"observed_dependency"}
    NoIndex = NoIndex
    MaxClaims = 1
    MaxRejections = 1
SYMMETRY Symmetry
INVARIANTS
    ReachableIsInfluence
    QueriesAgree
