SPECIFICATION HybridSpec
CONSTANTS
    C = 1
    Times = {0, 1, 2}
    Uncertainties = {0, 1}
    Places <- OnePlace
    Heard <- ThreeNodes
    Event <- MCEvent
    Key <- MCKey
    KeyOf <- MCKeyOf
    ClockOf <- MCClockOf
    HappenedAt <- MCHappenedAt
    Before <- MCBefore
    Resolves <- MCResolves
    ClaimSets <- MCClaimSets
    NoEvent = NoEvent
    MaxCalls = 3
INVARIANTS
    CurrentIsNotStale
CHECK_DEADLOCK FALSE
