SPECIFICATION Spec
CONSTANTS
    C = 2
    Times = {0, 1, 2, 3}
    Uncertainties = {0, 1}
    Places <- MCPlaces
    Nodes = {}
    MaxCount = 0
    Scheme = "geometric"
    Event <- MCEvent
    Key <- MCKey
    KeyOf <- MCKeyOf
    ClockOf <- MCClockOf
    Before <- MCBefore
    Resolves <- MCResolves
    ClaimSets <- MCClaimSets
    NoEvent = NoEvent
    MaxCalls = 3
INVARIANTS
    FrontierIsMaximal
    CoordinationFreeIsSpacelike
    ReplacedWasSurelyEarlier
CHECK_DEADLOCK FALSE
