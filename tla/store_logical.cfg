SPECIFICATION Spec
CONSTANTS
    C = 2
    Times = {0}
    Uncertainties = {0}
    Places <- MCPlaces
    Nodes = {n1, n2}
    MaxCount = 1
    Scheme = "logical"
    Event <- MCEvent
    Key <- MCKey
    KeyOf <- MCKeyOf
    ClockOf <- MCClockOf
    Before <- MCBefore
    Resolves <- MCResolves
    ClaimSets <- MCClaimSets
    NoEvent = NoEvent
    MaxCalls = 4
PROPERTIES
    RefinesRegister
    StaleStaysStale
CHECK_DEADLOCK FALSE
