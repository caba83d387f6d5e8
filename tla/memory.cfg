SPECIFICATION MemSpec
CONSTANTS
    C = 1
    Key <- MCKey
    Body <- MCBody
    KeyOf <- MCKeyOf
    ValueOf <- MCValueOf
    Before <- MCBefore
    Stranger <- MCStranger
    Nothing = Nothing
    MaxWrites = 3
    MaxRefusals = 1
INVARIANTS
    ProvenanceIsCausal
PROPERTIES
    OnlyClaimsReplace
CHECK_DEADLOCK FALSE
