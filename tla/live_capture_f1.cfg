SPECIFICATION Spec
CONSTANTS
    C = 1
    near = near
    far = far
    emitterNode = emitterNode
    Emitter = emitterNode
    Responders <- MCResponders
    Pos <- MCPos
    U <- MCU
    ClockErrors <- MCClockErrors
    Unsynced = {}
    Timeout = 2
    StampTime = 1
    MaxTime = 6
    Runs = 1
INVARIANT
    HonestNeverRejected
CHECK_DEADLOCK FALSE
