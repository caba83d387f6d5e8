--------------------------- MODULE MCLiveCapture ---------------------------
(* A responder in the emitter's own region and one a light tick away.  The *)
(* emitter's clock is right, late or early by three ticks, the others' are   *)
(* off by their whole uncertainty.                                          *)
EXTENDS LiveCapture

CONSTANTS near, far, emitterNode

MCResponders == {near, far}
MCPos == [n \in {near, far, emitterNode} |-> IF n = far THEN <<1, 0, 0>> ELSE <<0, 0, 0>>]
MCU == [n \in {near, far, emitterNode} |-> IF n = emitterNode THEN 3 ELSE 1]
MCClockErrors ==
    {[n \in {near, far, emitterNode} |-> IF n = emitterNode THEN e ELSE d] :
       e \in {-3, 0, 2, 3}, d \in {-1, 1}}
=============================================================================
