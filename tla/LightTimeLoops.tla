--------------------------- MODULE LightTimeLoops ---------------------------
(***************************************************************************)
(* How the floors of TimingGates are computed: min_light_time_ns             *)
(* (geometry.py), min_transit_time_ns_eff (measure.py) and                   *)
(* min_round_trip_ns (distance.py) are one ceiling search with three speeds   *)
(* and squares: an integer square root, a ceiling division, and two loops     *)
(* that walk the guess down and up.  Each loop is the function from the       *)
(* guess it starts with to the one it ends with.                             *)
(***************************************************************************)
EXTENDS Measurement

\* math.isqrt, then "if r * r < rhs: r += 1".
CeilSqrt(rhs) ==
    LET isqrt == CHOOSE r \in 0..rhs : r * r <= rhs /\ rhs < (r + 1) * (r + 1)
    IN  IF isqrt * isqrt < rhs THEN isqrt + 1 ELSE isqrt

CeilDiv(r, speed) == -((-r) \div speed)

Covers(speed, dt_, rhs) == (speed * dt_) * (speed * dt_) >= rhs

WalkDown(speed, rhs) ==
    LET down[t \in Nat] == IF t > 0 /\ Covers(speed, t - 1, rhs) THEN down[t - 1] ELSE t
    IN  down

\* A mutated form of WalkUp: it also leaves a guess that is already exact.
WalkUpStrict(speed, rhs) ==
    LET up[t \in Nat] == IF (speed * t) * (speed * t) > rhs THEN t ELSE up[t + 1]
    IN  up
WalkUp(speed, rhs) ==
    LET up[t \in Nat] == IF Covers(speed, t, rhs) THEN t ELSE up[t + 1]
    IN  up

Search(speed, rhs) ==
    IF rhs = 0 THEN 0
    ELSE WalkUp(speed, rhs)[WalkDown(speed, rhs)[CeilDiv(CeilSqrt(rhs), speed)]]

min_light_time_ns(p, q) == Search(C, Dist2(p, q))
min_transit_time_ns_eff(p, q, num, den) == Search(C * num, den * den * Dist2(p, q))
min_round_trip_ns(p, q) == Search(C, 4 * Dist2(p, q))

\* The three searches return the least time that reaches, for the points of every
\* receipt; and the two forms of the gate agree: an event is in the light cone, as
\* causally_admissible tells, exactly when the elapsed time is at least the light
\* time that resolves() and the witnesses compare it with.
LoopsAreExact ==
    IsReceipt =>
      /\ min_light_time_ns(measured.p0, measured.station) = vacuum_floor_ns
      /\ min_transit_time_ns_eff(measured.p0, measured.station, Num, Den) = typical_floor_ns
      /\ min_round_trip_ns(measured.p0, measured.station) = RoundTripTime(measured.p0, measured.station)
      /\ CausallyAdmissible(0, measured.p0, measured.elapsed, measured.station)
           <=> measured.elapsed >= min_light_time_ns(measured.p0, measured.station)
=============================================================================
