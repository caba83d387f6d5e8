---------------------------- MODULE TimingGates ----------------------------
(***************************************************************************)
(* The verdicts on measured times: horizon/measure.py, capture_verify.py,   *)
(* distance.py and latency_gate.py.  Each compares a measured duration,      *)
(* corrected by the declared clock uncertainty u, with integer floors: the   *)
(* time light needs, the time a signal in fibre needs, the time light needs  *)
(* there and back.                                                          *)
(***************************************************************************)
EXTENDS LightCone

Verdict == {"ADMITTED", "APPARATUS_LIMITED", "REJECTED"}

\* The smallest t with (speed * t)^2 >= rhs: what the three ceiling searches
\* return; how they get there is module LightTimeLoops.
LeastTime(speed, rhs) ==
    CHOOSE t \in 0..rhs :
      (speed * t) * (speed * t) >= rhs /\ \A s \in 0..rhs : (speed * s) * (speed * s) >= rhs => t <= s

\* min_transit_time_ns_eff: the light time at C * num / den.
TransitTime(p, q, num, den) == LeastTime(C * num, den * den * Dist2(p, q))

\* min_round_trip_ns.
RoundTripTime(p, q) == LeastTime(C, 4 * Dist2(p, q))

---------------------------------------------------------------------------
(* One-way signals: dt is the reading at reception minus the one at emission. *)

\* measure.py: below light's floor is impossible, below fibre's is undecided.
budget_witness(dt, u, vacuum, typical) ==
    CASE dt + u < vacuum  -> "REJECTED"
      [] dt + u >= vacuum /\ dt + u < typical -> "APPARATUS_LIMITED"
      [] OTHER -> "ADMITTED"

\* A mutated form of classify: fibre's floor decides (an erratum of the code).
classifyByTypical(dt, u, vacuum, typical) ==
    LET eff == dt + u
    IN  CASE eff < typical - 2 * u -> "REJECTED"
          [] eff >= typical - 2 * u /\ eff <= typical + 2 * u -> "APPARATUS_LIMITED"
          [] OTHER -> "ADMITTED"

\* A mutated form of classify: a raw duration below zero is rejected first (an
\* erratum of the code).
classifyRawFirst(dt, u, vacuum, typical) ==
    LET eff == dt + u
    IN  CASE dt < 0 \/ eff < vacuum -> "REJECTED"
          [] dt >= 0 /\ eff >= vacuum /\ eff - typical \in (-(2 * u))..(2 * u) -> "APPARATUS_LIMITED"
          [] OTHER -> "ADMITTED"

\* A mutated form of classify: the band is one uncertainty wide on each side.
classifyNarrow(dt, u, vacuum, typical) ==
    LET eff == dt + u
    IN  CASE eff < vacuum -> "REJECTED"
          [] eff >= vacuum /\ eff - typical \in -u..u -> "APPARATUS_LIMITED"
          [] OTHER -> "ADMITTED"

\* capture_verify.py: only light's floor rejects; near fibre's, nothing is said.
classify(dt, u, vacuum, typical) ==
    LET eff == dt + u
    IN  CASE eff < vacuum -> "REJECTED"
          [] eff >= vacuum /\ eff - typical \in (-(2 * u))..(2 * u) -> "APPARATUS_LIMITED"
          [] OTHER -> "ADMITTED"

\* latency_gate.py, with its own test of the raw duration.
telemetry_consistent(dt, u, resolve, required) ==
    CASE dt < 0 \/ dt + u < required - resolve -> "REJECTED"
      [] dt >= 0 /\ dt + u >= required - resolve /\ dt + u < required -> "APPARATUS_LIMITED"
      [] OTHER -> "ADMITTED"

---------------------------------------------------------------------------
(* Round trips: rtt is measured on one clock, the prover takes up to proc. *)

\* A mutated form of deadline_ns: the exact round trip, without the rounding of
\* each way.
deadlineOfRoundTrip(v, p, proc) == RoundTripTime(v, p) + proc
deadline_ns(v, p, proc) == 2 * MinLightTime(v, p) + proc

\* A mutated form of rtt_bound_witness: no deadline.
rtt_floor_only(rtt, proc, v, p) ==
    IF rtt < proc \/ ~Reaches(rtt - proc, 4 * Dist2(v, p)) THEN "REJECTED" ELSE "ADMITTED"

\* distance.py: the floor in exact squares, then the deadline.
rtt_bound_witness(rtt, proc, v, p) ==
    IF \/ rtt < proc \/ ~Reaches(rtt - proc, 4 * Dist2(v, p))
       \/ rtt > deadline_ns(v, p, proc)
    THEN "REJECTED" ELSE "ADMITTED"

multilateration(rtt, proc, verifiers, p) ==
    IF \A v \in verifiers : rtt_bound_witness(rtt[v], proc, v, p) = "ADMITTED"
    THEN "ADMITTED" ELSE "REJECTED"

\* latency_gate.py: too fast, too slow, within the band, or attested.
trajectory_attested(rtt, proc, u, resolve, required) ==
    LET low == rtt - proc + u
        high == rtt - proc - u
    IN  CASE rtt < 0 \/ low < required - resolve \/ high > required + resolve -> "REJECTED"
          [] /\ rtt >= 0 /\ low >= required - resolve /\ high <= required + resolve
             /\ (low < required \/ high > required) -> "APPARATUS_LIMITED"
          [] OTHER -> "ADMITTED"
=============================================================================
