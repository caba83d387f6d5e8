----------------------------- MODULE LightCone -----------------------------
(***************************************************************************)
(* The exact light-cone kernel: horizon/geometry.py, and the byte-identical *)
(* copy causal-store ships as causalstore/geometry.py.  Everything is an    *)
(* integer: points are triples of nanometres, times are nanoseconds, and    *)
(* the speed of light C is a number of nanometres per nanosecond.           *)
(***************************************************************************)
EXTENDS Integers

CONSTANT C      \* C_NM_PER_NS; 299 792 458 in the code, a small number in a run

ASSUME CAssumption == C \in Nat \ {0}

Point == Int \X Int \X Int

Dist2(p, q) ==
    LET d(i) == q[i] - p[i]
    IN  d(1) * d(1) + d(2) * d(2) + d(3) * d(3)

\* Event 2 lies in the closed future light cone of event 1.
CausallyAdmissible(t1, p1, t2, p2) ==
    LET dt == t2 - t1
    IN  dt >= 0 /\ (C * dt) * (C * dt) >= Dist2(p1, p2)

Reaches(dt, d2) == (C * dt) * (C * dt) >= d2

\* The smallest number of nanoseconds in which light covers the distance.  This
\* is what min_light_time_ns returns; how it gets there is LightTimeLoops.
IsLightTime(t, p1, p2) ==
    t \in Nat /\ Reaches(t, Dist2(p1, p2)) /\ \A s \in Nat : Reaches(s, Dist2(p1, p2)) => t <= s

MinLightTime(p1, p2) ==
    LET d2 == Dist2(p1, p2)
    IN  CHOOSE t \in 0..d2 : Reaches(t, d2) /\ \A s \in 0..d2 : Reaches(s, d2) => t <= s
=============================================================================
