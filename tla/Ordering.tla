------------------------------ MODULE Ordering ------------------------------
(***************************************************************************)
(* The three implementations of causal-store's ordering contract            *)
(* (causalstore/ordering.py).  An operator takes the two events' clocks: a   *)
(* record with the fields time_ns, pos_nm and u_ns (geometric clock) and vc  *)
(* (vector clock, a function whose domain is the nodes it mentions).         *)
(***************************************************************************)
EXTENDS LightCone

---------------------------------------------------------------------------
(* GeometricOrdering *)

IsGeoClock(c) == c.time_ns \in Int /\ c.pos_nm \in Point /\ c.u_ns \in Nat

\* A mutated form of CombinedU: the two uncertainties do not add up.
LargerU(a, b) == IF a.u_ns > b.u_ns THEN a.u_ns ELSE b.u_ns
CombinedU(a, b) == a.u_ns + b.u_ns
Elapsed(a, b)   == b.time_ns - a.time_ns
Floor(a, b)     == MinLightTime(a.pos_nm, b.pos_nm)

\* The whole interval of possible elapsed times is on one side of the floor.
GeoResolves(a, b) ==
    \/ Elapsed(a, b) - CombinedU(a, b) >= Floor(a, b)
    \/ Elapsed(a, b) + CombinedU(a, b) <  Floor(a, b)

\* A mutated form of GeoBefore: it does not consult GeoResolves.
GeoBeforeUnresolved(a, b) ==
    /\ b.time_ns > a.time_ns
    /\ CausallyAdmissible(a.time_ns, a.pos_nm, b.time_ns, b.pos_nm)

GeoBefore(a, b) ==
    /\ b.time_ns > a.time_ns
    /\ GeoResolves(a, b)
    /\ CausallyAdmissible(a.time_ns, a.pos_nm, b.time_ns, b.pos_nm)

---------------------------------------------------------------------------
(* LogicalOrdering *)

IsVector(x) == \A k \in DOMAIN x : x[k] \in Nat

At(x, k) == IF k \in DOMAIN x THEN x[k] ELSE 0

LogLeq(x, y) == \A k \in DOMAIN x \cup DOMAIN y : At(x, k) <= At(y, k)

\* A mutated form of LogBefore: strictness by inequality of the dicts.
LogBeforeDict(a, b) == LogLeq(a.vc, b.vc) /\ a.vc # b.vc

LogBefore(a, b) == LogLeq(a.vc, b.vc) /\ ~LogLeq(b.vc, a.vc)

---------------------------------------------------------------------------
(* HybridOrdering *)

\* A mutated form of HybridBefore: the fallback also answers for the pairs
\* geometry has resolved.
HybridBeforeEither(a, b) == GeoBefore(a, b) \/ LogBefore(a, b)

HybridBefore(a, b) ==
    IF GeoResolves(a, b) THEN GeoBefore(a, b) ELSE LogBefore(a, b)

---------------------------------------------------------------------------
(* What a geometric clock says of the true times: a true time is anywhere    *)
(* within u_ns of time_ns.                                                   *)

TrueElapsed(a, b) ==
    (Elapsed(a, b) - CombinedU(a, b))..(Elapsed(a, b) + CombinedU(a, b))

\* A signal sent at a and received at b, b strictly later, is possible.
MayHaveCaused(a, b) == \E d \in TrueElapsed(a, b) : d > 0 /\ d >= Floor(a, b)

\* b is in the light cone of a for every true time the clocks allow.
SurelyReachable(a, b) == \A d \in TrueElapsed(a, b) : d >= Floor(a, b)
=============================================================================
