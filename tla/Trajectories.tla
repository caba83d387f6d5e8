---------------------------- MODULE Trajectories ----------------------------
(***************************************************************************)
(* Nodes that move (horizon/worldline.py, occultation.py, light_delay.py,     *)
(* uncertainty.py, two_floor.py, proper_time.py) and the causal-kernel        *)
(* provider.  As in module Measurement, one case is looked at: a flyby past   *)
(* an occulting body, a pair of events whose places are known within a        *)
(* radius, or a pair of clocks.                                              *)
(***************************************************************************)
EXTENDS Ordering

CONSTANTS Ships, Bodies,       \* linear worldlines; centres of the body
          Ground,              \* the receiver's place
          Radii, ScanSteps,    \* radius_nm, scan_steps
          Window,              \* t_hi of the search; t_lo is 0
          Centers, Ball,       \* best estimates; offsets within the largest radius
          MaxRadius, MaxLag,   \* bounds: of an envelope, of the time between two events
          ClockPlaces          \* where events with clocks happen

ASSUME TrajectoriesAssumption ==
    /\ Ships \subseteq [p0 : Point, t0 : Int, num : Point, den : Nat \ {0}]
    /\ Bodies \subseteq Point /\ Ground \in Point /\ Radii \subseteq Nat
    /\ ScanSteps \subseteq Nat \ {0} /\ Window \in Nat /\ MaxLag \in Nat
    /\ Centers \subseteq Point /\ Ball \subseteq Point /\ MaxRadius \in Nat
    /\ ClockPlaces \subseteq Point

VARIABLE subject

trajVars == <<subject>>

NoSubject == [kind |-> "none"]

---------------------------------------------------------------------------
(* Worldlines: a velocity is a vector of numerators over one denominator. *)

position_at(w, t) == [i \in 1..3 |-> w.p0[i] + (w.num[i] * (t - w.t0)) \div w.den]

FixedAt(p) == [p0 |-> p, t0 |-> 0, num |-> <<0, 0, 0>>, den |-> 1]

causally_admissible_wl(a, t1, b, t2) == CausallyAdmissible(t1, position_at(a, t1), t2, position_at(b, t2))

Dot(a, b) == a[1] * b[1] + a[2] * b[2] + a[3] * b[3]
Minus(a, b) == [i \in 1..3 |-> a[i] - b[i]]

\* The distance of c from the segment a b is at most the radius: at the end a, at
\* the end b, or at the foot of the perpendicular.
is_link_down(a, b, c, radius) ==
    LET ab == Minus(b, a)   ac == Minus(c, a)   bc == Minus(c, b)
        ab2 == Dot(ab, ab)  along == Dot(ac, ab)  r2 == radius * radius
    IN  \/ (ab2 = 0 \/ along <= 0) /\ Dot(ac, ac) <= r2
        \/ ab2 # 0 /\ along >= ab2 /\ Dot(bc, bc) <= r2
        \/ 0 < along /\ along < ab2 /\ Dot(ac, ac) * ab2 - along * along <= r2 * ab2

Down(w, body, radius, t) == is_link_down(position_at(w, t), Ground, body, radius)

---------------------------------------------------------------------------
(* occultation_interval over 0..Window: a scan for some instant with the link *)
(* down, then a bisection on each side of it.                                *)

\* The scanned instants.
Scanned(steps) ==
    LET step == IF Window \div steps > 1 THEN Window \div steps ELSE 1
    IN  {t \in 0..Window : t % step = 0}

\* The pair is <<lo, hi>>: lo is outside the set and hi inside.
Bisect(inside) ==
    LET search[r \in Nat \X Nat] ==
          IF r[2] - r[1] <= 1 THEN r
          ELSE LET mid == (r[1] + r[2]) \div 2
               IN  IF mid \in inside THEN search[<<r[1], mid>>] ELSE search[<<mid, r[2]>>]
    IN  search

\* {} stands for None; `hint` is in 0..Window, or -1 when there is none.
occultation_interval(w, body, radius, steps, hint) ==
    LET down(t) == Down(w, body, radius, t)
        is_down == {t \in 0..Window : down(t)}
        is_up == {t \in 0..Window : ~down(t)}
        found == {t \in Scanned(steps) : down(t)}
        anchor == IF hint # -1 /\ down(hint) THEN hint ELSE CHOOSE t \in found : \A s \in found : t <= s
        enter == IF down(0) THEN 0 ELSE Bisect(is_down)[<<0, anchor>>][2]
        exit == IF down(Window) THEN Window ELSE Bisect(is_up)[<<anchor, Window>>][1]
    IN  IF found = {} /\ ~(hint # -1 /\ down(hint)) THEN {} ELSE {<<enter, exit>>}

LightFrom(w, t) == MinLightTime(position_at(w, t), Ground)

\* A mutated form of delivery_time_ns: the signal leaves at the end of the
\* blackout, when the link is still down.
deliveryAtExit(w, t_emit, occultation) ==
    LET naive == t_emit + LightFrom(w, t_emit)
        held == {o \in occultation : o[1] <= t_emit /\ t_emit <= o[2]}
        leave(o) == o[2] + LightFrom(w, o[2])
    IN  CHOOSE d \in {naive} \cup {leave(o) : o \in held} : \A o \in held : naive <= d /\ leave(o) <= d

delivery_time_ns(w, t_emit, occultation) ==
    LET naive == t_emit + LightFrom(w, t_emit)
        held == {o \in occultation : o[1] <= t_emit /\ t_emit <= o[2]}
        reopened(o) == o[2] + 1 + LightFrom(w, o[2] + 1)
    IN  CHOOSE d \in {naive} \cup {reopened(o) : o \in held} : \A o \in held : naive <= d /\ reopened(o) <= d

---------------------------------------------------------------------------
(* The two floors of a place known within a radius *)

\* A mutated form of two_floor: the radii do not add up.
twoFloorLarger(dt, p1, r1, p2, r2) ==
    LET r == IF r1 > r2 THEN r1 ELSE r2   L == C * dt   d2 == Dist2(p1, p2)
    IN  CASE dt < 0 -> "REJECTED"
          [] dt >= 0 /\ L >= r /\ (L - r) * (L - r) >= d2 -> "ADMITTED"
          [] dt >= 0 /\ d2 > r * r /\ (L + r) * (L + r) < d2 -> "REJECTED"
          [] OTHER -> "APPARATUS_LIMITED"

\* two_floor_verdict, given the centres and radii of both sides.
two_floor(dt, p1, r1, p2, r2) ==
    LET r == r1 + r2   L == C * dt   d2 == Dist2(p1, p2)
    IN  CASE dt < 0 -> "REJECTED"
          [] dt >= 0 /\ L >= r /\ (L - r) * (L - r) >= d2 -> "ADMITTED"
          [] dt >= 0 /\ d2 > r * r /\ (L + r) * (L + r) < d2 -> "REJECTED"
          [] OTHER -> "APPARATUS_LIMITED"

---------------------------------------------------------------------------
(* The causal-kernel provider *)

\* A mutated form of classify_geometric: what is resolved in one direction is
\* taken to be resolved in both (an erratum of the code).
classifyOneWay(a, b) ==
    CASE a.time_ns = b.time_ns /\ a.pos_nm = b.pos_nm -> "equivalent"
      [] OTHER ->
         CASE ~GeoResolves(a, b) -> "apparatus_limited"
           [] GeoResolves(a, b) /\ CausallyAdmissible(a.time_ns, a.pos_nm, b.time_ns, b.pos_nm) -> "before"
           [] GeoResolves(a, b) /\ CausallyAdmissible(b.time_ns, b.pos_nm, a.time_ns, a.pos_nm) -> "after"
           [] OTHER -> "spacelike"

\* On one frame; uncertainties below zero and two frames are refused before.
classify_geometric(a, b) ==
    LET dt == Elapsed(a, b)   u == CombinedU(a, b)   required == Floor(a, b)
    IN  CASE a.time_ns = b.time_ns /\ a.pos_nm = b.pos_nm -> "equivalent"
          [] OTHER ->
             CASE dt + u < required /\ u - dt < required -> "spacelike"
               [] dt - u >= required -> "before"
               [] -dt - u >= required /\ ~(dt - u >= required) -> "after"
               [] OTHER -> "apparatus_limited"

classify_logical(x, y) ==
    IF LogLeq(x, y) THEN IF LogLeq(y, x) THEN "equivalent" ELSE "before"
    ELSE IF LogLeq(y, x) THEN "after" ELSE "logically_concurrent"

Opposite(relation) ==
    CASE relation = "before" -> "after" [] relation = "after" -> "before" [] OTHER -> relation

---------------------------------------------------------------------------
(* The cases. *)

TrajInit == subject = NoSubject

Fly ==
    \E w \in Ships, b \in Bodies, r \in Radii, n \in ScanSteps, h \in {-1, Window \div 2} :
      subject' = [kind |-> "flyby", ship |-> w, body |-> b, radius |-> r, steps |-> n, hint |-> h]

Locate ==
    \E p \in Centers, q \in Centers, r1 \in 0..MaxRadius, r2 \in 0..MaxRadius, d \in (-1)..MaxLag :
      subject' = [kind |-> "places", p |-> p, q |-> q, r1 |-> r1, r2 |-> r2, dt |-> d]

\* Two events whose clocks are off by at most what they declare.
Compare ==
    \E p \in ClockPlaces, q \in ClockPlaces, u \in 0..1, v \in 0..1, d \in (-MaxLag)..MaxLag :
      \E e \in (-u)..u, f \in (-v)..v :
        subject' = [kind |-> "clocks", a |-> [time_ns |-> e, pos_nm |-> p, u_ns |-> u],
                    b |-> [time_ns |-> d + f, pos_nm |-> q, u_ns |-> v], lag |-> d]

\* Two vector clocks, which may leave a zero out.
CompareVectors ==
    \E S \in SUBSET {"n1", "n2"}, T \in SUBSET {"n1", "n2"} :
      \E x \in [S -> 0..2], y \in [T -> 0..2] : subject' = [kind |-> "vectors", a |-> x, b |-> y]

TrajNext == subject = NoSubject /\ (Fly \/ Locate \/ Compare \/ CompareVectors)

TrajSpec == TrajInit /\ [][TrajNext]_trajVars

---------------------------------------------------------------------------
(* Properties. *)

Blackout == occultation_interval(subject.ship, subject.body, subject.radius, subject.steps, subject.hint)
DownTimes == {t \in 0..Window : Down(subject.ship, subject.body, subject.radius, t)}

\* What the search returns is the blackout, to the nanosecond, wherever the scan
\* or the hint first hit it, and nothing only if every scanned instant is up; so a
\* signal is delivered only if it left, not before it was emitted, at an instant
\* when the link was up, and light had the time; and no signal overtakes the one
\* before unless the ship, as it is rounded to the lattice, outran light between them.
SignalsWaitForTheLink ==
    subject.kind = "flyby" /\ (\A t \in DownTimes, s \in DownTimes : t..s \subseteq DownTimes) =>
      LET w == subject.ship
          delivered == [t \in 0..Window |-> delivery_time_ns(w, t, Blackout)]
      IN  /\ \A o \in Blackout : DownTimes = o[1]..o[2]
          /\ Blackout = {} => Scanned(subject.steps) \cap DownTimes = {}
          /\ Blackout # {} /\ Window \notin DownTimes =>
               \A t \in 0..Window : \E left \in t..(delivered[t]) :
                 /\ ~Down(w, subject.body, subject.radius, left)
                 /\ causally_admissible_wl(w, left, FixedAt(Ground), delivered[t])
          /\ \A t \in 1..Window :
               causally_admissible_wl(w, t - 1, w, t) => delivered[t - 1] <= delivered[t]

Around(p, r) == {[i \in 1..3 |-> p[i] + o[i]] : o \in {b \in Ball : Dot(b, b) <= r * r}}

\* A definitive verdict of the two floors is true of every pair of places that
\* the two envelopes allow.
VerdictHoldsEverywhere ==
    subject.kind = "places" =>
      LET verdict == two_floor(subject.dt, subject.p, subject.r1, subject.q, subject.r2)
      IN  \A x \in Around(subject.p, subject.r1), y \in Around(subject.q, subject.r2) :
            /\ verdict = "ADMITTED" => CausallyAdmissible(0, x, subject.dt, y)
            /\ verdict = "REJECTED" => ~CausallyAdmissible(0, x, subject.dt, y)

\* What the provider calls certain is true of the events behind the clocks, it
\* says the opposite of the reversed pair, and it never contradicts the store's
\* own orderings on the same clocks.
ProviderIsCertain ==
    /\ subject.kind = "clocks" =>
         LET a == subject.a   b == subject.b
             relation == classify_geometric(a, b)
         IN  /\ relation = "before" => CausallyAdmissible(0, a.pos_nm, subject.lag, b.pos_nm) /\ GeoResolves(a, b)
             /\ relation = "spacelike" =>
                  /\ ~CausallyAdmissible(0, a.pos_nm, subject.lag, b.pos_nm)
                  /\ ~CausallyAdmissible(subject.lag, b.pos_nm, 0, a.pos_nm)
             /\ classify_geometric(b, a) = Opposite(relation)
             /\ GeoBefore(a, b) => relation = "before"
    /\ subject.kind = "vectors" =>
         LET relation == classify_logical(subject.a, subject.b)
         IN  /\ relation = "before" <=> LogBefore([vc |-> subject.a], [vc |-> subject.b])
             /\ classify_logical(subject.b, subject.a) = Opposite(relation)
=============================================================================
