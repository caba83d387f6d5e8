----------------------------- MODULE SpaceLink -----------------------------
(***************************************************************************)
(* A ship that manoeuvres and a ground station, joined by signals at light    *)
(* speed or slower.  The ground keeps an envelope of where the ship may be    *)
(* (horizon/uncertainty.py) and collapses it at each contact; both nodes      *)
(* stamp events with a vector clock and a proper time (proper_time.py), and   *)
(* reconcile.py relates any two events of the merged log.                    *)
(* The ship flies along the first axis.  True coordinates are doubled, for    *)
(* half of an acceleration of one is no integer.                             *)
(***************************************************************************)
EXTENDS Trajectories, FiniteSets

CONSTANTS a_max, v_unc,       \* bounds the envelope declares
          u_measured,         \* the error of a fix
          Start, Track,       \* the ship's place at time 0: <<Start, Track, 0>>
          v2, phi,            \* the squared speed and potential of weak_field_rate
          Horizon, MaxEvents  \* bounds: the last instant, the events of the log

ASSUME SpaceLinkAssumption ==
    /\ {a_max, v_unc, u_measured, v2, Horizon, MaxEvents} \subseteq Nat
    /\ {Start, Track, phi} \subseteq Int
    /\ v2 <= 2 * C * C + 2 * phi   \* a weak field and a low velocity: clocks run forward

VARIABLES now, ship,    \* the instant; the ship's true [x2, v]
          envelope,     \* the ground's TrajectoryEnvelope
          clocks,       \* the vector clock of each node
          flying,       \* signals not yet received
          merged        \* the events

linkVars == <<now, ship, envelope, clocks, flying, merged>>

Nodes == {"ground", "ship"}

---------------------------------------------------------------------------
(* TrajectoryEnvelope *)

Envelope(x, v, t_c) ==
    [nominal |-> [p0 |-> <<x, Track, 0>>, t0 |-> t_c, num |-> <<v, 0, 0>>, den |-> 1], t_c |-> t_c]

\* A mutated form of radius_at: the manoeuvre term is rounded down.
radiusFloor(env, t) ==
    LET dt == t - env.t_c IN u_measured + v_unc * dt + (a_max * dt * dt) \div 2

radius_at(env, t) ==
    LET dt == t - env.t_c IN u_measured + v_unc * dt - ((-(a_max * dt * dt)) \div 2)

---------------------------------------------------------------------------
(* Proper time *)

weak_field_rate == [num |-> 2 * C * C + 2 * phi - v2, den |-> 2 * C * C]

tau_at(node, t) ==
    IF node = "ground" THEN t
    ELSE (weak_field_rate.num * t) \div weak_field_rate.den

---------------------------------------------------------------------------
(* reconcile *)

\* An event's locator is a Worldline, its place then exact, or an envelope.
PlaceOf(e) == position_at(e.locator.nominal, e.t)
RadiusOf(e) == IF "t_c" \in DOMAIN e.locator THEN radius_at(e.locator, e.t) ELSE 0

_physical_verdict(a, b) == two_floor(b.t - a.t, PlaceOf(a), RadiusOf(a), PlaceOf(b), RadiusOf(b))

\* A mutated form of happens_before: the proper times decide.
tau_before(a, b) == a.tau < b.tau

happens_before(a, b) == LogBefore(a, b)

reconcile(a, b) ==
    LET agreed(verdict, relation) ==
          CASE verdict = "ADMITTED" -> relation
            [] verdict = "APPARATUS_LIMITED" -> "APPARATUS_LIMITED"
            [] OTHER -> "CONCURRENT"
    IN  IF happens_before(a, b) THEN agreed(_physical_verdict(a, b), "BEFORE")
        ELSE IF happens_before(b, a) THEN agreed(_physical_verdict(b, a), "AFTER")
        ELSE "CONCURRENT"

---------------------------------------------------------------------------
(* The flight *)

Twice(p) == [i \in 1..3 |-> 2 * p[i]]
TruePlace(node) == IF node = "ground" THEN Twice(Ground) ELSE <<ship.x2, 2 * Track, 0>>

LightArrived(t1, p1, t2, p2) == t1 <= t2 /\ 4 * (C * (t2 - t1)) * (C * (t2 - t1)) >= Dist2(p1, p2)

LinkInit ==
    /\ now = 0
    /\ \E v \in ((-C)..C) \cap ((-v_unc)..v_unc) : ship = [x2 |-> 2 * Start, v |-> v]
    /\ envelope = Envelope(Start, 0, 0)
    /\ clocks = [n \in Nodes |-> [k \in {} |-> 0]]
    /\ flying = {} /\ merged = {}

\* One nanosecond of flight, the engine pushing steadily within a_max.
Fly1 ==
    /\ now < Horizon
    /\ \E a \in (-a_max)..a_max :
         /\ ship.v + a \in (-C)..C
         /\ ship' = [x2 |-> ship.x2 + 2 * ship.v + a, v |-> ship.v + a]
    /\ now' = now + 1
    /\ UNCHANGED <<envelope, clocks, flying, merged>>

Stamp(node, vc, env) ==
    [node |-> node, vc |-> vc, t |-> now, tau |-> tau_at(node, now),
     locator |-> IF node = "ground" THEN [nominal |-> FixedAt(Ground)] ELSE env, at |-> TruePlace(node)]

Ticked(vc, node) == [k \in DOMAIN vc \cup {node} |-> At(vc, k) + IF k = node THEN 1 ELSE 0]
Merged(x, y) == [k \in DOMAIN x \cup DOMAIN y |-> IF At(x, k) > At(y, k) THEN At(x, k) ELSE At(y, k)]

\* A node stamps an event and sends it, with its vector clock, to the other.
Say(node) ==
    LET vc == Ticked(clocks[node], node)
    IN  /\ Cardinality(merged) < MaxEvents
        /\ clocks' = [clocks EXCEPT ![node] = vc]
        /\ merged' = merged \cup {Stamp(node, vc, envelope)}
        /\ flying' = flying \cup {[from |-> node, t |-> now, v |-> ship.v, at |-> TruePlace(node), vc |-> vc]}
        /\ UNCHANGED <<now, ship, envelope>>

\* The contact is anchored where and when the signal left, within the errors.
\* An older signal that arrives late anchors the envelope at the older contact.
Collapsed(s) ==
    {Envelope(x, v, s.t) : x \in {x \in (Start - C * Horizon)..(Start + C * Horizon) :
                                   2 * x - s.at[1] \in (-(2 * u_measured))..(2 * u_measured)},
                           v \in (s.v - v_unc)..(s.v + v_unc)}

\* The signal is received, at the light time or later.
Hear(node) ==
    \E s \in flying :
      LET vc == Ticked(Merged(clocks[node], s.vc), node)
      IN  /\ s.from # node /\ LightArrived(s.t, s.at, now, TruePlace(node))
          /\ Cardinality(merged) < MaxEvents
          /\ clocks' = [clocks EXCEPT ![node] = vc]
          /\ merged' = merged \cup {Stamp(node, vc, envelope)}
          /\ IF node = "ground" THEN envelope' \in Collapsed(s) ELSE UNCHANGED envelope
          /\ flying' = flying \ {s}
          /\ UNCHANGED <<now, ship>>

LinkNext == Fly1 \/ \E n \in Nodes : Say(n) \/ Hear(n)

LinkSpec == LinkInit /\ [][LinkNext]_linkVars

---------------------------------------------------------------------------
(* Properties. *)

\* However the ship has flown since, and whichever signal the ground heard last,
\* the ship is in the ball that the ground's envelope draws.
ShipStaysInside ==
    LET off == Dist2(Twice(position_at(envelope.nominal, now)), TruePlace("ship"))
        radius == 2 * radius_at(envelope, now)
    IN  off <= radius * radius

\* A cause and its effect are never called concurrent, nor taken in the wrong
\* order, whoever asks; an order that is asserted is one light allows between the
\* true places; and a node's own proper times follow its events.
LineageSurvives ==
    \A a \in merged, b \in merged :
      /\ LogBefore(a, b) =>
           /\ reconcile(a, b) \in {"BEFORE", "APPARATUS_LIMITED"}
           /\ reconcile(b, a) \in {"AFTER", "APPARATUS_LIMITED"}
           /\ a.node = b.node => a.tau <= b.tau
      /\ reconcile(a, b) = "BEFORE" => LightArrived(a.t, a.at, b.t, b.at)
      /\ reconcile(a, b) = "AFTER" => LightArrived(b.t, b.at, a.t, a.at)
=============================================================================
