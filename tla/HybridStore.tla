---------------------------- MODULE HybridStore ----------------------------
(***************************************************************************)
(* CausalStore driven by HybridOrdering, the production default, on events   *)
(* of a real execution: each event also has the time at which it really      *)
(* happened.  Its measured time is off by at most u_ns, and a vector clock   *)
(* orders two events only if a message can have gone from one to the other.  *)
(***************************************************************************)
EXTENDS GeometricStore

CONSTANT HappenedAt(_)

\* The store's ordering is HybridOrdering over the events' clocks.
OrderIsHybrid ==
    /\ \A e \in Event :
         /\ IsGeoClock(ClockOf(e)) /\ HappenedAt(e) \in Int
         /\ ClockOf(e).time_ns - HappenedAt(e) \in (-ClockOf(e).u_ns)..(ClockOf(e).u_ns)
    /\ \A a, b \in Event : Before(a, b) = HybridBefore(ClockOf(a), ClockOf(b))

\* A signal from a can have reached b.
Reached(a, b) ==
    /\ HappenedAt(b) > HappenedAt(a)
    /\ HappenedAt(b) - HappenedAt(a) >= Floor(ClockOf(a), ClockOf(b))

\* The event belongs to the same execution as those written so far.
Consistent(e) ==
    \A o \in delivered :
      /\ LogBefore(ClockOf(o), ClockOf(e)) => Reached(o, e)
      /\ LogBefore(ClockOf(e), ClockOf(o)) => Reached(e, o)

HybridNext == \E e \in Event : Consistent(e) /\ \E claims \in ClaimSets : Write(e, claims)
HybridSpec == Init /\ [][HybridNext]_vars

\* Geometry and vector clocks may answer for different pairs of events, but
\* whatever pair write() lets one event supersede the other in, the superseded
\* one was reached first in the real execution: a signal from it can have
\* arrived at the place of the other no later than the other happened.
SupersededWasReached ==
    \A o \in stored : \A p \in supersedes[o] :
      HappenedAt(o) - HappenedAt(p) >= Floor(ClockOf(p), ClockOf(o))
=============================================================================
