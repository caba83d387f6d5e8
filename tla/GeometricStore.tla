--------------------------- MODULE GeometricStore ---------------------------
(***************************************************************************)
(* CausalStore on GeometricOrdering, related to what really happened: an     *)
(* event's clock says where it happened and, to within u_ns, when.           *)
(***************************************************************************)
EXTENDS Ordering, CausalStore

CONSTANT ClockOf(_)

\* The store's ordering is GeometricOrdering over the events' clocks.
OrderIsGeometric ==
    /\ \A e \in Event : IsGeoClock(ClockOf(e))
    /\ \A a, b \in Event : /\ Before(a, b) = GeoBefore(ClockOf(a), ClockOf(b))
                           /\ Resolves(a, b) = GeoResolves(ClockOf(a), ClockOf(b))

\* A write committed without coordination next to other current values can
\* have been caused by none of them and can have caused none of them, for every
\* true time the measured clocks allow: the gate of write() on resolves().
CoordinationFreeIsSpacelike ==
    result.mode = "coordination_free" =>
      \A f \in Frontier(KeyOf(result.event)) \ {result.event} :
        /\ ~MayHaveCaused(ClockOf(f), ClockOf(result.event))
        /\ ~MayHaveCaused(ClockOf(result.event), ClockOf(f))

\* An event that is not current was surely in the causal past of a current one,
\* for every true time the measured clocks allow.
ReplacedWasSurelyEarlier ==
    \A e \in stored :
      \E f \in Frontier(KeyOf(e)) : e = f \/ SurelyReachable(ClockOf(e), ClockOf(f))
=============================================================================
