--------------------------- MODULE MCHybridStore ---------------------------
(* HybridStore with at most two places, one nanosecond of light apart. *)
EXTENDS HybridStore

CONSTANTS Times, Places, Uncertainties,
          Heard       \* the sets of nodes an event may have heard of

MCKey == {"k1"}
MCPlaces == {<<0, 0, 0>>, <<1, 0, 0>>}
OnePlace == {<<0, 0, 0>>}

\* n2 has heard of n1's write; n3 has heard of nobody.
TwoNodes   == {{"n1"}, {"n1", "n2"}}
ThreeNodes == TwoNodes \cup {{"n3"}}
MCVector == {[n \in S |-> 1] : S \in Heard}

MCClock == [time_ns : Times, pos_nm : Places, u_ns : Uncertainties, vc : MCVector]
MCEvent == {e \in [key : MCKey, clock : MCClock, happened : Times] :
              /\ e.clock.time_ns - e.happened <= e.clock.u_ns
              /\ e.happened - e.clock.time_ns <= e.clock.u_ns}
MCKeyOf(e) == e.key
MCClockOf(e) == e.clock
MCHappenedAt(e) == e.happened

BeforeTable == {p \in MCEvent \X MCEvent : HybridBefore(p[1].clock, p[2].clock)}
MCBefore(a, b) == <<a, b>> \in BeforeTable
MCResolves(a, b) == TRUE
MCClaimSets == {{}}
=============================================================================
