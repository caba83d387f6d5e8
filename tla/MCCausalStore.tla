--------------------------- MODULE MCCausalStore ---------------------------
(***************************************************************************)
(* CausalStore over module Ordering's three orderings.  An event is a record *)
(* of its key and its clock.  Every combination of the small sets below is   *)
(* an event a caller may write.                                              *)
(***************************************************************************)
EXTENDS GeometricStore

CONSTANTS
    Times, Places, Uncertainties, Nodes, MaxCount,  \* what clocks are made of
    Scheme                                          \* which ordering drives the store

k1 == "k1"
k2 == "k2"
MCKey == {k1, k2}
MCPlaces == {<<0, 0, 0>>, <<3, 0, 0>>}

GeoClock == [time_ns : Times, pos_nm : Places, u_ns : Uncertainties, vc : {<<>>}]
VectorClock == UNION {[S -> 0..MaxCount] : S \in SUBSET Nodes}
LogClock == [time_ns : {0}, pos_nm : {<<0, 0, 0>>}, u_ns : {0}, vc : VectorClock]

MCClock == IF Scheme = "geometric" THEN GeoClock ELSE LogClock

\* One event under the second key, for the claims that name another key's event.
OtherKeyEvent == [key |-> k2, clock |-> CHOOSE c \in MCClock : TRUE]
MCEvent == [key : {k1}, clock : MCClock] \cup {OtherKeyEvent}
MCKeyOf(e) == e.key
MCClockOf(e) == e.clock

\* The ordering's verdicts on the pairs of events, tabulated once.
BeforeTable ==
    {p \in MCEvent \X MCEvent :
       IF Scheme = "geometric" THEN GeoBefore(p[1].clock, p[2].clock)
                               ELSE LogBefore(p[1].clock, p[2].clock)}
ResolvesTable ==
    {p \in MCEvent \X MCEvent :
       Scheme = "geometric" => GeoResolves(p[1].clock, p[2].clock)}
MCBefore(a, b) == <<a, b>> \in BeforeTable
MCResolves(a, b) == <<a, b>> \in ResolvesTable

MCClaimSets == {{}} \cup {{e} : e \in MCEvent}

ASSUME OrderingIsStrict == StrictOrder
ASSUME OrderingIsGeometric == Scheme = "geometric" => OrderIsGeometric
=============================================================================
