---------------------------- MODULE CausalLedger ----------------------------
(***************************************************************************)
(* The causal ledger (horizon/ledger.py): events with a time and a place,     *)
(* edges that must pass the light-cone gate, a log of typed claims            *)
(* (edge_claims.py), and a lazily built adjacency index for the fast          *)
(* reachability query (reachability_cache.py).                                *)
(*                                                                           *)
(* A call with an unknown event id, or with a kind that is not a dependency   *)
(* kind, raises and changes nothing.                                          *)
(***************************************************************************)
EXTENDS LightCone, FiniteSets

CONSTANTS EventId, Times, Places,
          DependencyKinds,  \* EdgeKind.DEPENDENCY_KINDS
          NoIndex,          \* _adjacency_cache is None
          MaxClaims,        \* bound: the pairs with dependency claims
          MaxRejections     \* bound: the different pairs in the log of rejections

ASSUME TimesAssumption == Times \subseteq Int
ASSUME PlacesAssumption == Places \subseteq Point
ASSUME EventIdAssumption == IsFiniteSet(EventId)    \* the ids that one run uses
ASSUME KindsAssumption == "physical_admissibility" \notin DependencyKinds

VARIABLES events,       \* the recorded events: id -> time and place
          edges,        \* the admitted pairs
          rejections,   \* the pairs in the log of rejected edges
          edgeClaims,   \* how often each claim is in the log of claims
          index         \* _adjacency_cache

vars == <<events, edges, rejections, edgeClaims, index>>

Pair == EventId \X EventId
Kinds == DependencyKinds \cup {"physical_admissibility"}
Coordinates == [time_ns : Times, pos_nm : Places]

TypeOK ==
    /\ \E S \in SUBSET EventId : events \in [S -> Coordinates]
    /\ edges \subseteq Pair /\ rejections \subseteq Pair
    /\ edgeClaims \in [Pair \X Kinds -> Nat]
    /\ index = NoIndex \/ index \in [EventId -> SUBSET EventId]

Init ==
    /\ events = [e \in {} |-> <<>>]
    /\ edges = {} /\ rejections = {}
    /\ edgeClaims = [c \in Pair \X Kinds |-> 0]
    /\ index = NoIndex

---------------------------------------------------------------------------
InCone(a, b) == CausallyAdmissible(events[a].time_ns, events[a].pos_nm,
                                   events[b].time_ns, events[b].pos_nm)

\* A mutated form of MayFollow: simultaneous events pass the gate.
MayFollowClosed(a, b) == InCone(a, b)
\* add_edge's gate: strictly later, and in the light cone.
MayFollow(a, b) == events[b].time_ns > events[a].time_ns /\ InCone(a, b)

Concurrent(a, b) == ~InCone(a, b) /\ ~InCone(b, a)

Known == DOMAIN events

AddClaim(pair, kind) == [edgeClaims EXCEPT ![<<pair, kind>>] = @ + 1]

IsNewEvent(e) == e \notin Known

AddEvent(e, t, p) ==
    /\ IsNewEvent(e)
    /\ events' = [x \in Known \cup {e} |->
                    IF x = e THEN [time_ns |-> t, pos_nm |-> p] ELSE events[x]]
    /\ UNCHANGED <<edges, rejections, edgeClaims, index>>

IsNewEdge(a, b) == <<a, b>> \notin edges

\* A mutated form of IndexAfterEdge: the index is not invalidated.
IndexKept == index
IndexAfterEdge == NoIndex

AdmitEdge(a, b) ==
    /\ MayFollow(a, b)
    /\ edges' = edges \cup {<<a, b>>}
    /\ IF IsNewEdge(a, b)
       THEN /\ edgeClaims' = AddClaim(<<a, b>>, "physical_admissibility")
            /\ index' = IndexAfterEdge
       ELSE UNCHANGED <<edgeClaims, index>>
    /\ UNCHANGED <<events, rejections>>

RejectEdge(a, b) ==
    /\ ~MayFollow(a, b)
    /\ rejections' = rejections \cup {<<a, b>>}
    /\ Cardinality(rejections') <= MaxRejections
    /\ UNCHANGED <<events, edges, edgeClaims, index>>

AddEdge(a, b) == AdmitEdge(a, b) \/ RejectEdge(a, b)

\* A dependency-type claim was recorded for the pair.
has_observed_dependency(a, b) ==
    \E kind \in DependencyKinds : edgeClaims[<<<<a, b>>, kind>>] > 0

AddDependencyClaim(a, b, kind) ==
    /\ Cardinality({p \in Pair : has_observed_dependency(p[1], p[2])}) < MaxClaims
    /\ edgeClaims' = AddClaim(<<a, b>>, kind)
    /\ UNCHANGED <<events, edges, rejections, index>>

Adjacency(E) == [u \in EventId |-> {v \in EventId : <<u, v>> \in E}]

\* The only effect of precedes_fast: it builds the index when there is none.
BuildIndex ==
    /\ index = NoIndex
    /\ index' = Adjacency(edges)
    /\ UNCHANGED <<events, edges, rejections, edgeClaims>>

Next ==
    \/ \E e \in EventId, t \in Times, p \in Places : AddEvent(e, t, p)
    \/ \E a, b \in Known :
         \/ AddEdge(a, b)
         \/ \E kind \in DependencyKinds : AddDependencyClaim(a, b, kind)
    \/ BuildIndex

Spec == Init /\ [][Next]_vars

---------------------------------------------------------------------------
(* The queries *)

\* What a search from a that follows the index adj reaches.
Search(adj, a) ==
    LET reached[n \in Nat] ==
          IF n = 0 THEN adj[a]
          ELSE reached[n - 1] \cup UNION {adj[v] : v \in reached[n - 1]}
    IN  reached[Cardinality(EventId)]

precedes(a, b) == b \in Search(Adjacency(edges), a)

precedes_fast(a, b) ==
    a # b /\ b \in Search(IF index = NoIndex THEN Adjacency(edges) ELSE index, a)

---------------------------------------------------------------------------
(* Properties *)

Transitive(R) == \A a, b, c \in EventId : <<a, b>> \in R /\ <<b, c>> \in R => <<a, c>> \in R

\* b is reachable from a through admitted edges: the pair is in every transitive
\* relation that has the edges.
Reachable(a, b) == \A R \in SUBSET Pair : edges \subseteq R /\ Transitive(R) => <<a, b>> \in R

\* A chain of admitted edges, however long, is a possible influence: its end is
\* strictly later than its start and in the start's light cone.  So the edges
\* never close a cycle, and the ledger fabricates no order by composing edges.
ReachableIsInfluence ==
    \A a, b \in Known : Reachable(a, b) => events[a].time_ns < events[b].time_ns /\ InCone(a, b)

\* The ledger's views of its edges agree at all times, whatever was added since
\* the index was built: both queries are reachability, and the physical claims and
\* the admitted edges are one to one, since retries and dependency claims add none.
QueriesAgree ==
    /\ \A a, b \in Known : /\ precedes(a, b) <=> Reachable(a, b)
                           /\ precedes_fast(a, b) <=> precedes(a, b)
    /\ \A p \in Pair : edgeClaims[<<p, "physical_admissibility">>] = IF p \in edges THEN 1 ELSE 0

\* The gate's verdict on a pair is final: no pair is ever both admitted and in
\* the log of rejections, because what is recorded of an event never changes.
VerdictsAreFinal == edges \cap rejections = {}
=============================================================================
