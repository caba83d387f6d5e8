------------------------- MODULE CausalLedgerProofs -------------------------
(***************************************************************************)
(* Proofs about the causal ledger and the provenance-aware memory, for every   *)
(* set of events, times, places and bodies, and for the memory every ordering  *)
(* that is a strict partial order.                                           *)
(***************************************************************************)
EXTENDS CausalLedger, CausalMemory, LightConeProofs, FiniteSetTheorems

\* What each logged verdict says of the recorded events: the admitted pairs pass
\* the gate, the rejected ones do not.
VerdictsHold ==
    /\ \A p \in edges : p[1] \in Known /\ p[2] \in Known /\ MayFollow(p[1], p[2])
    /\ \A p \in rejections : p[1] \in Known /\ p[2] \in Known /\ ~MayFollow(p[1], p[2])

LedgerInv == TypeOK /\ VerdictsHold

\* The ledger is well typed in every state: the events have their coordinates,
\* the logs are about pairs of ids, and an index maps ids to sets of ids.
THEOREM LedgerTypeCorrect == Spec => []TypeOK
<1>1. Init => TypeOK
  <2> SUFFICES ASSUME Init PROVE TypeOK
    OBVIOUS
  <2>1. events \in [{} -> Coordinates]
    BY DEF Init
  <2>2. edgeClaims \in [Pair \X Kinds -> Nat]
    BY DEF Init
  <2> QED
    BY <2>1, <2>2 DEF Init, TypeOK
<1>2. TypeOK /\ [Next]_vars => TypeOK'
  <2> SUFFICES ASSUME TypeOK, [Next]_vars PROVE TypeOK'
    OBVIOUS
  <2> USE DEF TypeOK
  <2>1. ASSUME NEW pair \in Pair, NEW kind \in Kinds
        PROVE  AddClaim(pair, kind) \in [Pair \X Kinds -> Nat]
    BY <2>1 DEF AddClaim
  <2>2. ASSUME NEW e \in EventId, NEW t \in Times, NEW p \in Places, AddEvent(e, t, p)
        PROVE  TypeOK'
    <3>1. PICK S \in SUBSET EventId : events \in [S -> Coordinates]
      OBVIOUS
    <3>2. events' \in [S \cup {e} -> Coordinates]
      BY <2>2, <3>1 DEF AddEvent, Known, Coordinates
    <3>3. S \cup {e} \in SUBSET EventId
      BY <3>1
    <3> QED
      BY <2>2, <3>2, <3>3 DEF AddEvent
  <2>3. ASSUME NEW a \in Known, NEW b \in Known, AdmitEdge(a, b)
        PROVE  TypeOK'
    <3>1. <<a, b>> \in Pair
      BY DEF Known, Pair
    <3>2. "physical_admissibility" \in Kinds
      BY DEF Kinds
    <3> QED
      BY <2>3, <2>1, <3>1, <3>2 DEF AdmitEdge, IndexAfterEdge
  <2>4. ASSUME NEW a \in Known, NEW b \in Known, RejectEdge(a, b)
        PROVE  TypeOK'
    BY <2>4 DEF RejectEdge, Known, Pair
  <2>5. ASSUME NEW a \in Known, NEW b \in Known, NEW kind \in DependencyKinds,
               AddDependencyClaim(a, b, kind)
        PROVE  TypeOK'
    <3>1. <<a, b>> \in Pair /\ kind \in Kinds
      BY DEF Known, Pair, Kinds
    <3> QED
      BY <2>5, <2>1, <3>1 DEF AddDependencyClaim
  <2>6. CASE BuildIndex
    BY <2>6 DEF BuildIndex, Adjacency
  <2>7. CASE UNCHANGED vars
    BY <2>7 DEF vars
  <2> QED
    BY <2>2, <2>3, <2>4, <2>5, <2>6, <2>7 DEF Next, AddEdge
<1> QED
  BY <1>1, <1>2, PTL DEF Spec

\* The gate's answer for two recorded events depends on nothing a later call can
\* change.
LEMMA GateIsStable ==
    ASSUME VerdictsHold, \A x \in Known : x \in Known' /\ events'[x] = events[x]
    PROVE  \A a, b \in Known : MayFollow(a, b)' = MayFollow(a, b)
  BY DEF MayFollow, InCone

\* Every verdict in the logs stays true of the recorded events.
LEMMA VerdictsStep ==
    ASSUME TypeOK, VerdictsHold, [Next]_vars
    PROVE  VerdictsHold'
<1> USE DEF VerdictsHold
<1>1. ASSUME NEW e \in EventId, NEW t \in Times, NEW p \in Places, AddEvent(e, t, p)
      PROVE  VerdictsHold'
  <2>1. \A x \in Known : x \in Known' /\ events'[x] = events[x]
    BY <1>1 DEF AddEvent, Known, IsNewEvent
  <2> QED
    BY <1>1, <2>1, GateIsStable DEF AddEvent
<1>2. ASSUME NEW a \in Known, NEW b \in Known, AddEdge(a, b)
      PROVE  VerdictsHold'
  <2>1. events' = events
    BY <1>2 DEF AddEdge, AdmitEdge, RejectEdge
  <2>2. Known' = Known /\ \A x, y \in Known : MayFollow(x, y)' = MayFollow(x, y)
    BY <2>1 DEF Known, MayFollow, InCone
  <2>3. /\ edges' \subseteq edges \cup {<<a, b>>}
        /\ <<a, b>> \in edges' \ edges => MayFollow(a, b)
    BY <1>2 DEF AddEdge, AdmitEdge, RejectEdge
  <2>4. /\ rejections' \subseteq rejections \cup {<<a, b>>}
        /\ <<a, b>> \in rejections' \ rejections => ~MayFollow(a, b)
    BY <1>2 DEF AddEdge, AdmitEdge, RejectEdge
  <2> QED
    BY <2>2, <2>3, <2>4
<1>3. CASE UNCHANGED <<events, edges, rejections>>
  BY <1>3 DEF Known, MayFollow, InCone
<1> QED
  BY <1>1, <1>2, <1>3 DEF Next, vars, AddDependencyClaim, BuildIndex

\* The type invariant and the truth of the logged verdicts hold together.
THEOREM LedgerInvariance == Spec => []LedgerInv
<1>1. Init => VerdictsHold
  BY DEF Init, VerdictsHold
<1>2. TypeOK /\ VerdictsHold /\ [Next]_vars => VerdictsHold'
  BY VerdictsStep
<1> QED
  BY <1>1, <1>2, LedgerTypeCorrect, PTL DEF Spec, LedgerInv

\* No pair is both admitted and logged as rejected.
THEOREM VerdictsAreFinalHolds == Spec => []VerdictsAreFinal
<1>1. LedgerInv => VerdictsAreFinal
  BY DEF LedgerInv, VerdictsHold, VerdictsAreFinal
<1> QED
  BY <1>1, LedgerInvariance, PTL

\* A chain of admitted edges of any length is a possible influence: the pairs
\* that pass the gate are a transitive relation that has the edges.
THEOREM ReachableIsInfluenceHolds == Spec => []ReachableIsInfluence
<1>1. ASSUME LedgerInv PROVE ReachableIsInfluence
  <2> DEFINE R == {p \in Pair : p[1] \in Known /\ p[2] \in Known /\ MayFollow(p[1], p[2])}
  <2>1. R \in SUBSET Pair
    OBVIOUS
  <2>2. edges \subseteq R
    BY <1>1 DEF LedgerInv, TypeOK, VerdictsHold
  <2>3. \A e \in Known : events[e].time_ns \in Int /\ events[e].pos_nm \in Point
    BY <1>1, TimesAssumption, PlacesAssumption DEF LedgerInv, TypeOK, Known, Coordinates
  <2>4. ASSUME NEW a \in Known, NEW b \in Known, NEW c \in Known,
               MayFollow(a, b), MayFollow(b, c)
        PROVE  MayFollow(a, c)
    <3>1. events[a].time_ns < events[c].time_ns
      BY <2>3, <2>4 DEF MayFollow
    <3>2. InCone(a, c)
      BY <2>3, <2>4, AdmissibleTransitive DEF MayFollow, InCone
    <3> QED
      BY <3>1, <3>2, <2>3 DEF MayFollow
  <2>5. Transitive(R)
    <3> SUFFICES ASSUME NEW a \in EventId, NEW b \in EventId, NEW c \in EventId,
                        <<a, b>> \in R, <<b, c>> \in R
                 PROVE  <<a, c>> \in R
      BY DEF Transitive
    <3>1. a \in Known /\ b \in Known /\ c \in Known /\ MayFollow(a, b) /\ MayFollow(b, c)
      OBVIOUS
    <3> QED
      BY <3>1, <2>4 DEF Pair
  <2>6. ASSUME NEW a \in Known, NEW b \in Known, Reachable(a, b)
        PROVE  events[a].time_ns < events[b].time_ns /\ InCone(a, b)
    <3>1. <<a, b>> \in R
      BY <2>1, <2>2, <2>5, <2>6 DEF Reachable
    <3> QED
      BY <3>1, <2>3 DEF MayFollow
  <2> QED
    BY <2>6 DEF ReachableIsInfluence
<1> QED
  BY <1>1, LedgerInvariance, PTL

---------------------------------------------------------------------------
(* The queries *)

\* The set that one more round of the search reaches.
Wider(adj, S) == S \cup UNION {adj[v] : v \in S}

\* The rounds of the search: f[n] is what n rounds reach.
IsRounds(adj, a, f) ==
    /\ f \in [Nat -> SUBSET EventId] /\ f[0] = adj[a]
    /\ \A n \in Nat : f[n + 1] = Wider(adj, f[n])

\* What the recursive definition of Search denotes.
LEMMA SearchRounds ==
    ASSUME NEW adj \in [EventId -> SUBSET EventId], NEW a \in EventId
    PROVE  \E f : IsRounds(adj, a, f) /\ Search(adj, a) = f[Cardinality(EventId)]
<1> DEFINE G == [S \in SUBSET EventId |-> Wider(adj, S)]
           IsReached(f) == f = [n \in Nat |-> IF n = 0 THEN adj[a]
                                              ELSE f[n - 1] \cup UNION {adj[v] : v \in f[n - 1]}]
           reached == CHOOSE f : IsReached(f)
<1>1. G \in [SUBSET EventId -> SUBSET EventId]
  BY DEF Wider
<1>2. \A S \in SUBSET EventId : G[S] = Wider(adj, S)
  OBVIOUS
<1>3. Search(adj, a) = reached[Cardinality(EventId)]
  BY DEF Search
<1> HIDE DEF G
<1>4. PICK f : IsIteration(SUBSET EventId, G, adj[a], f)
  <2>1. adj[a] \in SUBSET EventId
    OBVIOUS
  <2> QED
    BY <1>1, <2>1, IterationExists
<1>5. IsRounds(adj, a, f)
  BY <1>2, <1>4 DEF IsIteration, IsRounds
<1>6. IsReached(f)
  <2>1. ASSUME NEW n \in Nat
        PROVE  f[n] = IF n = 0 THEN adj[a] ELSE f[n - 1] \cup UNION {adj[v] : v \in f[n - 1]}
    <3>1. CASE n = 0
      BY <1>5, <3>1 DEF IsRounds
    <3>2. CASE n # 0
      <4>1. n - 1 \in Nat /\ (n - 1) + 1 = n
        BY <3>2
      <4>2. f[(n - 1) + 1] = Wider(adj, f[n - 1])
        BY <1>5, <4>1 DEF IsRounds
      <4> QED
        BY <3>2, <4>1, <4>2 DEF Wider
    <3> QED
      BY <3>1, <3>2
  <2>2. f = [n \in Nat |-> f[n]]
    BY <1>5 DEF IsRounds
  <2> QED
    BY <2>1, <2>2
<1>7. IsReached(reached)
  <2> HIDE DEF IsReached
  <2> QED
    BY <1>6
<1> HIDE DEF reached
<1>8. \A n \in Nat : reached[n] = IF n = 0 THEN adj[a] ELSE Wider(adj, reached[n - 1])
  BY <1>7 DEF Wider
<1> HIDE DEF IsReached
<1>9. ASSUME NEW n \in Nat PROVE reached[n] = f[n]
  <2> DEFINE Off == {i \in Nat : reached[i] # f[i]}
  <2> SUFFICES ASSUME Off # {} PROVE FALSE
    OBVIOUS
  <2>1. Off \in SUBSET Nat
    OBVIOUS
  <2> HIDE DEF Off
  <2>2. PICK m \in Off : \A k \in Off : m <= k
    BY <2>1, SmallestOf
  <2>3. m \in Nat /\ reached[m] # f[m]
    BY <2>2 DEF Off
  <2>4. m # 0
    BY <1>5, <1>8, <2>3 DEF IsRounds
  <2>5. m - 1 \in Nat /\ (m - 1) + 1 = m /\ ~(m <= m - 1)
    BY <2>3, <2>4
  <2>6. reached[m - 1] = f[m - 1]
    BY <2>2, <2>5 DEF Off
  <2>7. f[(m - 1) + 1] = Wider(adj, f[m - 1])
    BY <1>5, <2>5 DEF IsRounds
  <2> QED
    BY <1>8, <2>3, <2>4, <2>5, <2>6, <2>7
<1>10. Cardinality(EventId) \in Nat
  BY EventIdAssumption, FS_CardinalityType
<1> QED
  BY <1>3, <1>5, <1>9, <1>10

\* After as many rounds as there are ids the search has found everything: what it
\* returns is closed under the edges.
LEMMA SearchIsClosed ==
    ASSUME NEW adj \in [EventId -> SUBSET EventId], NEW a \in EventId
    PROVE  /\ Search(adj, a) \in SUBSET EventId /\ adj[a] \subseteq Search(adj, a)
           /\ \A v \in Search(adj, a) : adj[v] \subseteq Search(adj, a)
<1>1. PICK f : IsRounds(adj, a, f) /\ Search(adj, a) = f[Cardinality(EventId)]
  BY SearchRounds
<1> DEFINE N == Cardinality(EventId)
<1>2. N \in Nat
  BY EventIdAssumption, FS_CardinalityType
<1>3. \A n \in Nat : f[n] \in SUBSET EventId /\ f[n + 1] = Wider(adj, f[n]) /\ f[n] \subseteq f[n + 1]
  BY <1>1 DEF IsRounds, Wider
<1>4. f[0] = adj[a] /\ Search(adj, a) = f[N]
  BY <1>1 DEF IsRounds
<1>5. \A n \in Nat : IsFiniteSet(f[n]) /\ Cardinality(f[n]) \in Nat /\ Cardinality(f[n]) <= N
  BY <1>3, EventIdAssumption, FS_Subset, FS_CardinalityType
<1> HIDE DEF N
\* Nothing is lost from a round to a later one.
<1>6. ASSUME NEW n \in Nat PROVE f[0] \subseteq f[n]
  <2> DEFINE Off == {i \in Nat : ~(f[0] \subseteq f[i])}
  <2> SUFFICES ASSUME Off # {} PROVE FALSE
    OBVIOUS
  <2>1. Off \in SUBSET Nat
    OBVIOUS
  <2> HIDE DEF Off
  <2>2. PICK m \in Off : \A k \in Off : m <= k
    BY <2>1, SmallestOf
  <2>3. m \in Nat /\ ~(f[0] \subseteq f[m])
    BY <2>2 DEF Off
  <2>4. m # 0
    BY <2>3
  <2>5. m - 1 \in Nat /\ (m - 1) + 1 = m /\ ~(m <= m - 1)
    BY <2>3, <2>4
  <2>6. f[0] \subseteq f[m - 1]
    BY <2>2, <2>5 DEF Off
  <2>7. f[m - 1] \subseteq f[(m - 1) + 1]
    BY <1>3, <2>5
  <2> QED
    BY <2>3, <2>5, <2>6, <2>7
\* A round that adds nothing is followed by rounds that add nothing.
<1>7. ASSUME NEW n \in Nat, f[n + 1] = f[n] PROVE f[(n + 1) + 1] = f[n + 1]
  BY <1>3, <1>7
\* As long as every round adds something, n rounds have found n ids.
<1>8. ASSUME NEW n \in Nat PROVE n <= Cardinality(f[n]) \/ f[n + 1] = f[n]
  <2> DEFINE Off == {i \in Nat : ~(i <= Cardinality(f[i]) \/ f[i + 1] = f[i])}
  <2> SUFFICES ASSUME Off # {} PROVE FALSE
    OBVIOUS
  <2>1. Off \in SUBSET Nat
    OBVIOUS
  <2> HIDE DEF Off
  <2>2. PICK m \in Off : \A k \in Off : m <= k
    BY <2>1, SmallestOf
  <2>3. m \in Nat /\ ~(m <= Cardinality(f[m])) /\ f[m + 1] # f[m]
    BY <2>2 DEF Off
  <2>4. m # 0
    BY <1>5, <2>3
  <2>5. m - 1 \in Nat /\ (m - 1) + 1 = m /\ ~(m <= m - 1)
    BY <2>3, <2>4
  <2>6. m - 1 <= Cardinality(f[m - 1]) \/ f[(m - 1) + 1] = f[m - 1]
    BY <2>2, <2>5 DEF Off
  <2>7. f[m] # f[m - 1]
    <3> SUFFICES ASSUME f[(m - 1) + 1] = f[m - 1] PROVE f[m + 1] = f[m]
      BY <2>3, <2>5
    <3>1. f[((m - 1) + 1) + 1] = f[(m - 1) + 1]
      BY <1>7, <2>5
    <3> QED
      BY <2>5, <3>1
  <2>8. m - 1 <= Cardinality(f[m - 1])
    BY <2>5, <2>6, <2>7
  <2>9. f[m - 1] \subseteq f[m] /\ f[m - 1] # f[m]
    BY <1>3, <2>5, <2>7
  <2>10. Cardinality(f[m - 1]) < Cardinality(f[m])
    BY <1>5, <2>3, <2>5, <2>9, FS_Subset
  <2> QED
    BY <1>5, <2>3, <2>5, <2>8, <2>10
<1>9. f[N + 1] = f[N]
  <2>1. CASE N <= Cardinality(f[N])
    <3>1. Cardinality(f[N]) = Cardinality(EventId)
      BY <1>2, <1>5, <2>1 DEF N
    <3>2. f[N] = EventId
      BY <1>2, <1>3, <3>1, EventIdAssumption, FS_Subset
    <3>3. N + 1 \in Nat /\ f[N] \subseteq f[N + 1]
      BY <1>2, <1>3
    <3>4. f[N + 1] \in SUBSET EventId
      BY <1>3, <3>3
    <3> QED
      BY <3>2, <3>3, <3>4
  <2> QED
    BY <1>2, <1>8, <2>1
<1>10. \A v \in f[N] : adj[v] \subseteq f[N]
  <2>1. f[N] = Wider(adj, f[N])
    BY <1>2, <1>3, <1>9
  <2> QED
    BY <2>1 DEF Wider
<1> QED
  BY <1>2, <1>3, <1>4, <1>6, <1>10

\* What the search returns is in every set that has the first round and is closed
\* under the edges.
LEMMA SearchIsLeast ==
    ASSUME NEW adj \in [EventId -> SUBSET EventId], NEW a \in EventId,
           NEW T, adj[a] \subseteq T, \A v \in T \cap EventId : adj[v] \subseteq T
    PROVE  Search(adj, a) \subseteq T
<1>1. PICK f : IsRounds(adj, a, f) /\ Search(adj, a) = f[Cardinality(EventId)]
  BY SearchRounds
<1>2. Cardinality(EventId) \in Nat
  BY EventIdAssumption, FS_CardinalityType
<1>3. ASSUME NEW n \in Nat PROVE f[n] \subseteq T
  <2> DEFINE Off == {i \in Nat : ~(f[i] \subseteq T)}
  <2> SUFFICES ASSUME Off # {} PROVE FALSE
    OBVIOUS
  <2>1. Off \in SUBSET Nat
    OBVIOUS
  <2> HIDE DEF Off
  <2>2. PICK m \in Off : \A k \in Off : m <= k
    BY <2>1, SmallestOf
  <2>3. m \in Nat /\ ~(f[m] \subseteq T)
    BY <2>2 DEF Off
  <2>4. m # 0
    BY <1>1, <2>3 DEF IsRounds
  <2>5. m - 1 \in Nat /\ (m - 1) + 1 = m /\ ~(m <= m - 1)
    BY <2>3, <2>4
  <2>6. f[m - 1] \subseteq T /\ f[m - 1] \subseteq EventId
    BY <1>1, <2>2, <2>5 DEF Off, IsRounds
  <2>7. f[(m - 1) + 1] = Wider(adj, f[m - 1])
    BY <1>1, <2>5 DEF IsRounds
  <2> QED
    BY <2>3, <2>5, <2>6, <2>7 DEF Wider
<1> QED
  BY <1>1, <1>2, <1>3

\* The search over the adjacency of the edges is reachability.
THEOREM SearchIsReachability ==
    ASSUME edges \subseteq Pair, NEW a \in EventId, NEW b \in EventId
    PROVE  precedes(a, b) <=> Reachable(a, b)
<1> DEFINE adj == Adjacency(edges)
<1>1. adj \in [EventId -> SUBSET EventId] /\ \A u \in EventId : adj[u] = {v \in EventId : <<u, v>> \in edges}
  BY DEF Adjacency
<1> HIDE DEF adj
<1>2. ASSUME b \in Search(adj, a), NEW R \in SUBSET Pair, edges \subseteq R, Transitive(R)
      PROVE  <<a, b>> \in R
  <2> DEFINE T == {v \in EventId : <<a, v>> \in R}
  <2>1. adj[a] \subseteq T
    BY <1>1, <1>2
  <2>2. ASSUME NEW v \in T \cap EventId, NEW w \in adj[v] PROVE w \in T
    <3>1. <<a, v>> \in R /\ <<v, w>> \in R /\ w \in EventId
      BY <1>1, <1>2
    <3> QED
      BY <1>2, <3>1 DEF Transitive
  <2> HIDE DEF T
  <2>3. b \in T
    BY <1>1, <1>2, <2>1, <2>2, SearchIsLeast
  <2> QED
    BY <2>3 DEF T
<1>3. ASSUME Reachable(a, b) PROVE b \in Search(adj, a)
  <2> DEFINE R == {p \in Pair : p[2] \in Search(adj, p[1])}
  <2>1. R \in SUBSET Pair
    OBVIOUS
  <2>2. \A u \in EventId : adj[u] \subseteq Search(adj, u) /\ Search(adj, u) \in SUBSET EventId
    BY <1>1, SearchIsClosed
  <2>3. edges \subseteq R
    <3> SUFFICES ASSUME NEW p \in edges PROVE p \in R
      OBVIOUS
    <3>1. p \in Pair /\ p = <<p[1], p[2]>> /\ p[1] \in EventId /\ p[2] \in EventId
      BY DEF Pair
    <3>2. p[2] \in adj[p[1]]
      BY <1>1, <3>1
    <3> QED
      BY <2>2, <3>1, <3>2
  <2>4. ASSUME NEW x \in EventId, NEW y \in EventId, y \in Search(adj, x)
        PROVE  Search(adj, y) \subseteq Search(adj, x)
    <3>1. \A v \in Search(adj, x) : adj[v] \subseteq Search(adj, x)
      BY <1>1, SearchIsClosed
    <3>2. adj[y] \subseteq Search(adj, x)
      BY <2>4, <3>1
    <3> QED
      BY <1>1, <3>1, <3>2, SearchIsLeast
  <2>5. Transitive(R)
    <3> SUFFICES ASSUME NEW x \in EventId, NEW y \in EventId, NEW z \in EventId,
                        <<x, y>> \in R, <<y, z>> \in R
                 PROVE  <<x, z>> \in R
      BY DEF Transitive
    <3>1. y \in Search(adj, x) /\ z \in Search(adj, y)
      OBVIOUS
    <3>2. z \in Search(adj, x)
      BY <2>4, <3>1
    <3> QED
      BY <3>2 DEF Pair
  <2>6. <<a, b>> \in R
    BY <1>3, <2>1, <2>3, <2>5 DEF Reachable
  <2> QED
    BY <2>6
<1>4. precedes(a, b) <=> b \in Search(adj, a)
  BY DEF precedes, adj
<1>5. b \in Search(adj, a) => Reachable(a, b)
  BY <1>2 DEF Reachable
<1> QED
  BY <1>3, <1>4, <1>5

\* The index, when there is one, is that of the present edges, and every edge was
\* claimed physical once, whatever was retried or claimed besides.
ViewsInv ==
    /\ index = NoIndex \/ index = Adjacency(edges)
    /\ \A p \in Pair : edgeClaims[<<p, "physical_admissibility">>] = IF p \in edges THEN 1 ELSE 0

LEMMA ViewsStep == ASSUME TypeOK, ViewsInv, [Next]_vars PROVE ViewsInv'
<1> DEFINE phys == "physical_admissibility"
<1>1. /\ edgeClaims \in [Pair \X Kinds -> Nat] /\ phys \in Kinds
      /\ \A p \in Pair : <<p, phys>> \in Pair \X Kinds
  BY DEF TypeOK, Kinds
<1>2. ASSUME NEW a \in Known, NEW b \in Known, AdmitEdge(a, b) PROVE ViewsInv'
  <2>1. <<a, b>> \in Pair
    BY DEF TypeOK, Known, Pair
  <2>2. edges' = edges \cup {<<a, b>>}
    BY <1>2 DEF AdmitEdge
  <2>3. CASE IsNewEdge(a, b)
    <3>1. /\ edgeClaims' = [edgeClaims EXCEPT ![<<<<a, b>>, phys>>] = @ + 1] /\ index' = NoIndex
          /\ <<a, b>> \notin edges
      BY <1>2, <2>3 DEF AdmitEdge, AddClaim, IndexAfterEdge, IsNewEdge
    <3>2. edgeClaims'[<<<<a, b>>, phys>>] = 1
      BY <1>1, <2>1, <3>1 DEF ViewsInv
    <3>3. \A p \in Pair : p # <<a, b>> => edgeClaims'[<<p, phys>>] = edgeClaims[<<p, phys>>]
      BY <1>1, <3>1
    <3> QED
      BY <2>2, <3>1, <3>2, <3>3 DEF ViewsInv
  <2>4. CASE ~IsNewEdge(a, b)
    <3>1. edges' = edges /\ edgeClaims' = edgeClaims /\ index' = index
      BY <1>2, <2>2, <2>4 DEF AdmitEdge, IsNewEdge
    <3> QED
      BY <3>1 DEF ViewsInv
  <2> QED
    BY <2>3, <2>4
<1>3. ASSUME NEW a \in Known, NEW b \in Known, NEW kind \in DependencyKinds,
             AddDependencyClaim(a, b, kind)
      PROVE  ViewsInv'
  <2>1. /\ edgeClaims' = [edgeClaims EXCEPT ![<<<<a, b>>, kind>>] = @ + 1]
        /\ edges' = edges /\ index' = index
    BY <1>3 DEF AddDependencyClaim, AddClaim
  <2>2. kind # phys
    BY KindsAssumption
  <2>3. \A p \in Pair : edgeClaims'[<<p, phys>>] = edgeClaims[<<p, phys>>]
    BY <1>1, <2>1, <2>2
  <2> QED
    BY <2>1, <2>3 DEF ViewsInv
<1>4. CASE BuildIndex
  BY <1>4 DEF BuildIndex, ViewsInv
<1>5. CASE UNCHANGED <<edges, edgeClaims, index>>
  BY <1>5 DEF ViewsInv
<1> QED
  BY <1>2, <1>3, <1>4, <1>5 DEF Next, vars, AddEdge, AddEvent, RejectEdge

THEOREM ViewsInvariance == Spec => []ViewsInv
<1>1. Init => ViewsInv
  <2> SUFFICES ASSUME Init PROVE ViewsInv
    OBVIOUS
  <2>1. \A p \in Pair : <<p, "physical_admissibility">> \in Pair \X Kinds
    BY DEF Kinds
  <2> QED
    BY <2>1 DEF Init, ViewsInv
<1>2. TypeOK /\ ViewsInv /\ [Next]_vars => ViewsInv'
  BY ViewsStep
<1> QED
  BY <1>1, <1>2, LedgerTypeCorrect, PTL DEF Spec

\* ledger.py: both queries are reachability through the admitted edges, whatever
\* was added since the index was built, and the claims of physical admissibility
\* and the edges are one to one.
THEOREM QueriesAgreeHolds == Spec => []QueriesAgree
<1>1. ASSUME LedgerInv, ViewsInv, ReachableIsInfluence PROVE QueriesAgree
  <2>1. edges \subseteq Pair /\ Known \subseteq EventId
    BY <1>1 DEF LedgerInv, TypeOK, Known
  <2>2. ASSUME NEW a \in Known, NEW b \in Known
        PROVE  (precedes(a, b) <=> Reachable(a, b)) /\ (precedes_fast(a, b) <=> precedes(a, b))
    <3>1. precedes(a, b) <=> Reachable(a, b)
      BY <2>1, SearchIsReachability
    <3>2. precedes_fast(a, b) <=> a # b /\ precedes(a, b)
      BY <1>1 DEF precedes_fast, precedes, ViewsInv
    <3>3. a = b => ~Reachable(a, b)
      <4>1. events[a].time_ns \in Int
        BY <1>1, TimesAssumption DEF LedgerInv, TypeOK, Known, Coordinates
      <4>2. Reachable(a, b) => events[a].time_ns < events[b].time_ns
        BY <1>1 DEF ReachableIsInfluence
      <4> QED
        BY <4>1, <4>2
    <3> QED
      BY <3>1, <3>2, <3>3
  <2> QED
    BY <1>1, <2>2 DEF QueriesAgree, ViewsInv
<1> QED
  BY <1>1, LedgerInvariance, ViewsInvariance, ReachableIsInfluenceHolds, PTL

---------------------------------------------------------------------------
(* The memory *)

\* The recorded writes claim recorded writes of their causal past only, and each
\* is current or is followed by a current one of its key.
ClaimsAreCausal ==
    \A w \in writes : /\ w.body \in Body /\ w.preds \subseteq writes
                      /\ \A p \in w.preds : Before(p.body, w.body)

SomeCurrentFollows ==
    \A w \in writes : \E f \in Frontier(KeyOf(w.body)) : f = w \/ Before(w.body, f.body)

MemInv == IsFiniteSet(writes) /\ ClaimsAreCausal /\ SomeCurrentFollows

\* What recording a write does to the current writes: it is current, it replaces
\* no other than those of its key that it claims, and it brings back none.
LEMMA RecordedFrontier ==
    ASSUME ClaimsAreCausal, NEW b \in Body, NEW preds, NEW w, w = NewWrite(b, preds),
           w \notin writes, writes' = writes \cup {w}, preds \subseteq writes
    PROVE  /\ w \in Frontier(KeyOf(b))'
           /\ \A k : Frontier(k)' \subseteq Frontier(k) \cup {w}
           /\ \A k : \A f \in Frontier(k) :
                f \in Frontier(k)' <=> ~(KeyOf(b) = k /\ f \in preds)
<1>1. w.body = b /\ w.preds = preds
  BY DEF NewWrite
<1>2. \A k, x : x \in WritesFor(k)' <=> (x \in WritesFor(k) \/ (x = w /\ KeyOf(b) = k))
  BY <1>1 DEF WritesFor
<1>3. \A k, x : x \in WritesFor(k) => x \in writes /\ KeyOf(x.body) = k
  BY DEF WritesFor
<1>4. ~Superseded(w)'
  <2> SUFFICES ASSUME NEW o \in WritesFor(KeyOf(w.body))', o # w, w \in o.preds PROVE FALSE
    BY DEF Superseded
  <2>1. o \in writes
    BY <1>2, <1>3
  <2> QED
    BY <2>1 DEF ClaimsAreCausal
<1>5. w \in Frontier(KeyOf(b))'
  BY <1>1, <1>2, <1>4 DEF Frontier
<1>6. ASSUME NEW x \in writes
      PROVE  Superseded(x)' <=> Superseded(x) \/ (KeyOf(b) = KeyOf(x.body) /\ x \in preds)
  <2>1. Superseded(x)' <=> \E o \in WritesFor(KeyOf(x.body))' \ {x} : x \in o.preds
    BY DEF Superseded
  <2>2. Superseded(x) <=> \E o \in WritesFor(KeyOf(x.body)) \ {x} : x \in o.preds
    BY DEF Superseded
  <2>3. w # x
    OBVIOUS
  <2> QED
    BY <1>1, <1>2, <2>1, <2>2, <2>3
<1>7. ASSUME NEW k, NEW f \in Frontier(k)' PROVE f \in Frontier(k) \cup {w}
  <2> SUFFICES ASSUME f # w PROVE f \in Frontier(k)
    OBVIOUS
  <2>1. f \in WritesFor(k)' /\ ~Superseded(f)'
    BY DEF Frontier
  <2>2. f \in WritesFor(k) /\ f \in writes
    BY <1>2, <1>3, <2>1
  <2> QED
    BY <1>6, <2>1, <2>2 DEF Frontier
<1>8. ASSUME NEW k, NEW f \in Frontier(k)
      PROVE  f \in Frontier(k)' <=> ~(KeyOf(b) = k /\ f \in preds)
  <2>1. f \in WritesFor(k) /\ ~Superseded(f) /\ f \in writes /\ KeyOf(f.body) = k
    BY <1>3 DEF Frontier
  <2>2. f \in WritesFor(k)'
    BY <1>2, <2>1
  <2> QED
    BY <1>6, <2>1, <2>2 DEF Frontier
<1> QED
  BY <1>5, <1>7, <1>8

\* The current writes are recorded writes of their key.
LEMMA CurrentIsRecorded == ASSUME NEW k, NEW f \in Frontier(k) PROVE f \in writes /\ KeyOf(f.body) = k
  BY DEF Frontier, WritesFor

\* A write without bad claims keeps the invariant.
LEMMA RecordKeepsInv ==
    ASSUME MemInv, NEW call, NEW b \in Body, NEW preds, Record(call, NewWrite(b, preds))
    PROVE  MemInv'
<1> DEFINE w == NewWrite(b, preds)
<1>1. w.body = b /\ w.preds = preds
  BY DEF NewWrite
<1>2. w \notin writes /\ writes' = writes \cup {w}
  BY DEF Record
<1>3. preds \subseteq writes /\ \A p \in preds : Before(p.body, b)
  BY <1>1 DEF Record, BadClaims
<1> HIDE DEF w
<1>4. IsFiniteSet(writes')
  BY <1>2, FS_AddElement DEF MemInv
<1>5. ClaimsAreCausal'
  BY <1>1, <1>2, <1>3 DEF MemInv, ClaimsAreCausal
<1>6. /\ w \in Frontier(KeyOf(b))'
      /\ \A k : \A f \in Frontier(k) : f \in Frontier(k)' <=> ~(KeyOf(b) = k /\ f \in preds)
  BY <1>2, <1>3, RecordedFrontier DEF w, MemInv
<1>7. ASSUME NEW x \in writes PROVE \E f \in Frontier(KeyOf(x.body))' : f = x \/ Before(x.body, f.body)
  <2>1. PICK f \in Frontier(KeyOf(x.body)) : f = x \/ Before(x.body, f.body)
    BY DEF MemInv, SomeCurrentFollows
  <2>2. CASE f \in Frontier(KeyOf(x.body))'
    BY <2>1, <2>2
  <2>3. CASE f \notin Frontier(KeyOf(x.body))'
    <3>1. KeyOf(b) = KeyOf(x.body) /\ f \in preds
      BY <1>6, <2>3
    <3>2. Before(f.body, b)
      BY <1>3, <3>1
    <3>3. x.body \in Body /\ f.body \in Body
      BY <1>3, <3>1 DEF MemInv, ClaimsAreCausal
    <3>4. Before(x.body, b)
      BY <2>1, <3>2, <3>3, BeforeIsStrict
    <3> QED
      BY <1>1, <1>6, <3>1, <3>4
  <2> QED
    BY <2>2, <2>3
<1>8. SomeCurrentFollows'
  BY <1>1, <1>2, <1>6, <1>7 DEF SomeCurrentFollows
<1> QED
  BY <1>4, <1>5, <1>8 DEF MemInv

\* A put leaves the memory as it is, or records the write.
LEMMA PutEffect ==
    ASSUME NEW call, NEW w, Put(call, w)
    PROVE  \/ /\ writes' = writes
              /\ \/ w \in writes /\ answer' = Answer(call, w, "ADMITTED")
                 \/ answer' = Answer(call, Nothing, "REJECTED")
           \/ Record(call, w)
  BY DEF Put, ReturnOriginal, RefuseClaim

LEMMA MemUnchanged == ASSUME MemInv, writes' = writes PROVE MemInv'
  BY DEF MemInv, ClaimsAreCausal, SomeCurrentFollows, Frontier, WritesFor, Superseded

LEMMA MemInvariance == MemSpec => []MemInv
<1>1. ASSUME MemInit PROVE MemInv
  <2>1. writes = {}
    BY <1>1 DEF MemInit
  <2> QED
    BY <2>1, FS_EmptySet DEF MemInv, ClaimsAreCausal, SomeCurrentFollows
<1>2. ASSUME MemInv, [MemNext]_memVars PROVE MemInv'
  <2>1. ASSUME NEW call, NEW b \in Body, NEW preds, Put(call, NewWrite(b, preds)) PROVE MemInv'
    BY <1>2, <2>1, PutEffect, RecordKeepsInv, MemUnchanged
  <2>2. CASE writes' = writes
    BY <1>2, <2>2, MemUnchanged
  <2>3. (\E call, preds : \E b \in Body : Put(call, NewWrite(b, preds))) \/ writes' = writes
    BY <1>2 DEF MemNext, memVars, Resolve, RefuseChoice
  <2> QED
    BY <2>1, <2>2, <2>3
<1> QED
  BY <1>1, <1>2, PTL DEF MemSpec

\* memory.py: what a call does to the current writes.  An admitted resolution
\* settles its key with a value that was current, causally after everything that
\* was; and a write stops being current only by a write of its key that is causally
\* after it and claims it.
THEOREM OnlyClaimsReplaceHolds == MemSpec => OnlyClaimsReplace
<1> DEFINE Settles(w, k) ==
             /\ Frontier(k)' = {w}
             /\ \E f \in Frontier(k) : ValueOf(f.body) = ValueOf(w.body)
             /\ \A f \in Frontier(k) : Before(f.body, w.body)
           Replaces(w, k) ==
             \A f \in Frontier(k) \ Frontier(k)' :
                w \in writes' \ writes /\ KeyOf(w.body) = k /\ f \in w.preds /\ Before(f.body, w.body)
           Good == /\ answer'.call = "resolve" /\ answer'.verdict = "ADMITTED" =>
                        \A k \in Key : KeyOf(answer'.write.body) = k => Settles(answer'.write, k)
                   /\ \A k \in Key : Replaces(answer'.write, k)
<1>1. ASSUME MemInv, [MemNext]_memVars PROVE Good \/ UNCHANGED memVars
  <2>1. ASSUME writes' = writes, ~(answer'.call = "resolve" /\ answer'.verdict = "ADMITTED")
        PROVE  Good
    <3>1. \A k : Frontier(k)' = Frontier(k)
      BY <2>1 DEF Frontier, WritesFor, Superseded
    <3> QED
      BY <2>1, <3>1
  <2>2. ASSUME NEW call, NEW b \in Body, NEW preds, Record(call, NewWrite(b, preds)),
               call = "resolve" => preds = Frontier(KeyOf(b)),
               call = "resolve" => \E f \in Frontier(KeyOf(b)) : ValueOf(f.body) = ValueOf(b)
        PROVE  Good
    <3> DEFINE w == NewWrite(b, preds)
    <3>1. w.body = b /\ w.preds = preds
      BY DEF NewWrite
    <3>2. w \notin writes /\ writes' = writes \cup {w} /\ answer'.write = w /\ answer'.call = call
      BY <2>2 DEF Record, Answer
    <3>3. preds \subseteq writes /\ \A p \in preds : Before(p.body, b)
      BY <2>2, <3>1 DEF Record, BadClaims
    <3>4. /\ w \in Frontier(KeyOf(b))'
          /\ \A k : Frontier(k)' \subseteq Frontier(k) \cup {w}
          /\ \A k : \A f \in Frontier(k) : f \in Frontier(k)' <=> ~(KeyOf(b) = k /\ f \in preds)
      <4> HIDE DEF w
      <4> QED
        BY <1>1, <3>2, <3>3, RecordedFrontier DEF w, MemInv
    <3> HIDE DEF w
    <3>5. ASSUME NEW k \in Key PROVE Replaces(w, k)
      BY <3>1, <3>2, <3>3, <3>4
    <3>6. ASSUME call = "resolve" PROVE Settles(w, KeyOf(b))
      <4>1. preds = Frontier(KeyOf(b)) /\ \E f \in Frontier(KeyOf(b)) : ValueOf(f.body) = ValueOf(b)
        BY <2>2, <3>6
      <4>2. Frontier(KeyOf(b))' = {w}
        BY <3>4, <4>1
      <4> QED
        BY <3>1, <3>3, <4>1, <4>2
    <3> HIDE DEF Settles, Replaces
    <3> QED
      BY <3>1, <3>2, <3>5, <3>6
  <2>3. ASSUME NEW b \in Body, NEW k \in Key, KeyOf(b) = k, NewWrite(b, Frontier(k)) \in writes
        PROVE  FALSE
    <3> DEFINE w == NewWrite(b, Frontier(k))
    <3>1. w \in writes /\ w.body = b /\ w.preds = Frontier(k)
      BY <2>3 DEF NewWrite
    <3> HIDE DEF w
    <3>2. PICK f \in Frontier(k) : f = w \/ Before(b, f.body)
      BY <1>1, <2>3, <3>1 DEF MemInv, SomeCurrentFollows
    <3>3. Before(f.body, b) /\ f.body \in Body
      BY <1>1, <3>1, <3>2 DEF MemInv, ClaimsAreCausal
    <3>4. Before(b, b)
      BY <3>1, <3>2, <3>3, BeforeIsStrict
    <3> QED
      BY <3>4, BeforeIsStrict
  <2> HIDE DEF Good
  <2>4. ASSUME NEW b \in Body, NEW preds, Put("put", NewWrite(b, preds)) PROVE Good
    <3>1. CASE Record("put", NewWrite(b, preds))
      BY <2>2, <3>1
    <3>2. CASE writes' = writes /\ answer'.call = "put"
      BY <2>1, <3>2
    <3> QED
      BY <2>4, <3>1, <3>2, PutEffect DEF Answer
  <2>5. ASSUME NEW k \in Key, NEW chosen, NEW b \in Body, Resolve(k, chosen, b) PROVE Good
    <3>1. /\ KeyOf(b) = k /\ chosen \in Frontier(k) /\ ValueOf(b) = ValueOf(chosen.body)
          /\ Put("resolve", NewWrite(b, Frontier(k)))
      BY <2>5 DEF Resolve, Choices, Claimed
    <3>2. CASE Record("resolve", NewWrite(b, Frontier(k)))
      BY <2>2, <3>1, <3>2
    <3>3. CASE writes' = writes /\ answer'.verdict = "REJECTED"
      BY <2>1, <3>3
    <3> QED
      BY <2>3, <3>1, <3>2, <3>3, PutEffect DEF Answer
  <2>6. ASSUME NEW k, NEW chosen, RefuseChoice(k, chosen) PROVE Good
    BY <2>1, <2>6 DEF RefuseChoice, Answer
  <2> QED
    BY <1>1, <2>4, <2>5, <2>6 DEF MemNext
<1>2. MemInv /\ [MemNext]_memVars => [Good]_memVars
  <2> HIDE DEF Good
  <2> QED
    BY <1>1
<1> QED
  BY <1>2, MemInvariance, PTL DEF MemSpec, OnlyClaimsReplace

\* What a write rests on, without recursion: all that is in every set that has the
\* writes it claims and those its members claim.
Ancestors(w) ==
    {p \in writes : \A T \in SUBSET writes :
       w.preds \subseteq T /\ (\A q \in T : q.preds \subseteq T) => p \in T}

\* The recursive definition of Provenance has a solution.
LEMMA ProvenanceExists ==
    ASSUME ClaimsAreCausal
    PROVE  \A x \in writes : Ancestors(x) = x.preds \cup UNION {Ancestors(p) : p \in x.preds}
<1> SUFFICES ASSUME NEW x \in writes
             PROVE  Ancestors(x) = x.preds \cup UNION {Ancestors(p) : p \in x.preds}
  OBVIOUS
<1> DEFINE T == x.preds \cup UNION {Ancestors(p) : p \in x.preds}
<1>1. \A y \in writes : y.preds \subseteq writes
  BY DEF ClaimsAreCausal
<1>2. \A y \in writes : Ancestors(y) \subseteq writes /\ y.preds \subseteq Ancestors(y)
  BY <1>1 DEF Ancestors
<1>3. \A y \in writes : \A q \in Ancestors(y) : q.preds \subseteq Ancestors(y)
  BY <1>1 DEF Ancestors
<1>4. T \in SUBSET writes
  BY <1>1, <1>2
<1>5. ASSUME NEW q \in T PROVE q.preds \subseteq T
  <2>1. CASE q \in x.preds
    <3>1. q \in writes /\ q.preds \subseteq Ancestors(q)
      BY <1>1, <1>2, <2>1
    <3> QED
      BY <2>1, <3>1
  <2>2. CASE \E p \in x.preds : q \in Ancestors(p)
    <3>1. PICK p \in x.preds : q \in Ancestors(p)
      BY <2>2
    <3>2. p \in writes
      BY <1>1
    <3>3. q.preds \subseteq Ancestors(p)
      BY <1>3, <3>1, <3>2
    <3> QED
      BY <3>3
  <2> QED
    BY <2>1, <2>2
<1>6. Ancestors(x) \subseteq T
  <2>1. x.preds \subseteq T
    OBVIOUS
  <2> HIDE DEF T
  <2> QED
    BY <1>4, <1>5, <2>1 DEF Ancestors
<1>7. ASSUME NEW p \in x.preds PROVE Ancestors(p) \subseteq Ancestors(x)
  <2>1. p \in writes /\ p \in Ancestors(x)
    BY <1>1, <1>2
  <2>2. p.preds \subseteq Ancestors(x) /\ Ancestors(x) \in SUBSET writes
    BY <1>2, <1>3, <2>1
  <2>3. \A q \in Ancestors(x) : q.preds \subseteq Ancestors(x)
    BY <1>3
  <2>4. \A q \in Ancestors(p) : \A S \in SUBSET writes :
          p.preds \subseteq S /\ (\A r \in S : r.preds \subseteq S) => q \in S
    BY DEF Ancestors
  <2> HIDE DEF T
  <2> QED
    BY <2>2, <2>3, <2>4
<1> QED
  BY <1>2, <1>6, <1>7

\* What Provenance returns rests on its own values for the claimed writes.
LEMMA ProvenanceUnfolds ==
    ASSUME ClaimsAreCausal
    PROVE  \A x \in writes : Provenance(x) = x.preds \cup UNION {Provenance(p) : p \in x.preds}
<1> DEFINE IsUp(f) == f = [x \in writes |-> x.preds \cup UNION {f[p] : p \in x.preds}]
           up == CHOOSE f : IsUp(f)
           anc == [x \in writes |-> Ancestors(x)]
<1>1. \A x \in writes : x.preds \subseteq writes
  BY DEF ClaimsAreCausal
<1>2. IsUp(anc)
  <2>1. ASSUME NEW x \in writes
        PROVE  Ancestors(x) = x.preds \cup UNION {anc[p] : p \in x.preds}
    <3>1. \A p \in x.preds : anc[p] = Ancestors(p)
      BY <1>1
    <3> HIDE DEF anc
    <3>2. {anc[p] : p \in x.preds} = {Ancestors(p) : p \in x.preds}
      BY <3>1
    <3> QED
      BY <3>2, ProvenanceExists
  <2> QED
    BY <2>1
<1>3. \A x \in writes : Provenance(x) = up[x]
  BY DEF Provenance
<1>4. IsUp(up)
  <2> HIDE DEF IsUp, anc
  <2> QED
    BY <1>2
<1> HIDE DEF up
<1>5. \A x \in writes : up[x] = x.preds \cup UNION {up[p] : p \in x.preds}
  BY <1>4
<1> HIDE DEF IsUp
<1> SUFFICES ASSUME NEW x \in writes
             PROVE  Provenance(x) = x.preds \cup UNION {Provenance(p) : p \in x.preds}
  OBVIOUS
<1>6. {Provenance(p) : p \in x.preds} = {up[p] : p \in x.preds}
  BY <1>1, <1>3
<1> QED
  BY <1>3, <1>5, <1>6

\* The writes of the causal past of a write, and how many there are.
Past(x) == {y \in writes : Before(y.body, x.body)}
Depth(x) == Cardinality(Past(x))

LEMMA DepthGrows ==
    ASSUME MemInv, NEW x \in writes, NEW y \in writes, Before(y.body, x.body)
    PROVE  /\ Depth(x) \in Nat /\ Depth(y) \in Nat /\ Depth(y) < Depth(x)
           /\ Past(y) \subseteq Past(x)
<1>1. \A w \in writes : w.body \in Body
  BY DEF MemInv, ClaimsAreCausal
<1>2. Past(x) \in SUBSET writes /\ Past(y) \in SUBSET writes /\ IsFiniteSet(writes)
  BY DEF Past, MemInv
<1>3. Past(y) \subseteq Past(x)
  BY <1>1, BeforeIsStrict DEF Past
<1>4. y \in Past(x) /\ y \notin Past(y)
  BY <1>1, BeforeIsStrict DEF Past
<1>5. IsFiniteSet(Past(x)) /\ IsFiniteSet(Past(y))
  BY <1>2, FS_Subset
<1>6. Depth(x) \in Nat /\ Depth(y) \in Nat
  BY <1>5, FS_CardinalityType DEF Depth
<1>7. Cardinality(Past(y)) <= Cardinality(Past(x)) /\ Cardinality(Past(x)) # Cardinality(Past(y))
  <2>1. Past(y) \in SUBSET Past(x) /\ Past(x) # Past(y)
    BY <1>3, <1>4
  <2> QED
    BY <1>5, <2>1, FS_Subset
<1> QED
  BY <1>3, <1>6, <1>7 DEF Depth

\* memory.py: everything in the provenance of a recorded write, at any depth, is
\* recorded and in its causal past.
THEOREM ProvenanceIsCausalHolds == MemSpec => []ProvenanceIsCausal
<1>1. ASSUME MemInv PROVE ProvenanceIsCausal
  <2> DEFINE Deep == {Depth(x) : x \in {x \in writes : ~(Provenance(x) \subseteq Past(x))}}
  <2> SUFFICES ASSUME Deep # {} PROVE FALSE
    BY DEF ProvenanceIsCausal, Past
  <2>1. Deep \in SUBSET Nat
    <3>1. \A x \in writes : Past(x) \in SUBSET writes
      BY DEF Past
    <3>2. \A x \in writes : Depth(x) \in Nat
      BY <1>1, <3>1, FS_Subset, FS_CardinalityType DEF Depth, MemInv
    <3> QED
      BY <3>2
  <2> HIDE DEF Deep
  <2>2. PICK m \in Deep : \A k \in Deep : m <= k
    BY <2>1, SmallestOf
  <2>3. PICK x \in writes : ~(Provenance(x) \subseteq Past(x)) /\ m = Depth(x)
    BY DEF Deep
  <2>4. Provenance(x) = x.preds \cup UNION {Provenance(p) : p \in x.preds}
    BY <1>1, ProvenanceUnfolds DEF MemInv
  <2>5. ASSUME NEW p \in x.preds PROVE p \in Past(x) /\ Provenance(p) \subseteq Past(x)
    <3>1. p \in writes /\ Before(p.body, x.body)
      BY <1>1 DEF MemInv, ClaimsAreCausal
    <3>2. /\ Depth(x) \in Nat /\ Depth(p) \in Nat /\ Depth(p) < Depth(x)
          /\ Past(p) \subseteq Past(x)
      BY <1>1, <3>1, DepthGrows
    <3>3. Depth(p) \notin Deep
      BY <2>2, <2>3, <3>2
    <3>4. Provenance(p) \subseteq Past(p)
      BY <3>1, <3>3 DEF Deep
    <3> QED
      BY <3>1, <3>2, <3>4 DEF Past
  <2> QED
    BY <2>3, <2>4, <2>5
<1> QED
  BY <1>1, MemInvariance, PTL
=============================================================================
