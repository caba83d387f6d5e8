------------------------- MODULE CausalStoreProofs -------------------------
(***************************************************************************)
(* The orderings and the store.  GeometricOrdering and LogicalOrdering are    *)
(* strict partial orders, and what GeometricOrdering decides is true of every *)
(* execution its clocks allow.  The safety of CausalStore, for every set of   *)
(* events, keys and claims and every ordering that is a strict partial order; *)
(* the store on GeometricOrdering, for every speed of light and all events     *)
(* with geometric clocks, where that hypothesis is discharged and the two      *)
(* properties about true times are proved; and the store on HybridOrdering,    *)
(* whose order is not transitive.                                            *)
(***************************************************************************)
EXTENDS HybridStore, LightConeProofs

---------------------------------------------------------------------------
(* The orderings *)

\* What GeometricOrdering computes from two clocks are integers, the floor a
\* natural number, and the gate of causally_admissible compares the two.
LEMMA GeoNumbers ==
    ASSUME NEW a, NEW b, IsGeoClock(a), IsGeoClock(b)
    PROVE  /\ Elapsed(a, b) \in Int /\ CombinedU(a, b) \in Nat /\ Floor(a, b) \in Nat
           /\ b.time_ns > a.time_ns <=> Elapsed(a, b) > 0
           /\ CausallyAdmissible(a.time_ns, a.pos_nm, b.time_ns, b.pos_nm)
                <=> Elapsed(a, b) >= Floor(a, b)
<1>1. Floor(a, b) \in Nat
  BY LightTimeIsExact DEF IsGeoClock, Floor, IsLightTime
<1>2. Elapsed(a, b) \in Int /\ CombinedU(a, b) \in Nat
  BY DEF IsGeoClock, Elapsed, CombinedU
<1>3. CausallyAdmissible(a.time_ns, a.pos_nm, b.time_ns, b.pos_nm)
        <=> Elapsed(a, b) >= 0 /\ Reaches(Elapsed(a, b), Dist2(a.pos_nm, b.pos_nm))
  BY DEF CausallyAdmissible, Reaches, Elapsed
<1>4. Elapsed(a, b) >= 0 =>
        (Reaches(Elapsed(a, b), Dist2(a.pos_nm, b.pos_nm)) <=> Elapsed(a, b) >= Floor(a, b))
  BY <1>2, ReachesFromLightTimeOn DEF IsGeoClock, Floor
<1>5. b.time_ns > a.time_ns <=> Elapsed(a, b) > 0
  BY DEF IsGeoClock, Elapsed
<1> QED
  BY <1>1, <1>2, <1>3, <1>4, <1>5

\* before() holds exactly when the whole interval of possible elapsed times is
\* at or beyond the light time, and the later timestamp is strictly later.
LEMMA GeoBeforeIsMargin ==
    ASSUME NEW a, NEW b, IsGeoClock(a), IsGeoClock(b)
    PROVE  GeoBefore(a, b) <=>
             Elapsed(a, b) > 0 /\ Elapsed(a, b) - CombinedU(a, b) >= Floor(a, b)
  BY GeoNumbers DEF GeoBefore, GeoResolves

\* GeometricOrdering.before is a strict partial order: the uncertainties add up
\* along a chain and the light times obey the triangle inequality.
THEOREM GeometricIsStrict ==
    ASSUME NEW a, NEW b, NEW c, IsGeoClock(a), IsGeoClock(b), IsGeoClock(c)
    PROVE  /\ ~GeoBefore(a, a)
           /\ GeoBefore(a, b) /\ GeoBefore(b, c) => GeoBefore(a, c)
<1>1. ~GeoBefore(a, a)
  BY DEF GeoBefore, IsGeoClock
<1>2. ASSUME GeoBefore(a, b), GeoBefore(b, c) PROVE GeoBefore(a, c)
  <2>1. /\ Elapsed(a, b) > 0 /\ Elapsed(a, b) - CombinedU(a, b) >= Floor(a, b)
        /\ Elapsed(b, c) > 0 /\ Elapsed(b, c) - CombinedU(b, c) >= Floor(b, c)
    BY <1>2, GeoBeforeIsMargin
  <2>2. Floor(a, c) <= Floor(a, b) + Floor(b, c)
    BY LightTimeTriangle DEF IsGeoClock, Floor
  <2>3. /\ Elapsed(a, c) = Elapsed(a, b) + Elapsed(b, c)
        /\ CombinedU(a, c) <= CombinedU(a, b) + CombinedU(b, c)
    BY DEF IsGeoClock, Elapsed, CombinedU
  <2>4. Elapsed(a, c) > 0 /\ Elapsed(a, c) - CombinedU(a, c) >= Floor(a, c)
    BY <2>1, <2>2, <2>3, GeoNumbers
  <2> QED
    BY <2>4, GeoBeforeIsMargin
<1> QED
  BY <1>1, <1>2

\* An order GeometricOrdering decides is the order of every true execution: the
\* later event is in the light cone of the earlier one for every pair of true
\* times the clocks allow.
THEOREM BeforeIsSure ==
    ASSUME NEW a, NEW b, IsGeoClock(a), IsGeoClock(b), GeoBefore(a, b)
    PROVE  SurelyReachable(a, b)
  BY GeoBeforeIsMargin, GeoNumbers DEF SurelyReachable, TrueElapsed

\* The pairs write() commits without coordination are independent: if before()
\* is false and resolves() is true, no true times the clocks allow let a signal
\* from the one arrive at the other.
THEOREM IndependenceIsSure ==
    ASSUME NEW a, NEW b, IsGeoClock(a), IsGeoClock(b), ~GeoBefore(a, b), GeoResolves(a, b)
    PROVE  ~MayHaveCaused(a, b)
  BY GeoBeforeIsMargin, GeoNumbers DEF GeoResolves, MayHaveCaused, TrueElapsed

---------------------------------------------------------------------------
\* _leq compares two vectors at every node, the nodes neither mentions included.
LEMMA LeqEverywhere ==
    ASSUME NEW x, NEW y, IsVector(x), IsVector(y), LogLeq(x, y)
    PROVE  \A k : At(x, k) <= At(y, k)
  BY DEF IsVector, LogLeq, At

\* _leq is transitive, whatever nodes the three vectors mention.
LEMMA LeqTransitive ==
    ASSUME NEW x, NEW y, NEW z, IsVector(x), IsVector(y), IsVector(z),
           LogLeq(x, y), LogLeq(y, z)
    PROVE  LogLeq(x, z)
<1> SUFFICES ASSUME NEW k PROVE At(x, k) <= At(z, k)
  BY DEF LogLeq
<1>1. At(x, k) <= At(y, k) /\ At(y, k) <= At(z, k)
  BY LeqEverywhere
<1>2. At(x, k) \in Nat /\ At(y, k) \in Nat /\ At(z, k) \in Nat
  BY DEF IsVector, At
<1> QED
  BY <1>1, <1>2

\* LogicalOrdering.before is a strict partial order on vector clocks, those that
\* mention different nodes or pad with zeros included (erratum 3).
THEOREM LogicalIsStrict ==
    ASSUME NEW a, NEW b, NEW c, IsVector(a.vc), IsVector(b.vc), IsVector(c.vc)
    PROVE  /\ ~LogBefore(a, a)
           /\ LogBefore(a, b) /\ LogBefore(b, c) => LogBefore(a, c)
  BY LeqTransitive DEF LogBefore

---------------------------------------------------------------------------
(* The store on any strict partial order *)

\* Every state of the store is well typed: the supersedes lists belong to the
\* stored events, the counters are naturals, the answer is one write() can give.
THEOREM TypeCorrect == Spec => []TypeOK
<1>1. Init => TypeOK
  <2> SUFFICES ASSUME Init PROVE TypeOK
    OBVIOUS
  <2>1. stored = {} /\ delivered = {}
    BY DEF Init
  <2>2. supersedes \in [stored -> SUBSET Event]
    BY DEF Init
  <2>3. stats \in [total : Nat, coordination_free : Nat, coordinated : Nat]
    BY DEF Init, Stats
  <2>4. result \in [event : Event \cup {NoEvent}, mode : Modes, reason : Reasons]
    BY DEF Init, Result, Modes, Reasons
  <2> QED
    BY <2>1, <2>2, <2>3, <2>4 DEF TypeOK
<1>2. TypeOK /\ [Next]_vars => TypeOK'
  <2> SUFFICES ASSUME TypeOK, [Next]_vars
               PROVE  TypeOK'
    OBVIOUS
  <2>1. CASE UNCHANGED vars
    BY <2>1 DEF vars, TypeOK
  <2>2. ASSUME NEW e \in Event, NEW claims \in ClaimSets, Write(e, claims)
        PROVE  TypeOK'
    <3>1. claims \subseteq Event /\ Frontier(KeyOf(e)) \subseteq Event
                                /\ Ancestors(e) \subseteq Event
      BY ClaimsType DEF Frontier, EventsForKey, Ancestors, TypeOK
    <3>2. ASSUME NEW mode \in Modes, NEW reason \in Reasons, result' = Result(e, mode, reason)
          PROVE  result' \in [event : Event \cup {NoEvent}, mode : Modes, reason : Reasons]
      BY <3>2 DEF Result
    <3>3. stats' \in [total : Nat, coordination_free : Nat, coordinated : Nat]
      <4>1. CASE stats' = stats
        BY <4>1 DEF TypeOK
      <4>2. CASE stats' = CountRefusal
        BY <4>2 DEF TypeOK, Stats, CountRefusal
      <4>3. CASE stats' = CountFree
        BY <4>3 DEF TypeOK, Stats, CountFree
      <4>4. CASE stats' = CountCoordinated
        BY <4>4 DEF TypeOK, Stats, CountCoordinated
      <4> QED
        BY <2>2, <4>1, <4>2, <4>3, <4>4
           DEF Write, ReturnDuplicate, RejectClaim, RejectStale, CommitFirst,
               CommitSupersede, CommitIndependent, RetainConflict
    <3>4. ASSUME NEW sups \in SUBSET Event, AppendEvent(e, sups)
          PROVE  /\ stored' \subseteq Event /\ delivered' \subseteq Event
                 /\ supersedes' \in [stored' -> SUBSET Event]
      BY <3>4 DEF AppendEvent, TypeOK
    <3>5. CASE ReturnDuplicate(e)
      BY <3>2, <3>3, <3>5 DEF ReturnDuplicate, TypeOK, Modes, Reasons
    <3>6. CASE RejectClaim(e, claims)
      <4>1. PICK reason \in Reasons : result' = Result(e, "rejected", reason)
        BY <3>6 DEF RejectClaim, Reasons
      <4> QED
        BY <3>2, <3>3, <3>6, <4>1 DEF RejectClaim, TypeOK, Modes
    <3>7. CASE RejectStale(e, claims)
      BY <3>2, <3>3, <3>7 DEF RejectStale, TypeOK, Modes, Reasons
    <3>8. CASE CommitFirst(e, claims)
      BY <3>1, <3>2, <3>3, <3>4, <3>8 DEF CommitFirst, TypeOK, Modes, Reasons
    <3>9. CASE CommitSupersede(e, claims)
      BY <3>1, <3>2, <3>3, <3>4, <3>9 DEF CommitSupersede, TypeOK, Modes, Reasons
    <3>10. CASE CommitIndependent(e, claims)
      BY <3>1, <3>2, <3>3, <3>4, <3>10 DEF CommitIndependent, TypeOK, Modes, Reasons
    <3>11. CASE RetainConflict(e, claims)
      BY <3>1, <3>2, <3>3, <3>4, <3>11 DEF RetainConflict, TypeOK, Modes, Reasons
    <3> QED
      BY <2>2, <3>5, <3>6, <3>7, <3>8, <3>9, <3>10, <3>11 DEF Write
  <2> QED
    BY <2>1, <2>2 DEF Next
<1> QED
  BY <1>1, <1>2, PTL DEF Spec

---------------------------------------------------------------------------
(* The inductive invariant.  Four of write()'s returns append; each meets the *)
(* conditions of the next lemma, which is where the ordering's laws are used. *)

\* Appending an event keeps the invariant if what it supersedes is stored and
\* causally before it and includes every ancestor on the key's frontier, and
\* nothing on that frontier is causally after it.
LEMMA AppendKeepsInv ==
    ASSUME StrictOrder, Inv, TypeOK', NEW e \in Event, e \notin stored,
           NEW sups \in SUBSET stored, \A p \in sups : Before(p, e),
           Ancestors(e) \subseteq sups, Dominators(e) = {}, AppendEvent(e, sups)
    PROVE  Inv' /\ e \in Frontier(KeyOf(e))'
<1>1. /\ stored' = stored \cup {e} /\ stored \subseteq Event
      /\ \A o \in stored : supersedes'[o] = supersedes[o]
      /\ supersedes'[e] = sups
      /\ delivered' = delivered \cup {e}
  BY DEF AppendEvent, Inv, TypeOK
<1>2. SupersedesIsCausal'
  BY <1>1 DEF Inv, SupersedesIsCausal
<1>3. \A a \in stored : Superseded(a)' <=> Superseded(a) \/ (KeyOf(a) = KeyOf(e) /\ a \in sups)
  BY <1>1 DEF Superseded, EventsForKey
<1>4. ~Superseded(e)'
  <2>1. ASSUME NEW o \in stored PROVE e \notin supersedes'[o]
    BY <1>1, <2>1 DEF Inv, SupersedesIsCausal
  <2> QED
    BY <1>1, <2>1 DEF Superseded, EventsForKey
<1>5. e \in Frontier(KeyOf(e))'
  BY <1>1, <1>4 DEF Frontier, EventsForKey
<1>6. NothingLost'
  <2> SUFFICES ASSUME NEW a \in stored
               PROVE  \E f \in Frontier(KeyOf(a))' : f = a \/ Before(a, f)
    BY <1>1, <1>5 DEF NothingLost
  <2>1. PICK f \in Frontier(KeyOf(a)) : f = a \/ Before(a, f)
    BY DEF Inv, NothingLost
  <2>2. f \in stored /\ KeyOf(f) = KeyOf(a) /\ ~Superseded(f)
    BY <2>1 DEF Frontier, EventsForKey
  <2>3. CASE KeyOf(a) = KeyOf(e) /\ f \in sups
    <3>1. Before(a, e)
      BY <1>1, <2>1, <2>2, <2>3 DEF StrictOrder
    <3> QED
      BY <1>5, <2>3, <3>1
  <2>4. CASE ~(KeyOf(a) = KeyOf(e) /\ f \in sups)
    <3>1. f \in Frontier(KeyOf(a))'
      BY <1>1, <1>3, <2>2, <2>4 DEF Frontier, EventsForKey
    <3> QED
      BY <2>1, <3>1
  <2> QED
    BY <2>3, <2>4
<1>7. \A b \in stored : ~(KeyOf(b) = KeyOf(e) /\ Before(e, b))
  <2> SUFFICES ASSUME NEW b \in stored, KeyOf(b) = KeyOf(e), Before(e, b)
               PROVE  FALSE
    OBVIOUS
  <2>1. PICK f \in Frontier(KeyOf(b)) : f = b \/ Before(b, f)
    BY DEF Inv, NothingLost
  <2>2. f \in stored
    BY <2>1 DEF Frontier, EventsForKey
  <2>3. Before(e, f)
    BY <1>1, <2>1, <2>2 DEF StrictOrder
  <2> QED
    BY <2>1, <2>3 DEF Dominators
<1>8. EarlierIsSuperseded'
  <2> SUFFICES ASSUME NEW a \in stored', NEW b \in stored',
                      KeyOf(a) = KeyOf(b), Before(a, b)
               PROVE  Superseded(a)'
    BY DEF EarlierIsSuperseded
  <2>1. a # e
    BY <1>1, <1>7 DEF StrictOrder
  <2>2. a \in stored
    BY <1>1, <2>1
  <2>3. CASE b \in stored
    BY <1>3, <2>2, <2>3 DEF Inv, EarlierIsSuperseded
  <2>4. CASE b = e
    <3>1. CASE Superseded(a)
      BY <1>3, <2>2, <3>1
    <3>2. CASE ~Superseded(a)
      <4>1. a \in Ancestors(e)
        BY <2>2, <2>4, <3>2 DEF Ancestors, Frontier, EventsForKey
      <4> QED
        BY <1>3, <2>2, <2>4, <4>1
    <3> QED
      BY <3>1, <3>2
  <2> QED
    BY <1>1, <2>3, <2>4
<1>9. DeliveredIsAccounted'
  BY <1>1 DEF Inv, DeliveredIsAccounted
<1> QED
  BY <1>2, <1>5, <1>6, <1>8, <1>9 DEF Inv

\* A write that passed the tests on claims and staleness meets the conditions
\* AppendKeepsInv puts on what it supersedes.
LEMMA AdmissibleFacts ==
    ASSUME Inv, NEW e \in Event, NEW claims, Admissible(e, claims)
    PROVE  /\ e \notin stored /\ Dominators(e) = {}
           /\ claims \subseteq stored /\ \A p \in claims : Before(p, e)
           /\ Ancestors(e) \subseteq stored /\ \A p \in Ancestors(e) : Before(p, e)
           /\ Ancestors(e) \subseteq Frontier(KeyOf(e))
  BY DEF Admissible, Fresh, IsDuplicate, BadClaims, Ancestors, Frontier, EventsForKey

\* What the rest of the proofs need of a step that appends: what it appends,
\* and that the invariant holds after it.
LEMMA CommitStep ==
    ASSUME StrictOrder, Inv, TypeOK', NEW e \in Event, NEW claims \in ClaimSets,
           \/ CommitFirst(e, claims) \/ CommitSupersede(e, claims)
           \/ CommitIndependent(e, claims) \/ RetainConflict(e, claims)
    PROVE  /\ Inv' /\ e \in Frontier(KeyOf(e))'
           /\ delivered' = delivered \cup {e} /\ result'.event = e
<1>1. Admissible(e, claims)
  BY DEF CommitFirst, CommitSupersede, CommitIndependent, RetainConflict
<1>2. PICK sups \in SUBSET stored :
        /\ AppendEvent(e, sups) /\ Ancestors(e) \subseteq sups
        /\ \A p \in sups : Before(p, e)
  <2>1. CASE CommitFirst(e, claims)
    BY <1>1, <2>1, AdmissibleFacts DEF CommitFirst
  <2>2. CASE CommitSupersede(e, claims)
    <3>1. Ancestors(e) = Frontier(KeyOf(e))
      BY <2>2 DEF CommitSupersede, FollowsAll
    <3>2. /\ claims \cup Ancestors(e) \in SUBSET stored
          /\ \A p \in claims \cup Ancestors(e) : Before(p, e)
      BY <1>1, AdmissibleFacts
    <3>3. AppendEvent(e, claims \cup Ancestors(e))
      BY <2>2, <3>1 DEF CommitSupersede
    <3> QED
      BY <3>2, <3>3
  <2>3. CASE CommitIndependent(e, claims)
    <3>1. Ancestors(e) = {}
      BY <2>3 DEF CommitIndependent, IndependentOfAll, ProvenIndependent,
                  Concurrent, Ancestors
    <3> QED
      BY <1>1, <2>3, <3>1, AdmissibleFacts DEF CommitIndependent
  <2>4. CASE RetainConflict(e, claims)
    BY <1>1, <2>4, AdmissibleFacts DEF RetainConflict
  <2> QED
    BY <2>1, <2>2, <2>3, <2>4
<1>3. Inv' /\ e \in Frontier(KeyOf(e))'
  BY <1>1, <1>2, AdmissibleFacts, AppendKeepsInv
<1>4. delivered' = delivered \cup {e}
  BY <1>2 DEF AppendEvent
<1>5. result'.event = e
  <2>1. ASSUME NEW mode, result' = Result(e, mode, "") PROVE result'.event = e
    BY <2>1 DEF Result
  <2> QED
    BY <2>1 DEF CommitFirst, CommitSupersede, CommitIndependent, RetainConflict
<1> QED
  BY <1>3, <1>4, <1>5

\* A refusal for staleness keeps the invariant: the refused event is accounted
\* for by the frontier event that dominates it.
LEMMA RefusalStep ==
    ASSUME Inv, TypeOK', NEW e \in Event, NEW claims, RejectStale(e, claims)
    PROVE  Inv'
<1>1. PICK f \in stored : KeyOf(f) = KeyOf(e) /\ Before(e, f)
  BY DEF RejectStale, Dominators, Frontier, EventsForKey
<1>2. /\ stored' = stored /\ supersedes' = supersedes
      /\ delivered' = delivered \cup {e}
  BY DEF RejectStale
<1>3. DeliveredIsAccounted'
  BY <1>1, <1>2 DEF Inv, DeliveredIsAccounted
<1>4. SupersedesIsCausal' /\ NothingLost' /\ EarlierIsSuperseded'
  BY <1>2 DEF Inv, SupersedesIsCausal, NothingLost, EarlierIsSuperseded,
              Frontier, EventsForKey, Superseded
<1> QED
  BY <1>3, <1>4 DEF Inv

\* The remaining steps change nothing the invariant is about.
LEMMA QuietStep ==
    ASSUME Inv, TypeOK', UNCHANGED <<stored, supersedes, delivered>>
    PROVE  Inv' /\ \A k \in Key : Frontier(k)' = Frontier(k)
  BY DEF Inv, SupersedesIsCausal, NothingLost, EarlierIsSuperseded,
         DeliveredIsAccounted, Frontier, EventsForKey, Superseded

\* Under a strict partial order, every state of the store satisfies Inv: its
\* supersedes lists are causal, nothing is lost, the current events of a key are
\* an antichain, and what was refused as stale is behind something stored.
THEOREM Invariance == StrictOrder => (Spec => []Inv)
<1> SUFFICES ASSUME StrictOrder PROVE Spec => []Inv
  OBVIOUS
<1>1. TypeOK /\ Init => Inv
  BY DEF Init, Inv, SupersedesIsCausal, NothingLost, EarlierIsSuperseded,
         DeliveredIsAccounted
<1>2. TypeOK' /\ Inv /\ [Next]_vars => Inv'
  <2> SUFFICES ASSUME TypeOK', Inv, [Next]_vars PROVE Inv'
    OBVIOUS
  <2>1. CASE UNCHANGED vars
    BY <2>1, QuietStep DEF vars
  <2>2. ASSUME NEW e \in Event, NEW claims \in ClaimSets, Write(e, claims)
        PROVE  Inv'
    <3>1. CASE ReturnDuplicate(e) \/ RejectClaim(e, claims)
      BY <3>1, QuietStep DEF ReturnDuplicate, RejectClaim
    <3>2. CASE RejectStale(e, claims)
      BY <3>2, RefusalStep
    <3>3. CASE \/ CommitFirst(e, claims) \/ CommitSupersede(e, claims)
               \/ CommitIndependent(e, claims) \/ RetainConflict(e, claims)
      BY <3>3, CommitStep
    <3> QED
      BY <2>2, <3>1, <3>2, <3>3 DEF Write
  <2> QED
    BY <2>1, <2>2 DEF Next
<1> QED
  BY <1>1, <1>2, TypeCorrect, PTL DEF Spec

\* The invariant makes the frontier of a key the maximal delivered events.
LEMMA InvGivesMaximal ==
    ASSUME StrictOrder, Inv PROVE FrontierIsMaximal
<1> SUFFICES ASSUME NEW k \in Key
             PROVE  Frontier(k) = Register!Maximal(delivered, k)
  BY DEF FrontierIsMaximal
<1>1. stored \subseteq Event /\ delivered \subseteq Event
  BY DEF Inv, TypeOK
<1>2. ASSUME NEW e \in Frontier(k) PROVE e \in Register!Maximal(delivered, k)
  <2>1. e \in stored /\ KeyOf(e) = k /\ ~Superseded(e)
    BY DEF Frontier, EventsForKey
  <2>2. ASSUME NEW o \in delivered, KeyOf(o) = k, Before(e, o) PROVE FALSE
    <3>1. PICK s \in stored : KeyOf(s) = k /\ Before(e, s)
      <4>1. CASE o \in stored
        BY <2>2, <4>1
      <4>2. CASE o \notin stored
        BY <1>1, <2>1, <2>2, <4>2 DEF Inv, DeliveredIsAccounted, StrictOrder
      <4> QED
        BY <4>1, <4>2
    <3> QED
      BY <2>1, <3>1 DEF Inv, EarlierIsSuperseded
  <2> QED
    BY <2>1, <2>2 DEF Inv, DeliveredIsAccounted, Register!Maximal
<1>3. ASSUME NEW e \in Register!Maximal(delivered, k) PROVE e \in Frontier(k)
  <2>1. /\ e \in delivered /\ KeyOf(e) = k
        /\ \A o \in delivered : ~(KeyOf(o) = k /\ Before(e, o))
    BY DEF Register!Maximal
  <2>2. e \in stored
    BY <2>1 DEF Inv, DeliveredIsAccounted
  <2>3. ~Superseded(e)
    BY <2>1, <2>2 DEF Inv, SupersedesIsCausal, DeliveredIsAccounted,
                      Superseded, EventsForKey
  <2> QED
    BY <2>1, <2>2, <2>3 DEF Frontier, EventsForKey
<1> QED
  BY <1>2, <1>3

\* Convergence: under a strict partial order, what a reader sees of a key is the
\* maximal delivered writes, whatever the order of delivery, the retries and the
\* claims (write, _frontier, read).
THEOREM Convergence == StrictOrder => (Spec => []FrontierIsMaximal)
<1> SUFFICES ASSUME StrictOrder PROVE Spec => []FrontierIsMaximal
  OBVIOUS
<1>1. Inv => FrontierIsMaximal
  BY InvGivesMaximal
<1> QED
  BY <1>1, Invariance, PTL

---------------------------------------------------------------------------
(* What a step may do, from the invariant before it and after it *)

\* A step leaves every frontier alone, or delivers the event it answers for.
LEMMA StepDelivers ==
    ASSUME StrictOrder, Inv, TypeOK', [Next]_vars
    PROVE  \/ /\ UNCHANGED <<stored, supersedes, delivered>>
              /\ \A k \in Key : Frontier(k)' = Frontier(k)
           \/ \E e \in Event :
                /\ delivered' = delivered \cup {e} /\ result'.event = e
                /\ \/ e \in Frontier(KeyOf(e))'
                   \/ \E f \in delivered : KeyOf(f) = KeyOf(e) /\ Before(e, f)
<1>1. CASE UNCHANGED vars
  BY <1>1, QuietStep DEF vars
<1>2. ASSUME NEW e \in Event, NEW claims \in ClaimSets, Write(e, claims)
      PROVE  \/ /\ UNCHANGED <<stored, supersedes, delivered>>
                /\ \A k \in Key : Frontier(k)' = Frontier(k)
             \/ /\ delivered' = delivered \cup {e} /\ result'.event = e
                /\ \/ e \in Frontier(KeyOf(e))'
                   \/ \E f \in delivered : KeyOf(f) = KeyOf(e) /\ Before(e, f)
  <2>1. CASE ReturnDuplicate(e) \/ RejectClaim(e, claims)
    BY <2>1, QuietStep DEF ReturnDuplicate, RejectClaim
  <2>2. CASE RejectStale(e, claims)
    <3>1. PICK f \in stored : KeyOf(f) = KeyOf(e) /\ Before(e, f)
      BY <2>2 DEF RejectStale, Dominators, Frontier, EventsForKey
    <3>2. f \in delivered
      BY DEF Inv, DeliveredIsAccounted
    <3>3. delivered' = delivered \cup {e} /\ result'.event = e
      BY <2>2 DEF RejectStale, Result
    <3> QED
      BY <3>1, <3>2, <3>3
  <2>3. CASE \/ CommitFirst(e, claims) \/ CommitSupersede(e, claims)
             \/ CommitIndependent(e, claims) \/ RetainConflict(e, claims)
    BY <2>3, CommitStep
  <2> QED
    BY <1>2, <2>1, <2>2, <2>3 DEF Write
<1> QED
  BY <1>1, <1>2 DEF Next

\* A current value stops being current only by the commit of a write that is
\* causally after it.
THEOREM OnlySuccessorsReplaceHolds == StrictOrder => (Spec => OnlySuccessorsReplace)
<1> SUFFICES ASSUME StrictOrder PROVE Spec => OnlySuccessorsReplace
  OBVIOUS
<1>1. TypeOK' /\ Inv /\ Inv' /\ [Next]_vars
        => [\A k \in Key : \A f \in Frontier(k) \ Frontier(k)' :
              result'.event \in Frontier(k)' /\ Before(f, result'.event)]_vars
  <2> SUFFICES ASSUME TypeOK', Inv, Inv', [Next]_vars,
                      NEW k \in Key, NEW f \in Frontier(k), f \notin Frontier(k)'
               PROVE  result'.event \in Frontier(k)' /\ Before(f, result'.event)
    OBVIOUS
  <2>1. FrontierIsMaximal /\ FrontierIsMaximal'
    BY InvGivesMaximal, PTL
  <2>2. /\ f \in delivered /\ KeyOf(f) = k
        /\ \A o \in delivered : ~(KeyOf(o) = k /\ Before(f, o))
    BY <2>1 DEF FrontierIsMaximal, Register!Maximal
  <2>3. PICK e \in Event :
          /\ delivered' = delivered \cup {e} /\ result'.event = e
          /\ \/ e \in Frontier(KeyOf(e))'
             \/ \E g \in delivered : KeyOf(g) = KeyOf(e) /\ Before(e, g)
    BY StepDelivers
  <2>4. PICK o \in delivered' : KeyOf(o) = k /\ Before(f, o)
    BY <2>1, <2>2, <2>3 DEF FrontierIsMaximal, Register!Maximal
  <2>5. o = e
    BY <2>2, <2>3, <2>4
  <2>6. ASSUME NEW g \in delivered, KeyOf(g) = KeyOf(e), Before(e, g) PROVE FALSE
    <3>1. f \in Event /\ g \in Event
      BY <2>2 DEF Inv, TypeOK
    <3> QED
      BY <2>2, <2>4, <2>5, <2>6, <3>1 DEF StrictOrder
  <2> QED
    BY <2>3, <2>4, <2>5, <2>6
<1> QED
  BY <1>1, Invariance, TypeCorrect, PTL DEF Spec, OnlySuccessorsReplace

\* A value that stopped being current, or was refused as stale, never becomes
\* current again.
THEOREM StaleStaysStaleHolds == StrictOrder => (Spec => StaleStaysStale)
<1> SUFFICES ASSUME StrictOrder PROVE Spec => StaleStaysStale
  OBVIOUS
<1>1. TypeOK' /\ Inv /\ Inv' /\ [Next]_vars
        => [\A k \in Key : (delivered \ Frontier(k)) \cap Frontier(k)' = {}]_vars
  <2> SUFFICES ASSUME TypeOK', Inv, Inv', [Next]_vars, NEW k \in Key,
                      NEW e \in delivered, e \notin Frontier(k), e \in Frontier(k)'
               PROVE  FALSE
    OBVIOUS
  <2>1. FrontierIsMaximal /\ FrontierIsMaximal'
    BY InvGivesMaximal, PTL
  <2>2. delivered \subseteq delivered'
    BY StepDelivers
  <2> QED
    BY <2>1, <2>2 DEF FrontierIsMaximal, Register!Maximal
<1> QED
  BY <1>1, Invariance, TypeCorrect, PTL DEF Spec, StaleStaysStale

\* The store implements the multi-value register: every step delivers one event
\* to it or is invisible to it.
THEOREM Refinement == StrictOrder => (Spec => RefinesRegister)
<1> SUFFICES ASSUME StrictOrder PROVE Spec => RefinesRegister
  OBVIOUS
<1>1. Init => Register!Init
  BY DEF Init, Register!Init, Frontier, EventsForKey
<1>2. TypeOK' /\ Inv /\ Inv' /\ [Next]_vars => [Register!Next]_(Register!vars)
  <2> SUFFICES ASSUME TypeOK', Inv, Inv', [Next]_vars
               PROVE  Register!Next \/ UNCHANGED Register!vars
    OBVIOUS
  <2>1. FrontierIsMaximal'
    BY InvGivesMaximal, PTL
  <2>2. CASE /\ UNCHANGED <<stored, supersedes, delivered>>
             /\ \A k \in Key : Frontier(k)' = Frontier(k)
    BY <2>2 DEF Register!vars
  <2>3. ASSUME NEW e \in Event, delivered' = delivered \cup {e}
        PROVE  Register!Deliver(e)
    BY <2>1, <2>3 DEF FrontierIsMaximal, Register!Deliver
  <2> QED
    BY <2>2, <2>3, StepDelivers DEF Register!Next
<1> QED
  BY <1>1, <1>2, Invariance, TypeCorrect, PTL DEF Spec, RefinesRegister, Register!Spec

\* A causal_supersede answer means the new event follows every event of the key
\* ever stored and is the only current one.
THEOREM SupersedeIsTotalHolds == StrictOrder => (Spec => []SupersedeIsTotal)
<1> SUFFICES ASSUME StrictOrder PROVE Spec => []SupersedeIsTotal
  OBVIOUS
<1>1. Init => SupersedeIsTotal
  <2> SUFFICES ASSUME Init PROVE SupersedeIsTotal
    OBVIOUS
  <2>1. result = Result(NoEvent, "none", "")
    BY DEF Init
  <2>2. result.mode # "causal_supersede"
    BY <2>1 DEF Result
  <2> QED
    BY <2>2 DEF SupersedeIsTotal
<1>2. TypeOK' /\ Inv /\ SupersedeIsTotal /\ [Next]_vars => SupersedeIsTotal'
  <2> SUFFICES ASSUME TypeOK', Inv, SupersedeIsTotal, [Next]_vars
               PROVE  SupersedeIsTotal'
    OBVIOUS
  <2>1. CASE UNCHANGED vars
    BY <2>1 DEF vars, SupersedeIsTotal, Frontier, EventsForKey, Superseded
  <2>2. ASSUME NEW e \in Event, NEW claims \in ClaimSets, CommitSupersede(e, claims)
        PROVE  SupersedeIsTotal'
    <3>1. Inv' /\ e \in Frontier(KeyOf(e))'
      BY <2>2, CommitStep
    <3>2. Ancestors(e) = Frontier(KeyOf(e)) /\ stored' = stored \cup {e}
      BY <2>2 DEF CommitSupersede, FollowsAll, AppendEvent
    <3>3. ASSUME NEW o \in stored, KeyOf(o) = KeyOf(e) PROVE Before(o, e)
      <4>1. PICK f \in Frontier(KeyOf(o)) : f = o \/ Before(o, f)
        BY DEF Inv, NothingLost
      <4>2. Before(f, e) /\ f \in stored
        BY <3>2, <3>3, <4>1 DEF Ancestors, Frontier, EventsForKey
      <4> QED
        BY <4>1, <4>2 DEF Inv, TypeOK, StrictOrder
    <3>4. ASSUME NEW f \in Frontier(KeyOf(e))', f # e PROVE FALSE
      <4>1. f \in stored /\ KeyOf(f) = KeyOf(e) /\ ~Superseded(f)'
        BY <3>2, <3>4 DEF Frontier, EventsForKey
      <4> QED
        BY <3>1, <3>2, <3>3, <4>1 DEF Inv, EarlierIsSuperseded
    <3>5. result'.event = e
      BY <2>2 DEF CommitSupersede, Result
    <3> QED
      BY <3>1, <3>2, <3>3, <3>4, <3>5 DEF SupersedeIsTotal, EventsForKey
  <2>3. ASSUME NEW e \in Event, NEW claims \in ClaimSets, Write(e, claims),
               ~CommitSupersede(e, claims)
        PROVE  SupersedeIsTotal'
    <3>1. PICK mode \in Modes \ {"causal_supersede"}, reason \in Reasons :
            result' = Result(e, mode, reason)
      BY <2>3 DEF Write, ReturnDuplicate, RejectClaim, RejectStale, CommitFirst,
                  CommitIndependent, RetainConflict, Modes, Reasons
    <3>2. result'.mode # "causal_supersede"
      BY <3>1 DEF Result
    <3> QED
      BY <3>2 DEF SupersedeIsTotal
  <2> QED
    BY <2>1, <2>2, <2>3 DEF Next
<1> QED
  BY <1>1, <1>2, Invariance, TypeCorrect, PTL DEF Spec

\* No step rewrites what was committed, whatever the ordering and the claims.
THEOREM CommittedIsFinalHolds == Spec => CommittedIsFinal
<1>1. [Next]_vars
        => [\A e \in stored : e \in stored' /\ supersedes'[e] = supersedes[e]]_vars
  <2> SUFFICES ASSUME NEW w \in Event, NEW claims \in ClaimSets, Write(w, claims)
               PROVE  \A e \in stored : e \in stored' /\ supersedes'[e] = supersedes[e]
    BY DEF Next
  <2>1. ASSUME NEW sups, AppendEvent(w, sups), w \notin stored
        PROVE  \A e \in stored : e \in stored' /\ supersedes'[e] = supersedes[e]
    BY <2>1 DEF AppendEvent
  <2>2. CASE UNCHANGED <<stored, supersedes>>
    BY <2>2
  <2> QED
    BY <2>1, <2>2 DEF Write, ReturnDuplicate, RejectClaim, RejectStale, CommitFirst,
           CommitSupersede, CommitIndependent, RetainConflict, Admissible, Fresh,
           IsDuplicate
<1> QED
  BY <1>1, PTL DEF Spec, CommittedIsFinal

---------------------------------------------------------------------------
(* The store on GeometricOrdering *)

\* A store on GeometricOrdering has a strict partial order.
LEMMA GeometricOrderIsStrict == ASSUME OrderIsGeometric PROVE StrictOrder
  BY GeometricIsStrict DEF OrderIsGeometric, StrictOrder

\* Convergence with no hypothesis on the ordering but that it is the geometric one.
THEOREM GeometricConvergence == OrderIsGeometric => (Spec => []FrontierIsMaximal)
  BY GeometricOrderIsStrict, Convergence

\* What is no longer current was surely earlier than something current.
THEOREM ReplacedWasSurelyEarlierHolds ==
    OrderIsGeometric => (Spec => []ReplacedWasSurelyEarlier)
<1> SUFFICES ASSUME OrderIsGeometric PROVE Spec => []ReplacedWasSurelyEarlier
  OBVIOUS
<1>1. StrictOrder
  BY GeometricOrderIsStrict
<1>2. Inv => ReplacedWasSurelyEarlier
  <2> SUFFICES ASSUME Inv, NEW e \in stored
               PROVE  \E f \in Frontier(KeyOf(e)) :
                        e = f \/ SurelyReachable(ClockOf(e), ClockOf(f))
    BY DEF ReplacedWasSurelyEarlier
  <2>1. PICK f \in Frontier(KeyOf(e)) : f = e \/ Before(e, f)
    BY DEF Inv, NothingLost
  <2>2. e \in Event /\ f \in Event
    BY DEF Inv, TypeOK, Frontier, EventsForKey
  <2> QED
    BY <2>1, <2>2, BeforeIsSure DEF OrderIsGeometric
<1> QED
  BY <1>1, <1>2, Invariance, PTL

\* Writes committed without coordination are spacelike to what stays current.
THEOREM CoordinationFreeIsSpacelikeHolds ==
    OrderIsGeometric => (Spec => []CoordinationFreeIsSpacelike)
<1> SUFFICES ASSUME OrderIsGeometric PROVE Spec => []CoordinationFreeIsSpacelike
  OBVIOUS
<1> DEFINE Free == CoordinationFreeIsSpacelike
<1>1. StrictOrder
  BY GeometricOrderIsStrict
<1>2. Init => Free
  <2> SUFFICES ASSUME Init PROVE Free
    OBVIOUS
  <2>1. result = Result(NoEvent, "none", "")
    BY DEF Init
  <2>2. result.mode # "coordination_free"
    BY <2>1 DEF Result
  <2> QED
    BY <2>2 DEF CoordinationFreeIsSpacelike
<1>3. TypeOK' /\ Inv /\ Free /\ [Next]_vars => Free'
  <2> SUFFICES ASSUME TypeOK', Inv, Free, [Next]_vars PROVE Free'
    OBVIOUS
  <2>1. CASE UNCHANGED vars
    BY <2>1 DEF vars, CoordinationFreeIsSpacelike, Frontier, EventsForKey, Superseded
  <2>2. ASSUME NEW e \in Event, NEW sups, AppendEvent(e, sups), e \notin stored,
               result'.event = e, IndependentOfAll(e)
        PROVE  Free'
    <3> SUFFICES ASSUME NEW f \in Frontier(KeyOf(e))', f # e
                 PROVE  /\ ~MayHaveCaused(ClockOf(f), ClockOf(e))
                        /\ ~MayHaveCaused(ClockOf(e), ClockOf(f))
      BY <2>2 DEF CoordinationFreeIsSpacelike
    <3>1. f \in Frontier(KeyOf(e))
      BY <2>2 DEF Frontier, EventsForKey, Superseded, AppendEvent
    <3>2. f \in Event
      BY <3>1 DEF Inv, TypeOK, Frontier, EventsForKey
    <3>3. ProvenIndependent(f, e)
      BY <2>2, <3>1 DEF IndependentOfAll
    <3> QED
      BY <2>2, <3>2, <3>3, IndependenceIsSure
         DEF OrderIsGeometric, ProvenIndependent, Concurrent
  <2>3. ASSUME NEW e \in Event, NEW claims \in ClaimSets, CommitFirst(e, claims)
        PROVE  Free'
    <3>1. AppendEvent(e, claims) /\ e \notin stored /\ Frontier(KeyOf(e)) = {}
      BY <2>3 DEF CommitFirst, Admissible, Fresh, IsDuplicate
    <3>2. result'.event = e
      BY <2>3 DEF CommitFirst, Result
    <3>3. IndependentOfAll(e)
      BY <3>1 DEF IndependentOfAll
    <3> QED
      BY <2>2, <3>1, <3>2, <3>3
  <2>4. ASSUME NEW e \in Event, NEW claims \in ClaimSets, CommitIndependent(e, claims)
        PROVE  Free'
    <3>1. AppendEvent(e, claims) /\ e \notin stored /\ IndependentOfAll(e)
      BY <2>4 DEF CommitIndependent, Admissible, Fresh, IsDuplicate
    <3>2. result'.event = e
      BY <2>4 DEF CommitIndependent, Result
    <3> QED
      BY <2>2, <3>1, <3>2
  <2>5. ASSUME NEW e \in Event, NEW claims \in ClaimSets, Write(e, claims),
               ~CommitFirst(e, claims), ~CommitIndependent(e, claims)
        PROVE  Free'
    <3>1. PICK mode \in Modes \ {"coordination_free"}, reason \in Reasons :
            result' = Result(e, mode, reason)
      BY <2>5 DEF Write, ReturnDuplicate, RejectClaim, RejectStale, CommitSupersede,
                  RetainConflict, Modes, Reasons
    <3>2. result'.mode # "coordination_free"
      BY <3>1 DEF Result
    <3> QED
      BY <3>2 DEF CoordinationFreeIsSpacelike
  <2> QED
    BY <2>1, <2>3, <2>4, <2>5 DEF Next
<1> QED
  BY <1>1, <1>2, <1>3, Invariance, TypeCorrect, PTL DEF Spec

---------------------------------------------------------------------------
(* The store on HybridOrdering *)

\* The events written so far are of one execution, and whatever was superseded was
\* ordered before what superseded it: by one rule or by the other.
HybridInv ==
    /\ stored \subseteq delivered
    /\ \A a, b \in delivered : LogBefore(ClockOf(a), ClockOf(b)) => Reached(a, b)
    /\ \A o \in stored : \A p \in supersedes[o] : p \in stored /\ Before(p, o)

\* What write() appends, on any ordering: claims and current events, all of them
\* stored and before the event.
LEMMA AppendsAncestors ==
    ASSUME NEW e \in Event, NEW claims,
           \/ CommitFirst(e, claims) \/ CommitSupersede(e, claims)
           \/ CommitIndependent(e, claims) \/ RetainConflict(e, claims)
    PROVE  \E sups : AppendEvent(e, sups) /\ \A p \in sups : p \in stored /\ Before(p, e)
<1>1. Admissible(e, claims)
  BY DEF CommitFirst, CommitSupersede, CommitIndependent, RetainConflict
<1>2. /\ \A p \in claims : p \in stored /\ Before(p, e)
      /\ \A p \in Ancestors(e) : p \in stored /\ Before(p, e)
  BY <1>1 DEF Admissible, BadClaims, Ancestors, Frontier, EventsForKey
<1>3. CASE CommitFirst(e, claims) \/ CommitIndependent(e, claims)
  BY <1>2, <1>3 DEF CommitFirst, CommitIndependent
<1>4. CASE CommitSupersede(e, claims)
  <2>1. AppendEvent(e, claims \cup Frontier(KeyOf(e))) /\ Frontier(KeyOf(e)) = Ancestors(e)
    BY <1>4 DEF CommitSupersede, FollowsAll
  <2>2. \A p \in claims \cup Frontier(KeyOf(e)) : p \in stored /\ Before(p, e)
    BY <1>2, <2>1
  <2> QED
    BY <2>1, <2>2
<1>5. CASE RetainConflict(e, claims)
  <2>1. AppendEvent(e, claims \cup Ancestors(e))
    BY <1>5 DEF RetainConflict
  <2>2. \A p \in claims \cup Ancestors(e) : p \in stored /\ Before(p, e)
    BY <1>2
  <2> QED
    BY <2>1, <2>2
<1> QED
  BY <1>3, <1>4, <1>5

LEMMA HybridStep ==
    ASSUME HybridInv, NEW e \in Event, Consistent(e), NEW claims, Write(e, claims)
    PROVE  HybridInv'
<1>1. delivered' \subseteq delivered \cup {e}
  BY DEF Write, ReturnDuplicate, RejectClaim, RejectStale, AppendEvent, CommitFirst, CommitSupersede,
         CommitIndependent, RetainConflict
<1>2. \A a, b \in delivered' : LogBefore(ClockOf(a), ClockOf(b)) => Reached(a, b)
  <2>1. ~LogBefore(ClockOf(e), ClockOf(e))
    BY DEF LogBefore
  <2> QED
    BY <1>1, <2>1 DEF HybridInv, Consistent
<1>3. CASE stored' = stored /\ supersedes' = supersedes /\ delivered \subseteq delivered'
  BY <1>2, <1>3 DEF HybridInv
<1>4. ASSUME NEW sups, AppendEvent(e, sups), \A p \in sups : p \in stored /\ Before(p, e)
      PROVE  HybridInv'
  <2>1. stored' = stored \cup {e} /\ delivered' = delivered \cup {e}
    BY <1>4 DEF AppendEvent
  <2>2. \A o \in stored' : supersedes'[o] = IF o = e THEN sups ELSE supersedes[o]
    BY <1>4 DEF AppendEvent
  <2>3. ASSUME NEW o \in stored', NEW p \in supersedes'[o] PROVE p \in stored' /\ Before(p, o)
    <3>1. CASE o = e
      BY <1>4, <2>1, <2>2, <2>3, <3>1
    <3>2. CASE o # e
      BY <2>1, <2>2, <2>3, <3>2 DEF HybridInv
    <3> QED
      BY <3>1, <3>2
  <2> QED
    BY <1>2, <2>1, <2>3 DEF HybridInv
<1>5. CASE CommitFirst(e, claims) \/ CommitSupersede(e, claims)
             \/ CommitIndependent(e, claims) \/ RetainConflict(e, claims)
  BY <1>4, <1>5, AppendsAncestors
<1>6. CASE ReturnDuplicate(e) \/ RejectClaim(e, claims) \/ RejectStale(e, claims)
  BY <1>3, <1>6 DEF ReturnDuplicate, RejectClaim, RejectStale
<1> QED
  BY <1>5, <1>6 DEF Write

LEMMA HybridInvariance == HybridSpec => [](HybridInv /\ TypeOK)
<1>1. Init => HybridInv
  BY DEF Init, HybridInv
<1>2. HybridInv /\ [HybridNext]_vars => HybridInv'
  <2>1. ASSUME HybridInv, UNCHANGED vars PROVE HybridInv'
    BY <2>1 DEF HybridInv, vars
  <2> QED
    BY <2>1, HybridStep DEF HybridNext
<1>3. [HybridNext]_vars => [Next]_vars
  BY DEF HybridNext, Next
<1> QED
  BY <1>1, <1>2, <1>3, TypeCorrect, PTL DEF HybridSpec, Spec

\* ordering.py, store.py: on the hybrid order, which is not transitive, whatever a
\* write supersedes or claims was really reached first, in every consistent
\* execution.
THEOREM SupersededWasReachedHolds == OrderIsHybrid => (HybridSpec => []SupersededWasReached)
<1>1. ASSUME OrderIsHybrid, HybridInv, TypeOK PROVE SupersededWasReached
  <2> SUFFICES ASSUME NEW o \in stored, NEW p \in supersedes[o]
               PROVE  HappenedAt(o) - HappenedAt(p) >= Floor(ClockOf(p), ClockOf(o))
    BY DEF SupersededWasReached
  <2>1. p \in stored /\ Before(p, o)
    BY <1>1 DEF HybridInv
  <2>2. o \in Event /\ p \in Event
    BY <1>1, <2>1 DEF TypeOK
  <2> DEFINE a == ClockOf(p)
             b == ClockOf(o)
             s == HappenedAt(p)
             t == HappenedAt(o)
  <2>3. /\ IsGeoClock(a) /\ IsGeoClock(b) /\ s \in Int /\ t \in Int
        /\ a.time_ns - s \in (-a.u_ns)..a.u_ns /\ b.time_ns - t \in (-b.u_ns)..b.u_ns
        /\ HybridBefore(a, b)
    BY <1>1, <2>1, <2>2 DEF OrderIsHybrid
  <2>4. CASE GeoBefore(a, b)
    <3> HIDE DEF a, b, s, t
    <3>1. SurelyReachable(a, b)
      BY <2>3, <2>4, BeforeIsSure
    <3>2. t - s \in TrueElapsed(a, b)
      BY <2>3 DEF TrueElapsed, Elapsed, CombinedU, IsGeoClock
    <3> QED
      BY <3>1, <3>2 DEF SurelyReachable, a, b, s, t
  <2>5. CASE LogBefore(a, b)
    <3>1. p \in delivered /\ o \in delivered
      BY <1>1, <2>1 DEF HybridInv
    <3> QED
      BY <1>1, <2>5, <3>1 DEF HybridInv, Reached
  <2> QED
    BY <2>3, <2>4, <2>5 DEF HybridBefore
<1>2. CASE OrderIsHybrid
  BY <1>1, <1>2, HybridInvariance, PTL
<1> QED
  BY <1>2
=============================================================================
