---------------------------- MODULE CausalStore ----------------------------
(***************************************************************************)
(* The coordination-free event store, causalstore/store.py, on its           *)
(* in-memory backend, called by one thread at a time.  An event is           *)
(* identified by its event_id, a hash of key, value, origin node and clock:  *)
(* it is a member of Event, and KeyOf gives its key.  The ordering (one of   *)
(* module Ordering's) is the parameters Before and Resolves.                 *)
(*                                                                           *)
(* The supersedes argument is not part of the event_id: the caller may name  *)
(* any ids, of events stored or not, of the same key or not.                 *)
(***************************************************************************)
EXTENDS Integers, FiniteSets

CONSTANTS Event, Key, KeyOf(_),
          Before(_, _), Resolves(_, _),
          ClaimSets,    \* the supersedes arguments callers pass
          NoEvent,      \* no write has returned yet
          MaxCalls      \* bound: the calls of write that are not duplicates

ASSUME KeyOfType   == \A e \in Event : KeyOf(e) \in Key
ASSUME ClaimsType  == ClaimSets \subseteq SUBSET Event
ASSUME NoEventType == NoEvent \notin Event

VARIABLES stored,       \* InMemoryBackend: the ids appended so far
          supersedes,   \* the supersedes list stored with each event
          stats,        \* CausalStore.stats
          result,       \* the CommitResult of the last write
          delivered     \* history: the writes admitted, or refused as stale

vars == <<stored, supersedes, stats, result, delivered>>

Modes == {"none", "duplicate_ignored", "rejected", "coordination_free",
          "causal_supersede", "conflict_retained"}
Reasons == {"", "unknown_predecessor", "supersedes_non_ancestor",
            "stale_write_dominated_by_existing_frontier"}

Result(e, mode, reason) == [event |-> e, mode |-> mode, reason |-> reason]

Stats(total, free, coordinated) ==
    [total |-> total, coordination_free |-> free, coordinated |-> coordinated]

TypeOK ==
    /\ stored \subseteq Event
    /\ supersedes \in [stored -> SUBSET Event]
    /\ stats \in [total : Nat, coordination_free : Nat, coordinated : Nat]
    /\ result \in [event : Event \cup {NoEvent}, mode : Modes, reason : Reasons]
    /\ delivered \subseteq Event

Init ==
    /\ stored = {}
    /\ supersedes = [e \in {} |-> {}]
    /\ stats = Stats(0, 0, 0)
    /\ result = Result(NoEvent, "none", "")
    /\ delivered = {}

---------------------------------------------------------------------------
(* What a write looks at before it decides *)

EventsForKey(k) == {e \in stored : KeyOf(e) = k}

Superseded(e) == \E o \in EventsForKey(KeyOf(e)) \ {e} : e \in supersedes[o]

Frontier(k) == {e \in EventsForKey(k) : ~Superseded(e)}

IsDuplicate(e) == e \in stored

\* A mutated form of BadClaims: the claimed ancestor only has to exist.
BadClaimsUnchecked(e, claims) == claims \ stored
BadClaims(e, claims) == {p \in claims : p \notin stored \/ ~Before(p, e)}

\* A mutated form of Dominators: staleness is never tested (the erratum).
DominatorsNone(e) == {}
\* Another: staleness is only tested while the key is resolved.
DominatorsIfResolved(e) ==
    {f \in Frontier(KeyOf(e)) : Before(e, f) /\ Cardinality(Frontier(KeyOf(e))) = 1}
Dominators(e) == {f \in Frontier(KeyOf(e)) : Before(e, f)}

Ancestors(e) == {f \in Frontier(KeyOf(e)) : Before(f, e)}

Concurrent(a, b) == ~Before(a, b) /\ ~Before(b, a)

\* A mutated form of ProvenIndependent: an apparatus-limited pair passes.
ConcurrentOnly(f, e) == Concurrent(f, e)
ProvenIndependent(f, e) == Concurrent(f, e) /\ Resolves(f, e) /\ Resolves(e, f)

---------------------------------------------------------------------------
(* write: one disjunct for each way it returns, in the code's order *)

CountFree ==
    Stats(stats.total + 1, stats.coordination_free + 1, stats.coordinated)
CountCoordinated ==
    Stats(stats.total + 1, stats.coordination_free, stats.coordinated + 1)
CountRefusal ==
    Stats(stats.total + 1, stats.coordination_free, stats.coordinated)

ReturnDuplicate(e) ==
    /\ IsDuplicate(e)
    /\ result' = Result(e, "duplicate_ignored", "")
    /\ UNCHANGED <<stored, supersedes, stats, delivered>>

Fresh(e) == ~IsDuplicate(e) /\ stats.total < MaxCalls

\* The list is tested in the caller's order, so any bad claim may be the first.
RejectClaim(e, claims) ==
    /\ Fresh(e)
    /\ \E p \in BadClaims(e, claims) :
         result' = Result(e, "rejected", IF p \notin stored
                                         THEN "unknown_predecessor"
                                         ELSE "supersedes_non_ancestor")
    /\ stats' = CountRefusal
    /\ UNCHANGED <<stored, supersedes, delivered>>

RejectStale(e, claims) ==
    /\ Fresh(e) /\ BadClaims(e, claims) = {}
    /\ Dominators(e) # {}
    /\ result' = Result(e, "rejected", "stale_write_dominated_by_existing_frontier")
    /\ stats' = CountRefusal
    /\ delivered' = delivered \cup {e}
    /\ UNCHANGED <<stored, supersedes>>

AppendEvent(e, sups) ==
    /\ stored' = stored \cup {e}
    /\ supersedes' = [o \in stored \cup {e} |-> IF o = e THEN sups ELSE supersedes[o]]
    /\ delivered' = delivered \cup {e}

\* The claims are valid and nothing current is after e.
Admissible(e, claims) ==
    Fresh(e) /\ BadClaims(e, claims) = {} /\ Dominators(e) = {}

FollowsAll(e) == Ancestors(e) = Frontier(KeyOf(e))
IndependentOfAll(e) == \A f \in Frontier(KeyOf(e)) : ProvenIndependent(f, e)

CommitFirst(e, claims) ==
    /\ Admissible(e, claims) /\ Frontier(KeyOf(e)) = {}
    /\ AppendEvent(e, claims)
    /\ stats' = CountFree
    /\ result' = Result(e, "coordination_free", "")

CommitSupersede(e, claims) ==
    /\ Admissible(e, claims) /\ Frontier(KeyOf(e)) # {} /\ FollowsAll(e)
    /\ AppendEvent(e, claims \cup Frontier(KeyOf(e)))
    /\ stats' = CountFree
    /\ result' = Result(e, "causal_supersede", "")

CommitIndependent(e, claims) ==
    /\ Admissible(e, claims) /\ ~FollowsAll(e) /\ IndependentOfAll(e)
    /\ AppendEvent(e, claims)
    /\ stats' = CountFree
    /\ result' = Result(e, "coordination_free", "")

RetainConflict(e, claims) ==
    /\ Admissible(e, claims) /\ ~FollowsAll(e) /\ ~IndependentOfAll(e)
    /\ AppendEvent(e, claims \cup Ancestors(e))
    /\ stats' = CountCoordinated
    /\ result' = Result(e, "conflict_retained", "")

Write(e, claims) ==
    \/ ReturnDuplicate(e)
    \/ RejectClaim(e, claims)
    \/ RejectStale(e, claims)
    \/ CommitFirst(e, claims)
    \/ CommitSupersede(e, claims)
    \/ CommitIndependent(e, claims)
    \/ RetainConflict(e, claims)

Next == \E e \in Event, claims \in ClaimSets : Write(e, claims)

Spec == Init /\ [][Next]_vars

\* read: the answer is a function of the frontier and changes nothing.
Read(k) ==
    [status |-> CASE Frontier(k) = {}              -> "EMPTY"
                  [] Cardinality(Frontier(k)) = 1  -> "RESOLVED"
                  [] OTHER                         -> "CONFLICT",
     candidates |-> Frontier(k)]

---------------------------------------------------------------------------
(* Properties *)

\* The ordering is a strict partial order on the events, as "is a in b's causal
\* past" (ordering.py) says it is; GeometricOrdering and LogicalOrdering are.
StrictOrder ==
    /\ \A a \in Event : ~Before(a, a)
    /\ \A a, b, c \in Event : Before(a, b) /\ Before(b, c) => Before(a, c)

Register == INSTANCE MVRegister WITH siblings <- [k \in Key |-> Frontier(k)]

\* What a reader of a key sees depends on which writes were delivered and not
\* on their order, on retries, or on the claims they carried: it is the
\* delivered writes that no delivered write of the key is causally after
\* (_frontier, write).
FrontierIsMaximal == \A k \in Key : Frontier(k) = Register!Maximal(delivered, k)

\* The store implements the multi-value register (MVRegister).
RefinesRegister == Register!Spec

\* Every supersedes entry names a stored event that is causally before its
\* holder, whether the caller claimed it or write() added it.
SupersedesIsCausal ==
    \A o \in stored : \A p \in supersedes[o] : p \in stored /\ Before(p, o)

\* No write is silently dropped: every stored event is current, or is causally
\* before a current event of its key that replaced it.
NothingLost ==
    \A e \in stored :
      \E f \in Frontier(KeyOf(e)) : f = e \/ Before(e, f)

\* Of two stored events of a key, the causally earlier one has been superseded:
\* the current events of a key are an antichain.
EarlierIsSuperseded ==
    \A a, b \in stored : KeyOf(a) = KeyOf(b) /\ Before(a, b) => Superseded(a)

\* Every stored event was delivered, and a delivered event that is not stored
\* was refused because a stored event of its key is causally after it.
DeliveredIsAccounted ==
    /\ stored \subseteq delivered
    /\ \A d \in delivered \ stored :
         \E o \in stored : KeyOf(o) = KeyOf(d) /\ Before(d, o)

\* The inductive invariant behind FrontierIsMaximal.
Inv == TypeOK /\ SupersedesIsCausal /\ NothingLost
              /\ EarlierIsSuperseded /\ DeliveredIsAccounted

\* A "clean" supersede is clean: when write() answers causal_supersede every
\* event of the key ever stored, and not only the frontier it compared with,
\* is in the new event's causal past, and the key reads as resolved.
SupersedeIsTotal ==
    result.mode = "causal_supersede" =>
      LET e == result.event
      IN  /\ Frontier(KeyOf(e)) = {e}
          /\ \A o \in EventsForKey(KeyOf(e)) \ {e} : Before(o, e)

\* A retry never changes what was committed: an event once appended keeps the
\* supersedes list it was appended with, whatever the retry claims.
CommittedIsFinal ==
    [][\A e \in stored : e \in stored' /\ supersedes'[e] = supersedes[e]]_vars

\* A current value stops being current only by the commit of a write that is
\* causally after it: no classification drops a concurrent value.
OnlySuccessorsReplace ==
    [][\A k \in Key : \A f \in Frontier(k) \ Frontier(k)' :
         result'.event \in Frontier(k)' /\ Before(f, result'.event)]_vars

\* A value that stopped being current, or was refused as stale, never becomes
\* current again, however often it is retried (the erratum of store.py).
StaleStaysStale ==
    [][\A k \in Key : (delivered \ Frontier(k)) \cap Frontier(k)' = {}]_vars

\* No current event is causally before another stored event of its key: "a
\* causally-stale write is REJECTED rather than resurrected as a live conflict
\* candidate" (d0-spec.md, gate D0-B).
CurrentIsNotStale ==
    \A k \in Key : \A e \in Frontier(k) : ~\E o \in EventsForKey(k) : Before(e, o)
=============================================================================
