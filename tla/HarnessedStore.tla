--------------------------- MODULE HarnessedStore ---------------------------
(***************************************************************************)
(* The harness driving causal-store: Driver's worker threads call apply_op of *)
(* the causal-store adapter (adapters/causalstore_adapter.py), which calls    *)
(* CausalStore.write.  Neither takes a lock, so a call is several steps, and   *)
(* those of different threads interleave.  "+=" on a shared counter is a load  *)
(* and a store, as it is in the oldest interpreter the repository is tested    *)
(* on.                                                                        *)
(*                                                                           *)
(* An operation's value is its own, so no two operations have the same        *)
(* event_id, and the store's duplicate test never answers.                    *)
(***************************************************************************)
EXTENDS Driver, Workload, Ordering

CONSTANTS UOf(_),       \* the clock uncertainty of a region
          NoEvent

VARIABLES counter,      \* _vc_counter: per region
          log,          \* the backend: the events in the order they were appended
          supersedes,   \* the supersedes list stored with each event
          stats,        \* CausalStore.stats
          nextSeq,      \* the itertools.count behind commit_seq
          commitSeq,    \* of each accepted operation; -1 for none
          opToEvent,    \* _op_to_event
          at,           \* where each worker is in apply_op
          local,        \* its local variables
          result,       \* history: the last decision of write
          delivered     \* history: the writes admitted, or refused as stale

adapterVars == <<counter, log, supersedes, stats, nextSeq, commitSeq, opToEvent,
                 at, local, result, delivered>>
vars == <<driverVars, adapterVars>>

\* The events the operations of a trace can become.
EventOf(o, key, t, r, tick) ==
    [op |-> o, key |-> key,
     clock |-> [time_ns |-> t, pos_nm |-> PosOf(r), u_ns |-> UOf(r), vc |-> [n \in {r} |-> tick]]]
Event == UNION {{EventOf(o, key, t, r, tick) :
                   key \in Key, t \in o..(o * Max(Steps)), r \in Region, tick \in 1..MaxOps} :
                o \in 1..MaxOps}
KeyOfEvent(e) == e.key
EventBefore(a, b) == HybridBefore(a.clock, b.clock)
EventResolves(a, b) == TRUE

stored == Range(log)

\* The workers that are at a step of apply_op.
Doing(step) == {w \in Worker : at[w] = step}

\* The store this is a threaded implementation of.  Its counters are those of
\* the code once no worker is between an event and a counter.
Store == INSTANCE CausalStore
           WITH KeyOf <- KeyOfEvent, Before <- EventBefore, Resolves <- EventResolves,
                ClaimSets <- {}, MaxCalls <- MaxOps,
                stats <- [total |-> stats.total - Cardinality(Doing("decide")),
                          coordination_free |-> stats.coordination_free +
                            Cardinality(Doing("coordination_free")),
                          coordinated |-> stats.coordinated +
                            Cardinality(Doing("coordinated"))]

\* The mapping f with an entry for x.
With(f, x, y) == [z \in DOMAIN f \cup {x} |-> IF z = x THEN y ELSE f[z]]

NoLocals == [value |-> 0, event |-> NoEvent, claims |-> {}, frontier |-> {}]

Init ==
    /\ DriverInit(Traces)
    /\ counter = [r \in Region |-> 0]
    /\ log = <<>> /\ supersedes = <<>>
    /\ stats = Store!Stats(0, 0, 0)
    /\ nextSeq = 0 /\ commitSeq = [o \in 1..MaxOps |-> -1]
    /\ opToEvent = <<>>
    /\ at = [w \in Worker |-> "load"]
    /\ local = [w \in Worker |-> NoLocals]
    /\ result = Store!Result(NoEvent, "none", "")
    /\ delivered = {}

---------------------------------------------------------------------------
(* apply_op, before the call of write *)

\* The worker goes on from one step of apply_op to another.
Goto(w, here, there) ==
    /\ pc[w] = "apply" /\ at[w] = here
    /\ at' = [at EXCEPT ![w] = there]
    /\ UNCHANGED driverVars

RegionOf(w) == trace[task[w]].origin_region

LoadCounter(w) ==
    /\ Goto(w, "load", "store")
    /\ local' = [local EXCEPT ![w].value = counter[RegionOf(w)]]
    /\ UNCHANGED <<counter, log, supersedes, stats, nextSeq, commitSeq, opToEvent, result, delivered>>

StoreCounter(w) ==
    /\ Goto(w, "store", "stamp")
    /\ counter' = [counter EXCEPT ![RegionOf(w)] = local[w].value + 1]
    /\ UNCHANGED <<log, supersedes, stats, nextSeq, commitSeq, opToEvent, local, result, delivered>>

ClaimsOf(o) == {opToEvent[d] : d \in Range(DependsOn(o)) \cap DOMAIN opToEvent}

\* The counter is read again for the clock, and the predecessors are looked up.
Stamp(w) ==
    /\ Goto(w, "stamp", "look")
    /\ local' = [local EXCEPT ![w].event = EventOf(task[w], trace[task[w]].key, trace[task[w]].t_logical_ns,
                                                         RegionOf(w), counter[RegionOf(w)]),
                              ![w].claims = ClaimsOf(task[w])]
    /\ UNCHANGED <<counter, log, supersedes, stats, nextSeq, commitSeq, opToEvent, result, delivered>>

---------------------------------------------------------------------------
(* CausalStore.write *)

\* The frontier is a copy, and everything after works on the copy.
Look(w) ==
    /\ Goto(w, "look", "total")
    /\ local' = [local EXCEPT ![w].frontier = Store!Frontier(local[w].event.key),
                              ![w].value = stats.total]
    /\ UNCHANGED <<counter, log, supersedes, stats, nextSeq, commitSeq, opToEvent, result, delivered>>

CountTotal(w) ==
    /\ Goto(w, "total", "decide")
    /\ stats' = [stats EXCEPT !.total = local[w].value + 1]
    /\ UNCHANGED <<counter, log, supersedes, nextSeq, commitSeq, opToEvent, local, result, delivered>>

\* A mutated form of Decision: any() where the code has all().
DecisionAny(e, claims, frontier) ==
    IF Store!BadClaims(e, claims) # {} THEN "rejected"
    ELSE IF frontier = {} THEN "coordination_free"
    ELSE IF \E f \in frontier : EventBefore(e, f) THEN "rejected"
    ELSE IF \E f \in frontier : EventBefore(f, e) THEN "causal_supersede"
    ELSE IF \A f \in frontier : Store!ProvenIndependent(f, e) THEN "coordination_free"
    ELSE "conflict_retained"
\* The mode write answers for an event, its claims and the frontier it saw.
Decision(e, claims, frontier) ==
    IF Store!BadClaims(e, claims) # {} THEN "rejected"
    ELSE IF frontier = {} THEN "coordination_free"
    ELSE IF \E f \in frontier : EventBefore(e, f) THEN "rejected"
    ELSE IF \A f \in frontier : EventBefore(f, e) THEN "causal_supersede"
    ELSE IF \A f \in frontier : Store!ProvenIndependent(f, e) THEN "coordination_free"
    ELSE "conflict_retained"

\* apply_op returns a rejection, without a commit_seq.
Reject(w) ==
    LET e == local[w].event
        bad == Store!BadClaims(e, local[w].claims)
    IN  /\ at[w] = "decide" /\ Decision(e, local[w].claims, local[w].frontier) = "rejected"
        /\ Return(w)
        /\ at' = [at EXCEPT ![w] = "load"]
        /\ local' = [local EXCEPT ![w] = NoLocals]
        /\ result' = Store!Result(e, "rejected",
                         IF bad = {} THEN "stale_write_dominated_by_existing_frontier"
                         ELSE IF bad \subseteq stored THEN "supersedes_non_ancestor"
                         ELSE "unknown_predecessor")
        /\ delivered' = IF bad = {} THEN delivered \cup {e} ELSE delivered
        /\ UNCHANGED <<counter, log, supersedes, stats, nextSeq, commitSeq, opToEvent>>

Replaced(e, frontier) == {f \in frontier : EventBefore(f, e)}

\* The counter a commit adds to; the worker at that step has its name.
Counter(mode) == IF mode = "conflict_retained" THEN "coordinated" ELSE "coordination_free"

Commit(w) ==
    LET e == local[w].event
        mode == Decision(e, local[w].claims, local[w].frontier)
    IN  /\ mode # "rejected"
        /\ Goto(w, "decide", Counter(mode))
        /\ log' = Append(log, e)
        /\ supersedes' = With(supersedes, e, local[w].claims \cup Replaced(e, local[w].frontier))
        /\ local' = [local EXCEPT ![w].value = stats[Counter(mode)]]
        /\ result' = Store!Result(e, mode, "")
        /\ delivered' = delivered \cup {e}
        /\ UNCHANGED <<counter, stats, nextSeq, commitSeq, opToEvent>>

CountCommit(w) ==
    \E c \in {"coordination_free", "coordinated"} :
      /\ Goto(w, c, "number")
      /\ stats' = [stats EXCEPT ![c] = local[w].value + 1]
      /\ UNCHANGED <<counter, log, supersedes, nextSeq, commitSeq, opToEvent, local, result, delivered>>

---------------------------------------------------------------------------
\* The rest of apply_op: the commit is numbered and the result returned.
Number(w) ==
    /\ at[w] = "number"
    /\ Return(w)
    /\ at' = [at EXCEPT ![w] = "load"]
    /\ nextSeq' = nextSeq + 1
    /\ commitSeq' = [commitSeq EXCEPT ![task[w]] = nextSeq]
    /\ opToEvent' = With(opToEvent, task[w], local[w].event)
    /\ local' = [local EXCEPT ![w] = NoLocals]
    /\ UNCHANGED <<counter, log, supersedes, stats, result, delivered>>

ApplyOp(w) ==
    \/ LoadCounter(w) \/ StoreCounter(w) \/ Stamp(w)
    \/ Look(w) \/ CountTotal(w) \/ Reject(w) \/ Commit(w) \/ CountCommit(w)
    \/ Number(w)

Next ==
    \/ (Submit \/ Finish \/ \E w \in Worker : Schedule(w)) /\ UNCHANGED adapterVars
    \/ \E w \in Worker : ApplyOp(w)

Spec == Init /\ [][Next]_vars

---------------------------------------------------------------------------
(* Properties *)

Accepted(o) == o \in DOMAIN opToEvent

\* verify_order finds no violation: of an operation and one it depends on, both
\* accepted, the dependency has the smaller commit_seq, and no accepted
\* operation is without one.
VerifyOrderHolds ==
    \A o \in Ops : Accepted(o) =>
      /\ commitSeq[o] # -1
      /\ \A d \in Range(DependsOn(o)) : Accepted(d) => commitSeq[d] < commitSeq[o]

\* The ordering places o after e, and the commit of o took e off the frontier.
ReplacedBy(e, o) ==
    o \in stored /\ o # e /\ o.key = e.key /\ e \in supersedes[o] /\ EventBefore(e, o)

\* However the threads interleave, no accepted write is lost without a trace: it is
\* current, or a chain of replacements, each by a write the ordering places after
\* the one replaced, leads from it to a current write.  (The ends of a chain need
\* not be ordered: operations of one region may get ticks in the other order than
\* their logical times, and then the hybrid ordering is not transitive.)
NothingLostByThreads ==
    \A e \in stored :
      \E n \in 1..Len(log) : \E chain \in [1..n -> stored] :
        /\ chain[1] = e /\ chain[n] \in Store!Frontier(e.key)
        /\ \A i \in 1..(n - 1) : ReplacedBy(chain[i], chain[i + 1])

FrontierIsFresh(w) == local[w].frontier = Store!Frontier(local[w].event.key)

\* The copy of the frontier is all that the missing lock of apply_op and write can
\* spoil: a decision taken while the copy is still the frontier is the atomic
\* write of CausalStore, on the store as it stands and with the predecessors the
\* adapter knows at that moment, whatever other threads did since the call began.
FreshWritesAreAtomic ==
    [][\A w \in Worker : at[w] = "decide" /\ at'[w] # "decide" /\ FrontierIsFresh(w) =>
         Store!Write(local[w].event, ClaimsOf(task[w]))]_vars

\* No current event is causally before another stored event of its key: a stale
\* write is rejected rather than kept as a live candidate (store.py, d0-spec.md).
CurrentIsNotStale == Store!CurrentIsNotStale
=============================================================================
