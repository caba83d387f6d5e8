------------------------------ MODULE Workload ------------------------------
(***************************************************************************)
(* The traces of causal-store's benchmark harness: the operations that       *)
(* generate_trace (workload_gen.py) emits, and the ground truth it attaches   *)
(* to them.  An operation is known by its position in the trace, its op_id.   *)
(* The pseudo-random choices of key, region and time step are any choices:    *)
(* with a contention ratio strictly between 0 and 1, and a key space that may *)
(* be used up, the generator can draw every key at every operation.           *)
(***************************************************************************)
EXTENDS LightCone, SequencesExt, FiniteSetsExt

CONSTANTS Key, Region, PosOf(_),
          Steps,        \* the increments of logical time (time_step_range)
          MaxOps        \* bound: the length of a trace

ASSUME WorkloadAssumption == Steps \subseteq Nat /\ MaxOps \in Nat

OpId(tr) == 1..Len(tr)

\* The operation that last wrote the key, if there is one.
LastWriter(tr, key) ==
    LET writers == {i \in OpId(tr) : tr[i].key = key}
    IN  IF writers = {} THEN {} ELSE {Max(writers)}

Now(tr) == IF tr = <<>> THEN 0 ELSE tr[Len(tr)].t_logical_ns

\* A signal from operation p can have arrived at the region by time t.
SignalArrives(tr, p, region, t) ==
    t - tr[p].t_logical_ns >= MinLightTime(PosOf(tr[p].origin_region), PosOf(region))

\* One round of the generator's loop.  A write depends on the last writer of
\* its key when a signal can have arrived, and otherwise is flagged concurrent
\* with it.
NextOp(tr, key, region, step) ==
    LET t == Now(tr) + step
        preds == LastWriter(tr, key)
        deps == {p \in preds : SignalArrives(tr, p, region, t)}
    IN  [key |-> key, origin_region |-> region, t_logical_ns |-> t,
         depends_on |-> SetToSeq(deps), concurrent_with |-> preds \ deps]

\* Every trace of at most MaxOps operations.
Traces ==
    LET gen[n \in Nat] ==
          IF n = 0 THEN {<<>>}
          ELSE {Append(s, NextOp(s, k, r, d)) :
                  s \in gen[n - 1], k \in Key, r \in Region, d \in Steps}
    IN  gen[MaxOps]
=============================================================================
