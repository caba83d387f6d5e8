------------------------ MODULE HarnessedStoreProofs ------------------------
(***************************************************************************)
(* The threads of the harness inside causal-store, for every number of them,  *)
(* every trace the generator emits and every geometry.                        *)
(***************************************************************************)
EXTENDS HarnessedStore, DriverProofs, LightConeProofs, FiniteSetTheorems

\* The operations of a trace have these fields.
Operation == [key : Key, origin_region : Region, t_logical_ns : Int,
              depends_on : Seq(Nat), concurrent_with : SUBSET Nat]

\* An operation depends on earlier ones, of its own key.
WellFormed(t) ==
    /\ t \in Seq(Operation)
    /\ \A o \in OpId(t) :
         /\ t[o].depends_on \in Seq(1..(o - 1))
         /\ \A j \in DOMAIN t[o].depends_on : t[t[o].depends_on[j]].key = t[o].key

\* A finite non-empty set of naturals has its greatest element as Max.
LEMMA MaxOfSome ==
    ASSUME NEW n \in Nat, NEW T \in SUBSET (1..n), T # {}
    PROVE  Max(T) \in T
<1> DEFINE B == {k \in Nat : \A x \in T : x <= k}
<1>1. B \in SUBSET Nat /\ n \in B
  OBVIOUS
<1> HIDE DEF B
<1>2. PICK m \in B : \A k \in B : m <= k
  BY <1>1, SmallestOf
<1>3. m \in Nat /\ \A x \in T : x <= m
  BY <1>2 DEF B
<1>4. m \in T
  <2>1. SUFFICES ASSUME m \notin T PROVE FALSE
    OBVIOUS
  <2>2. \A x \in T : x \in Nat /\ x >= 1 /\ x <= m /\ x # m
    BY <1>3, <2>1
  <2>3. \A x \in T : x <= m - 1
    BY <1>3, <2>2
  <2>5. m - 1 \in Nat
    <3>1. PICK x \in T : TRUE
      OBVIOUS
    <3> QED
      BY <1>3, <2>2, <3>1
  <2>4. m - 1 \in B
    BY <2>3, <2>5 DEF B
  <2> QED
    BY <1>2, <1>3, <2>4
<1>5. \E x \in T : \A y \in T : x >= y
  BY <1>3, <1>4
<1> QED
  BY <1>5 DEF Max

\* A set of at most one natural, as a sequence.
LEMMA SeqOfFew ==
    ASSUME NEW S \in SUBSET Nat, NEW T \in SUBSET S, T = {} \/ \E p : T = {p}
    PROVE  /\ SetToSeq(T) \in Seq(S)
           /\ \A j \in DOMAIN SetToSeq(T) : SetToSeq(T)[j] \in T
<1> DEFINE F == {f \in [1..Cardinality(T) -> T] : IsInjective(f)}
<1>1. Cardinality(T) \in Nat /\ F # {}
  <2>1. CASE T = {}
    <3>1. Cardinality(T) = 0
      BY <2>1, FS_EmptySet
    <3>2. 1..Cardinality(T) = {}
      BY <3>1
    <3> DEFINE none == [i \in {} |-> i]
    <3>3. none \in [{} -> T] /\ IsInjective(none)
      BY DEF IsInjective
    <3> HIDE DEF none
    <3>4. none \in [1..Cardinality(T) -> T]
      BY <3>2, <3>3
    <3>5. none \in F
      BY <3>3, <3>4
    <3> HIDE DEF F
    <3> QED
      BY <3>1, <3>5
  <2>2. CASE T # {}
    <3>1. PICK p : T = {p}
      BY <2>2
    <3>2. Cardinality(T) = 1
      BY <3>1, FS_Singleton
    <3>3. [i \in 1..1 |-> p] \in [1..1 -> T] /\ IsInjective([i \in 1..1 |-> p])
      BY <3>1 DEF IsInjective
    <3> QED
      BY <3>2, <3>3
  <2> QED
    BY <2>1, <2>2
<1>2. SetToSeq(T) \in F
  BY <1>1 DEF SetToSeq
<1>3. SetToSeq(T) \in [1..Cardinality(T) -> T]
  BY <1>2
<1>4. \A f \in [1..Cardinality(T) -> T] : f \in [1..Cardinality(T) -> S] /\ DOMAIN f = 1..Cardinality(T)
  OBVIOUS
<1>5. SetToSeq(T) \in [1..Cardinality(T) -> S]
  BY <1>3, <1>4
<1> QED
  BY <1>1, <1>3, <1>5

\* The generator's next operation depends on at most the last writer of its key.
LEMMA NextOpIsWellFormed ==
    ASSUME NEW s, WellFormed(s), NEW key \in Key, NEW region \in Region, NEW step \in Steps
    PROVE  /\ NextOp(s, key, region, step) \in Operation
           /\ WellFormed(Append(s, NextOp(s, key, region, step)))
           /\ Len(Append(s, NextOp(s, key, region, step))) = Len(s) + 1
<1> DEFINE n == Len(s)
           op == NextOp(s, key, region, step)
           t == Now(s) + step
           preds == LastWriter(s, key)
           deps == {p \in preds : SignalArrives(s, p, region, t)}
<1>1. n \in Nat /\ s \in Seq(Operation) /\ OpId(s) = 1..n
  BY DEF WellFormed, OpId
<1>2. preds \subseteq {i \in 1..n : s[i].key = key} /\ (preds = {} \/ \E p : preds = {p})
  <2> DEFINE writers == {i \in OpId(s) : s[i].key = key}
  <2>1. writers \in SUBSET (1..n)
    BY <1>1
  <2>2. preds = IF writers = {} THEN {} ELSE {Max(writers)}
    BY DEF LastWriter
  <2> HIDE DEF writers
  <2>3. writers # {} => Max(writers) \in writers
    BY <1>1, <2>1, MaxOfSome
  <2> QED
    BY <1>1, <2>2, <2>3 DEF writers
<1>3. deps \subseteq {i \in 1..n : s[i].key = key} /\ (deps = {} \/ \E p : deps = {p})
  BY <1>2
<1>4. /\ op.key = key /\ op.depends_on = SetToSeq(deps)
      /\ op = [key |-> key, origin_region |-> region, t_logical_ns |-> t,
               depends_on |-> SetToSeq(deps), concurrent_with |-> preds \ deps]
  BY DEF NextOp
<1> HIDE DEF deps, preds, op, n, t
<1>5. 1..n \in SUBSET Nat /\ deps \in SUBSET (1..n)
  BY <1>1, <1>3
<1>6. /\ SetToSeq(deps) \in Seq(1..n)
      /\ \A j \in DOMAIN SetToSeq(deps) : SetToSeq(deps)[j] \in deps
  BY <1>3, <1>5, SeqOfFew
<1>7. SetToSeq(deps) \in Seq(Nat)
  <2>1. deps \in SUBSET Nat /\ Nat \in SUBSET Nat
    BY <1>5
  <2> QED
    BY <1>3, <2>1, SeqOfFew
<1>8. t \in Int
  <2>1. Now(s) \in Int
    <3>1. CASE s = <<>>
      BY <3>1 DEF Now
    <3>2. CASE s # <<>>
      <4>1. s[Len(s)] \in Operation
        BY <1>1, <3>2
      <4> QED
        BY <3>2, <4>1 DEF Now, Operation
    <3> QED
      BY <3>1, <3>2
  <2>2. step \in Nat
    BY WorkloadAssumption
  <2> QED
    BY <2>1, <2>2 DEF t
<1>9. op \in Operation
  <2>1. preds \ deps \in SUBSET Nat
    <3>1. \A i \in preds : i \in Nat
      BY <1>1, <1>2
    <3> QED
      BY <3>1
  <2> QED
    BY <1>4, <1>7, <1>8, <2>1 DEF Operation
<1> DEFINE new == Append(s, op)
<1>10. /\ new \in Seq(Operation) /\ Len(new) = n + 1 /\ new[n + 1] = op
       /\ \A i \in 1..n : new[i] = s[i]
  BY <1>1, <1>9 DEF n
<1> HIDE DEF new
<1>11. ASSUME NEW o \in OpId(new)
       PROVE  /\ new[o].depends_on \in Seq(1..(o - 1))
              /\ \A j \in DOMAIN new[o].depends_on : new[new[o].depends_on[j]].key = new[o].key
  <2>1. o \in 1..(n + 1)
    BY <1>10 DEF OpId
  <2>2. CASE o = n + 1
    <3>1. new[o].depends_on = SetToSeq(deps) /\ new[o].key = key
      BY <1>4, <1>10, <2>2
    <3>2. (n + 1) - 1 = n
      BY <1>1
    <3>3. \A p \in deps : new[p].key = key
      BY <1>3, <1>10
    <3> QED
      BY <1>6, <2>2, <3>1, <3>2, <3>3
  <2>3. CASE o # n + 1
    <3>1. o \in 1..n /\ new[o] = s[o]
      BY <1>1, <1>10, <2>1, <2>3
    <3>2. /\ s[o].depends_on \in Seq(1..(o - 1))
          /\ \A j \in DOMAIN s[o].depends_on : s[s[o].depends_on[j]].key = s[o].key
      BY <1>1, <3>1 DEF WellFormed
    <3>3. \A j \in DOMAIN s[o].depends_on : s[o].depends_on[j] \in 1..n
      <4>1. \A S, x : x \in Seq(S) => \A j \in DOMAIN x : x[j] \in S
        OBVIOUS
      <4>2. \A j \in DOMAIN s[o].depends_on : s[o].depends_on[j] \in 1..(o - 1)
        BY <3>2, <4>1
      <4> QED
        BY <1>1, <3>1, <4>2
    <3> QED
      BY <1>10, <3>1, <3>2, <3>3
  <2> QED
    BY <2>2, <2>3
<1> QED
  BY <1>9, <1>10, <1>11 DEF WellFormed, new, n, op

\* What the generator's loop makes of the traces of one length.
Longer(T) ==
    {Append(s, NextOp(s, k, r, d)) : s \in T, k \in Key, r \in Region, d \in Steps}

\* Every trace of the generator is well-formed and has MaxOps operations.
LEMMA TracesAreWellFormed ==
    ASSUME NEW t \in Traces PROVE WellFormed(t) /\ Len(t) = MaxOps
<1> DEFINE X(n) == {s \in Seq(Operation) : WellFormed(s) /\ Len(s) = n}
           W == {s \in Seq(Operation) : WellFormed(s)}
           G == [T \in SUBSET W |-> Longer(T)]
           Gen(g) == [n \in Nat |-> IF n = 0 THEN {<<>>} ELSE Longer(g[n - 1])]
           gen == CHOOSE g : g = Gen(g)
<1>1. WellFormed(<<>>)
  BY DEF WellFormed, OpId
<1>2. {<<>>} \in SUBSET W
  BY <1>1
<1>3. \A T \in SUBSET W : Longer(T) \in SUBSET W
  <2>1. ASSUME NEW s, WellFormed(s), NEW k \in Key, NEW r \in Region, NEW d \in Steps
        PROVE  Append(s, NextOp(s, k, r, d)) \in W
    <3>1. WellFormed(Append(s, NextOp(s, k, r, d)))
      BY <2>1, NextOpIsWellFormed
    <3> QED
      BY <3>1 DEF WellFormed
  <2>2. \A s \in W : WellFormed(s)
    OBVIOUS
  <2> HIDE DEF W
  <2> SUFFICES ASSUME NEW T \in SUBSET W, NEW x \in Longer(T) PROVE x \in W
    OBVIOUS
  <2>3. PICK s \in T, k \in Key, r \in Region, d \in Steps : x = Append(s, NextOp(s, k, r, d))
    BY DEF Longer
  <2> QED
    BY <2>1, <2>2, <2>3
<1>4. G \in [SUBSET W -> SUBSET W]
  BY <1>3
<1>12. {<<>>} \in SUBSET W /\ G \in [SUBSET W -> SUBSET W]
  BY <1>2, <1>4
<1> HIDE DEF W
<1>5. \E f \in [Nat -> SUBSET W] : f[0] = {<<>>} /\ \A n \in Nat : f[n + 1] = G[f[n]]
  <2> DEFINE Y == SUBSET W
             a == {<<>>}
  <2>1. a \in Y /\ G \in [Y -> Y]
    BY <1>12
  <2> HIDE DEF G, Y, a
  <2>2. \E f : IsIteration(Y, G, a, f)
    BY <2>1, IterationExists
  <2> QED
    BY <2>2 DEF IsIteration, Y, a
<1>6. \E g : g = Gen(g)
  <2>1. PICK f \in [Nat -> SUBSET W] : f[0] = {<<>>} /\ \A n \in Nat : f[n + 1] = G[f[n]]
    BY <1>5
  <2>2. ASSUME NEW n \in Nat PROVE f[n] = IF n = 0 THEN {<<>>} ELSE Longer(f[n - 1])
    <3>1. CASE n = 0
      BY <2>1, <3>1
    <3>2. CASE n # 0
      <4>1. n - 1 \in Nat /\ (n - 1) + 1 = n
        BY <3>2
      <4>2. f[(n - 1) + 1] = G[f[n - 1]] /\ f[n - 1] \in SUBSET W
        BY <2>1, <4>1
      <4> QED
        BY <3>2, <4>1, <4>2
    <3> QED
      BY <3>1, <3>2
  <2>3. f = [n \in Nat |-> f[n]]
    BY <2>1
  <2> QED
    BY <2>2, <2>3
<1>7. gen = Gen(gen)
  BY <1>6
<1>8. Traces = gen[MaxOps]
  BY DEF Traces, Longer
<1> HIDE DEF gen
<1>9. gen[0] = {<<>>} /\ \A n \in Nat : n # 0 => gen[n] = Longer(gen[n - 1])
  BY <1>7
<1> DEFINE B == {n \in Nat : ~(gen[n] \subseteq X(n))}
<1>10. B = {}
  <2>1. SUFFICES ASSUME B # {} PROVE FALSE
    OBVIOUS
  <2>2. B \in SUBSET Nat
    OBVIOUS
  <2> HIDE DEF B
  <2>3. PICK m \in B : \A k \in B : m <= k
    BY <2>1, <2>2, SmallestOf
  <2>4. m \in Nat /\ ~(gen[m] \subseteq X(m))
    BY <2>3 DEF B
  <2>5. m # 0
    <3>1. {<<>>} \subseteq X(0)
      BY <1>1
    <3> QED
      BY <1>9, <2>4, <3>1
  <2>6. m - 1 \in Nat /\ (m - 1) + 1 = m /\ m - 1 \notin B
    BY <2>3, <2>4, <2>5
  <2>7. gen[m - 1] \subseteq X(m - 1)
    BY <2>6 DEF B
  <2>8. gen[m] = Longer(gen[m - 1])
    BY <1>9, <2>4, <2>5
  <2>9. Longer(gen[m - 1]) \subseteq X(m)
    <3>1. ASSUME NEW s \in X(m - 1), NEW k \in Key, NEW r \in Region, NEW d \in Steps
          PROVE  Append(s, NextOp(s, k, r, d)) \in X(m)
      <4>1. /\ WellFormed(Append(s, NextOp(s, k, r, d)))
            /\ Len(Append(s, NextOp(s, k, r, d))) = m
        BY <2>6, NextOpIsWellFormed
      <4> QED
        BY <4>1 DEF WellFormed
    <3> SUFFICES ASSUME NEW x \in Longer(gen[m - 1]) PROVE x \in X(m)
      OBVIOUS
    <3>2. PICK s \in gen[m - 1], k \in Key, r \in Region, d \in Steps :
                x = Append(s, NextOp(s, k, r, d))
      BY DEF Longer
    <3> QED
      BY <2>7, <3>1, <3>2
  <2> QED
    BY <2>4, <2>8, <2>9
<1>11. MaxOps \in Nat
  BY WorkloadAssumption
<1> QED
  BY <1>8, <1>10, <1>11

---------------------------------------------------------------------------
(* The invariant *)

\* The steps of apply_op at which the event is stamped, and those at which it is
\* in the log.
Logging == {"coordination_free", "coordinated", "number"}
Stamped == {"look", "total", "decide"} \cup Logging

IsLocal(l) ==
    l = [value |-> l.value, event |-> l.event, claims |-> l.claims, frontier |-> l.frontier]

AdapterTypeOK ==
    /\ WellFormed(trace) /\ Len(trace) = MaxOps
    /\ counter \in [Region -> Nat]
    /\ at \in [Worker -> {"load", "store", "stamp"} \cup Stamped]
    /\ local = [w \in Worker |-> local[w]]
    /\ \A w \in Worker : IsLocal(local[w]) /\ local[w].value \in Nat
    /\ log \in Seq(stored)
    /\ stats \in [total : Nat, coordination_free : Nat, coordinated : Nat]
    /\ nextSeq \in Nat
    /\ commitSeq \in [1..MaxOps -> Int]

\* Only a worker whose operation is with the adapter is past the first step, and
\* what it has stamped is its operation, with the predecessors known to the adapter.
CallsAreTheirs ==
    \A w \in Worker :
      /\ pc[w] # "apply" => at[w] = "load"
      /\ at[w] \in Stamped =>
           /\ local[w].event.op = task[w]
           /\ local[w].event.key = trace[task[w]].key
           /\ local[w].claims = ClaimsOf(task[w])

\* A copy of the frontier holds stored events of the key.
CopiesAreStored ==
    \A w \in Worker : at[w] \in {"total", "decide"} =>
      \A f \in local[w].frontier : f \in stored /\ f.key = local[w].event.key

\* An operation is logged once, and then has returned or is still being counted.
LoggedOnce ==
    /\ \A e \in stored :
         /\ e.op \in Ops
         /\ outcome[e.op] = "returned" \/ \E w \in Worker : at[w] \in Logging /\ task[w] = e.op
    /\ \A i, j \in 1..Len(log) : log[i].op = log[j].op => i = j

\* What an event supersedes was logged before it and is before it.
ReplacedAreEarlier ==
    /\ DOMAIN supersedes = stored
    /\ \A i \in 1..Len(log) : \A e \in supersedes[log[i]] :
         EventBefore(e, log[i]) /\ e.key = log[i].key /\ \E j \in 1..(i - 1) : log[j] = e

\* Accepted operations have returned, with a commit_seq of their own that is larger
\* than those of the dependencies.
NumberedInOrder ==
    /\ DOMAIN opToEvent \subseteq Ops
    /\ \A o \in DOMAIN opToEvent :
         /\ outcome[o] = "returned"
         /\ opToEvent[o].key = trace[o].key
         /\ commitSeq[o] \in 0..(nextSeq - 1)
         /\ \A d \in Deps(o) \cap DOMAIN opToEvent : commitSeq[d] < commitSeq[o]

\* The operations that have been through total_writes += 1.
Counted ==
    {o \in Ops : outcome[o] = "returned" \/
                 \E w \in Worker : at[w] \in {"decide"} \cup Logging /\ task[w] = o}

\* Increments may be lost, never invented.
TotalIsModest ==
    /\ stats.total <= Cardinality(Counted)
    /\ \A w \in Worker : at[w] = "total" => local[w].value <= Cardinality(Counted)

AdapterInv ==
    /\ AdapterTypeOK /\ CallsAreTheirs /\ CopiesAreStored /\ LoggedOnce
    /\ ReplacedAreEarlier /\ NumberedInOrder /\ TotalIsModest

HarnessInv == DriverInv /\ AdapterInv

---------------------------------------------------------------------------
\* Every step is one of the driver's, or leaves the driver alone.
LEMMA StepsOfDriver ==
    ASSUME [Next]_vars PROVE DriverNext \/ UNCHANGED driverVars
BY DEF Next, vars, ApplyOp, LoadCounter, StoreCounter, Stamp, Look, CountTotal, Reject, Commit,
       CountCommit, Number, Goto, DriverNext

\* The facts of a call in progress that the steps below need.
LEMMA Calling ==
    ASSUME HarnessInv, NEW w \in Worker, pc[w] = "apply"
    PROVE  /\ task[w] \in Ops /\ outcome[task[w]] = "none"
           /\ \A v \in Worker : v # w /\ pc[v] # "idle" => task[v] # task[w]
           /\ \A d \in Deps(task[w]) : outcome[d] = "returned"
           /\ Ops \subseteq Nat /\ Ops = 1..MaxOps /\ MaxOps \in Nat
           /\ Deps(task[w]) \subseteq Ops
           /\ trace[task[w]] \in Operation
<1>1. /\ task[w] \in Ops /\ outcome[task[w]] = "none"
      /\ \A v \in Worker : v # w /\ pc[v] # "idle" => task[v] # task[w]
  BY BusyWorker DEF HarnessInv
<1>2. \A d \in Deps(task[w]) : outcome[d] = "returned"
  BY DEF HarnessInv, DriverInv, DirectDependencies
<1>3. /\ IsTrace(trace) /\ trace \in Seq(Operation) /\ Len(trace) = MaxOps /\ MaxOps \in Nat
  BY WorkloadAssumption DEF HarnessInv, DriverInv, DriverTypeOK, AdapterInv, AdapterTypeOK, WellFormed
<1>4. Ops \subseteq Nat /\ Ops = 1..MaxOps /\ trace[task[w]] \in Operation
  BY <1>1, <1>3 DEF Ops
<1> QED
  BY <1>1, <1>2, <1>3, <1>4, DepsAreEarlier

\* A worker that is past the first step of apply_op is in it, and stays with its
\* operation.
LEMMA CallGoesOn ==
    ASSUME HarnessInv, [Next]_vars, NEW v \in Worker, at'[v] # "load"
    PROVE  pc[v] = "apply" /\ pc'[v] = "apply" /\ task'[v] = task[v]
<1>1. /\ at \in [Worker -> {"load", "store", "stamp"} \cup Stamped]
      /\ \A w \in Worker : pc[w] # "apply" => at[w] = "load"
  BY DEF HarnessInv, AdapterInv, AdapterTypeOK, CallsAreTheirs
<1>2. CASE (Submit \/ Finish \/ \E w \in Worker : Schedule(w)) /\ UNCHANGED adapterVars
  <2>1. ScheduleEffect /\ pc[v] = "apply"
    BY <1>1, <1>2, ScheduleChanges DEF HarnessInv, adapterVars
  <2> QED
    BY <2>1 DEF ScheduleEffect
<1>3. ASSUME NEW w \in Worker, Reject(w) \/ Number(w)
      PROVE  pc[v] = "apply" /\ pc'[v] = "apply" /\ task'[v] = task[v]
  <2>1. Resolve(w, "returned") /\ pc[w] = "apply" /\ at' = [at EXCEPT ![w] = "load"]
    BY <1>3 DEF Reject, Number, Return
  <2>2. v # w /\ at[v] # "load"
    BY <1>1, <2>1
  <2> QED
    BY <1>1, <2>1, <2>2, ResolveChanges DEF HarnessInv
<1>4. ASSUME NEW w \in Worker, NEW here, NEW there, Goto(w, here, there)
      PROVE  pc[v] = "apply" /\ pc'[v] = "apply" /\ task'[v] = task[v]
  BY <1>1, <1>4 DEF Goto, driverVars
<1>5. CASE UNCHANGED vars
  BY <1>1, <1>5 DEF vars, driverVars, adapterVars
<1> QED
  BY <1>2, <1>3, <1>4, <1>5
  DEF Next, ApplyOp, LoadCounter, StoreCounter, Stamp, Look, CountTotal, Commit, CountCommit

\* A worker whose place in apply_op changes has taken a step of it; otherwise its
\* local variables stay.
LEMMA OnlyItsOwnSteps ==
    ASSUME HarnessInv, [Next]_vars, NEW v \in Worker
    PROVE  \/ ApplyOp(v) /\ pc[v] = "apply"
           \/ at'[v] = at[v] /\ local'[v] = local[v]
<1>1. /\ at \in [Worker -> {"load", "store", "stamp"} \cup Stamped]
      /\ local = [w \in Worker |-> local[w]]
  BY DEF HarnessInv, AdapterInv, AdapterTypeOK
<1>2. CASE UNCHANGED adapterVars
  BY <1>2 DEF adapterVars
<1>3. ASSUME NEW w \in Worker, ApplyOp(w), w # v
      PROVE  at'[v] = at[v] /\ local'[v] = local[v]
  <2>1. \E there : at' = [at EXCEPT ![w] = there]
    BY <1>3 DEF ApplyOp, LoadCounter, StoreCounter, Stamp, Look, CountTotal, Reject, Commit,
                CountCommit, Number, Goto
  <2>2. \/ local' = local
        \/ \E l : local' = [local EXCEPT ![w] = l]
    BY <1>3 DEF ApplyOp, LoadCounter, StoreCounter, Stamp, Look, CountTotal, Reject, Commit,
                CountCommit, Number, Goto
  <2> QED
    BY <1>1, <1>3, <2>1, <2>2
<1>4. ASSUME NEW w \in Worker, ApplyOp(w) PROVE pc[w] = "apply"
  BY <1>4 DEF ApplyOp, LoadCounter, StoreCounter, Stamp, Look, CountTotal, Reject, Commit,
              CountCommit, Number, Goto, Return
<1> QED
  BY <1>2, <1>3, <1>4 DEF Next, vars

---------------------------------------------------------------------------
\* The trace is the same throughout, and what has returned has.
LEMMA TraceStays ==
    ASSUME HarnessInv, [Next]_vars
    PROVE  /\ trace' = trace /\ Ops' = Ops /\ \A o : Deps(o)' = Deps(o)
           /\ \A o \in Ops : outcome[o] = "returned" => outcome'[o] = "returned"
<1>1. DriverNext \/ UNCHANGED driverVars
  BY StepsOfDriver
<1>2. trace' = trace
  BY <1>1 DEF DriverNext, driverVars, Submit, Finish, Schedule, Take, StartApply,
              DependencyRaised, Return, Raise, Resolve
<1>3. Ops' = Ops /\ \A o : Deps(o)' = Deps(o)
  BY <1>2 DEF Ops, Deps, DependsOn
<1> QED
  BY <1>1, <1>2, <1>3, ReturnedStays DEF HarnessInv

\* Only Commit touches the log, and only Number the adapter's own tables.
LEMMA WhoWrites ==
    ASSUME [Next]_vars
    PROVE  /\ UNCHANGED <<log, supersedes>> \/ \E w \in Worker : Commit(w)
           /\ UNCHANGED <<nextSeq, commitSeq, opToEvent>> \/ \E w \in Worker : Number(w)
BY DEF Next, vars, adapterVars, ApplyOp, LoadCounter, StoreCounter, Stamp, Look, CountTotal,
       Reject, Commit, CountCommit, Number

\* The event of a worker that decides is not in the log.
LEMMA NewEvent ==
    ASSUME HarnessInv, NEW w \in Worker, at[w] = "decide"
    PROVE  /\ pc[w] = "apply" /\ local[w].event.op = task[w] /\ task[w] \in Ops
           /\ local[w].event \notin stored
           /\ \A e \in stored : e.op # task[w]
<1>1. /\ pc[w] = "apply" /\ local[w].event.op = task[w]
  BY DEF HarnessInv, AdapterInv, CallsAreTheirs, Stamped
<1>2. /\ task[w] \in Ops /\ outcome[task[w]] = "none"
      /\ \A v \in Worker : v # w /\ pc[v] # "idle" => task[v] # task[w]
  BY <1>1, Calling
<1>3. ASSUME NEW e \in stored, e.op = task[w] PROVE FALSE
  <2>1. PICK v \in Worker : at[v] \in Logging /\ task[v] = task[w]
    BY <1>2, <1>3 DEF HarnessInv, AdapterInv, LoggedOnce
  <2>2. v # w /\ at[v] # "load"
    BY <2>1 DEF Logging
  <2>3. pc[v] = "apply"
    BY <2>2 DEF HarnessInv, AdapterInv, CallsAreTheirs
  <2> QED
    BY <1>2, <2>1, <2>2, <2>3
<1> QED
  BY <1>1, <1>2, <1>3

\* A commit puts one event at the end of the log.
CommitEffect(w) ==
    LET e == local[w].event
    IN  /\ log' \in Seq(stored') /\ Len(log') = Len(log) + 1 /\ Len(log) \in Nat
        /\ log'[Len(log) + 1] = e /\ \A i \in 1..Len(log) : log'[i] = log[i]
        /\ stored' = stored \cup {e} /\ stored = {log[i] : i \in 1..Len(log)}
        /\ at[w] = "decide" /\ at'[w] \in Logging /\ task'[w] = task[w]
        /\ supersedes' = With(supersedes, e, local[w].claims \cup Replaced(e, local[w].frontier))

LEMMA CommitChanges ==
    ASSUME HarnessInv, NEW w \in Worker, Commit(w) PROVE CommitEffect(w)
<1> DEFINE e == local[w].event
<1>1. /\ log' = Append(log, e) /\ at[w] = "decide" /\ task' = task
      /\ at' = [at EXCEPT ![w] = Counter(Decision(e, local[w].claims, local[w].frontier))]
      /\ supersedes' = With(supersedes, e, local[w].claims \cup Replaced(e, local[w].frontier))
  BY DEF Commit, Goto, driverVars
<1>2. log \in Seq(stored) /\ at \in [Worker -> {"load", "store", "stamp"} \cup Stamped]
  BY DEF HarnessInv, AdapterInv, AdapterTypeOK
<1>3. at'[w] \in Logging
  BY <1>1, <1>2 DEF Counter, Logging
<1> HIDE DEF e
<1> DEFINE S == stored \cup {e}
<1>4. log \in Seq(S) /\ Len(log) \in Nat /\ DOMAIN log = 1..Len(log)
  BY <1>2
<1>5. /\ log' \in Seq(S) /\ Len(log') = Len(log) + 1 /\ log'[Len(log) + 1] = e
      /\ \A i \in 1..Len(log) : log'[i] = log[i]
  BY <1>1, <1>4
<1>6. stored = {log[i] : i \in 1..Len(log)}
  BY <1>4 DEF stored, Range
<1>7. stored' = {log'[i] : i \in 1..(Len(log) + 1)}
  BY <1>5 DEF stored, Range
<1>8. stored' = S
  BY <1>4, <1>5, <1>6, <1>7
<1> QED
  BY <1>1, <1>3, <1>4, <1>5, <1>6, <1>8 DEF CommitEffect, e

\* Nothing leaves the log.
LEMMA LogGrows ==
    ASSUME HarnessInv, [Next]_vars PROVE stored \subseteq stored'
BY WhoWrites, CommitChanges DEF CommitEffect, stored

\* While a call is in progress the adapter's view of its predecessors stays.
LEMMA ClaimsStay ==
    ASSUME HarnessInv, [Next]_vars, NEW w \in Worker, at'[w] # "load"
    PROVE  ClaimsOf(task[w])' = ClaimsOf(task[w])
<1>1. pc[w] = "apply" /\ task'[w] = task[w]
  BY CallGoesOn
<1>2. \A d \in Deps(task[w]) : outcome[d] = "returned"
  BY <1>1, Calling
<1>3. trace' = trace /\ \A o : Deps(o)' = Deps(o)
  BY TraceStays
<1> DEFINE claims(f, o) == {f[d] : d \in Deps(o) \cap DOMAIN f}
<1>4. ClaimsOf(task[w]) = claims(opToEvent, task[w])
  BY DEF ClaimsOf, Range, Deps
<1>5. ClaimsOf(task[w])' = claims(opToEvent', task[w])
  BY <1>1, <1>3 DEF ClaimsOf, Range, Deps, DependsOn
<1>6. CASE opToEvent' = opToEvent
  BY <1>4, <1>5, <1>6
<1>7. ASSUME NEW v \in Worker, Number(v) PROVE claims(opToEvent', task[w]) = claims(opToEvent, task[w])
  <2>1. pc[v] = "apply" /\ opToEvent' = With(opToEvent, task[v], local[v].event)
    BY <1>7 DEF Number, Return
  <2>2. task[v] \notin Deps(task[w])
    BY <1>2, <2>1, Calling
  <2>3. DOMAIN opToEvent' = DOMAIN opToEvent \cup {task[v]}
    BY <2>1 DEF With
  <2>4. \A d \in DOMAIN opToEvent : d # task[v] => opToEvent'[d] = opToEvent[d]
    BY <2>1 DEF With
  <2> QED
    BY <2>2, <2>3, <2>4
<1> QED
  BY <1>4, <1>5, <1>6, <1>7, WhoWrites

\* What a call has stamped is its operation's.
LEMMA CallsStayTheirs ==
    ASSUME HarnessInv, [Next]_vars PROVE CallsAreTheirs'
<1> SUFFICES ASSUME NEW v \in Worker, at'[v] # "load"
             PROVE  /\ pc'[v] = "apply"
                    /\ at'[v] \in Stamped =>
                         /\ local'[v].event.op = task'[v]
                         /\ local'[v].event.key = trace'[task'[v]].key
                         /\ local'[v].claims = ClaimsOf(task[v])'
  BY DEF CallsAreTheirs, Stamped, Logging
<1>1. /\ pc'[v] = "apply" /\ task'[v] = task[v] /\ trace' = trace
      /\ ClaimsOf(task[v])' = ClaimsOf(task[v])
  BY CallGoesOn, TraceStays, ClaimsStay
<1>2. /\ local = [w \in Worker |-> local[w]] /\ IsLocal(local[v])
      /\ at \in [Worker -> {"load", "store", "stamp"} \cup Stamped]
  BY DEF HarnessInv, AdapterInv, AdapterTypeOK
<1>3. at[v] \in Stamped =>
        /\ local[v].event.op = task[v]
        /\ local[v].event.key = trace[task[v]].key
        /\ local[v].claims = ClaimsOf(task[v])
  BY DEF HarnessInv, AdapterInv, CallsAreTheirs
<1>4. CASE at'[v] = at[v] /\ local'[v] = local[v]
  BY <1>1, <1>3, <1>4
<1>5. CASE LoadCounter(v) \/ StoreCounter(v)
  BY <1>1, <1>2, <1>5 DEF LoadCounter, StoreCounter, Goto, Stamped, Logging
<1>6. CASE Stamp(v)
  <2>1. /\ local'[v].event = EventOf(task[v], trace[task[v]].key, trace[task[v]].t_logical_ns,
                                     RegionOf(v), counter[RegionOf(v)])
        /\ local'[v].claims = ClaimsOf(task[v])
    BY <1>2, <1>6 DEF Stamp, IsLocal
  <2> QED
    BY <1>1, <2>1 DEF EventOf
<1>7. CASE Look(v) \/ CountTotal(v) \/ Commit(v) \/ CountCommit(v)
  <2>1. at[v] \in Stamped
    BY <1>7 DEF Look, CountTotal, Commit, CountCommit, Goto, Stamped, Logging
  <2>2. local'[v].event = local[v].event /\ local'[v].claims = local[v].claims
    BY <1>2, <1>7 DEF Look, CountTotal, Commit, CountCommit, IsLocal
  <2> QED
    BY <1>1, <1>3, <2>1, <2>2
<1>8. CASE Reject(v) \/ Number(v)
  BY <1>2, <1>8 DEF Reject, Number
<1> QED
  BY <1>4, <1>5, <1>6, <1>7, <1>8, OnlyItsOwnSteps DEF ApplyOp

\* A copy of the frontier goes on holding stored events.
LEMMA CopiesStayStored ==
    ASSUME HarnessInv, [Next]_vars PROVE CopiesAreStored'
<1> SUFFICES ASSUME NEW v \in Worker, at'[v] \in {"total", "decide"}, NEW f \in local'[v].frontier
             PROVE  f \in stored' /\ f.key = local'[v].event.key
  BY DEF CopiesAreStored
<1>1. /\ local = [w \in Worker |-> local[w]] /\ IsLocal(local[v])
      /\ at \in [Worker -> {"load", "store", "stamp"} \cup Stamped]
  BY DEF HarnessInv, AdapterInv, AdapterTypeOK
<1>2. at[v] \in {"total", "decide"} =>
        \A g \in local[v].frontier : g \in stored' /\ g.key = local[v].event.key
  BY LogGrows DEF HarnessInv, AdapterInv, CopiesAreStored
<1>3. CASE at'[v] = at[v] /\ local'[v] = local[v]
  BY <1>2, <1>3
<1>4. CASE Look(v)
  <2>1. /\ local'[v].frontier = Store!Frontier(local[v].event.key)
        /\ local'[v].event = local[v].event
    BY <1>1, <1>4 DEF Look, IsLocal
  <2>2. f \in stored /\ f.key = local[v].event.key
    BY <2>1 DEF Store!Frontier, Store!EventsForKey, KeyOfEvent
  <2> QED
    BY <2>1, <2>2, LogGrows
<1>5. CASE CountTotal(v)
  BY <1>1, <1>2, <1>5 DEF CountTotal, Goto
<1>6. CASE LoadCounter(v) \/ StoreCounter(v) \/ Stamp(v) \/ Commit(v) \/ CountCommit(v)
  BY <1>1, <1>6 DEF LoadCounter, StoreCounter, Stamp, Commit, CountCommit, Goto, Counter
<1>7. CASE Reject(v) \/ Number(v)
  BY <1>1, <1>7 DEF Reject, Number
<1> QED
  BY <1>3, <1>4, <1>5, <1>6, <1>7, OnlyItsOwnSteps DEF ApplyOp

\* No operation gets a second place in the log.
LEMMA LogStaysOnce ==
    ASSUME HarnessInv, [Next]_vars PROVE LoggedOnce'
<1>1. /\ trace' = trace /\ Ops' = Ops
      /\ \A o \in Ops : outcome[o] = "returned" => outcome'[o] = "returned"
  BY TraceStays
<1>2. LoggedOnce
  BY DEF HarnessInv, AdapterInv
<1>3. ASSUME NEW e \in stored
      PROVE  /\ e.op \in Ops'
             /\ outcome'[e.op] = "returned" \/ \E w \in Worker : at'[w] \in Logging /\ task'[w] = e.op
  <2>1. e.op \in Ops
    BY <1>2 DEF LoggedOnce
  <2>2. CASE outcome[e.op] = "returned"
    BY <1>1, <2>1, <2>2
  <2>3. ASSUME NEW w \in Worker, at[w] \in Logging, task[w] = e.op
        PROVE  outcome'[e.op] = "returned" \/ (at'[w] \in Logging /\ task'[w] = e.op)
    <3>1. at \in [Worker -> {"load", "store", "stamp"} \cup Stamped]
      BY DEF HarnessInv, AdapterInv, AdapterTypeOK
    <3>2. CASE at'[w] = at[w]
      <4>1. at'[w] # "load"
        BY <2>3, <3>2 DEF Logging
      <4> QED
        BY <2>3, <3>2, <4>1, CallGoesOn
    <3>3. CASE CountCommit(w)
      <4>1. at'[w] = "number"
        BY <3>1, <3>3 DEF CountCommit, Goto
      <4>2. at'[w] \in Logging /\ at'[w] # "load"
        BY <4>1 DEF Logging
      <4> QED
        BY <2>3, <4>2, CallGoesOn
    <3>4. CASE Number(w)
      <4>1. pc[w] = "apply" /\ Resolve(w, "returned")
        BY <3>4 DEF Number, Return
      <4> QED
        BY <2>3, <4>1, ResolveChanges DEF HarnessInv
    <3>5. CASE LoadCounter(w) \/ StoreCounter(w) \/ Stamp(w) \/ Look(w) \/ CountTotal(w) \/ Reject(w)
               \/ Commit(w)
      BY <2>3, <3>5 DEF LoadCounter, StoreCounter, Stamp, Look, CountTotal, Reject, Commit, Goto, Logging
    <3> QED
      BY <3>2, <3>3, <3>4, <3>5, OnlyItsOwnSteps DEF ApplyOp
  <2>4. outcome[e.op] = "returned" \/ \E w \in Worker : at[w] \in Logging /\ task[w] = e.op
    BY <1>2 DEF LoggedOnce
  <2> QED
    BY <1>1, <2>1, <2>2, <2>3, <2>4
<1>4. CASE log' = log
  <2>1. stored' = stored
    BY <1>4 DEF stored
  <2> QED
    BY <1>2, <1>3, <1>4, <2>1 DEF LoggedOnce
<1>5. ASSUME NEW w \in Worker, Commit(w) PROVE LoggedOnce'
  <2>1. CommitEffect(w)
    BY <1>5, CommitChanges
  <2>2. at[w] = "decide" /\ at'[w] \in Logging /\ task'[w] = task[w]
    BY <2>1 DEF CommitEffect
  <2>3. /\ local[w].event.op = task[w] /\ task[w] \in Ops
        /\ \A e \in stored : e.op # task[w]
    BY <2>2, NewEvent
  <2>4. stored' = stored \cup {local[w].event} /\ stored = {log[i] : i \in 1..Len(log)}
    BY <2>1 DEF CommitEffect
  <2>5. \A e \in stored' :
          /\ e.op \in Ops'
          /\ outcome'[e.op] = "returned" \/ \E v \in Worker : at'[v] \in Logging /\ task'[v] = e.op
    BY <1>1, <1>3, <2>2, <2>3, <2>4
  <2>6. ASSUME NEW i \in 1..Len(log'), NEW j \in 1..Len(log'), log'[i].op = log'[j].op
        PROVE  i = j
    <3>1. /\ Len(log') = Len(log) + 1 /\ Len(log) \in Nat
          /\ log'[Len(log) + 1] = local[w].event /\ \A k \in 1..Len(log) : log'[k] = log[k]
      BY <2>1 DEF CommitEffect
    <3>2. \A k \in 1..Len(log) : log'[k] = log[k] /\ log[k].op # task[w]
      BY <2>3, <2>4, <3>1
    <3>3. \A k \in 1..Len(log') : k \in 1..Len(log) \/ k = Len(log) + 1
      BY <3>1
    <3> QED
      BY <1>2, <2>3, <2>6, <3>1, <3>2, <3>3 DEF LoggedOnce
  <2> QED
    BY <2>5, <2>6 DEF LoggedOnce
<1> QED
  BY <1>4, <1>5, WhoWrites

\* What an event supersedes stays before it.
LEMMA ReplacedStayEarlier ==
    ASSUME HarnessInv, [Next]_vars PROVE ReplacedAreEarlier'
<1>1. ReplacedAreEarlier
  BY DEF HarnessInv, AdapterInv
<1>2. CASE UNCHANGED <<log, supersedes>>
  BY <1>1, <1>2 DEF ReplacedAreEarlier, stored
<1>3. ASSUME NEW w \in Worker, Commit(w) PROVE ReplacedAreEarlier'
  <2> DEFINE e == local[w].event
             sups == local[w].claims \cup Replaced(e, local[w].frontier)
             n == Len(log)
  <2>1. CommitEffect(w)
    BY <1>3, CommitChanges
  <2>2. /\ Len(log') = n + 1 /\ n \in Nat /\ log'[n + 1] = e /\ \A i \in 1..n : log'[i] = log[i]
        /\ stored' = stored \cup {e} /\ stored = {log[i] : i \in 1..n}
        /\ at[w] = "decide" /\ supersedes' = With(supersedes, e, sups)
    BY <2>1 DEF CommitEffect
  <2>3. e \notin stored /\ pc[w] = "apply"
    BY <2>2, NewEvent
  <2>4. /\ e.key = trace[task[w]].key /\ local[w].claims = ClaimsOf(task[w])
    BY <2>2 DEF HarnessInv, AdapterInv, CallsAreTheirs, Stamped
  <2>5. Store!BadClaims(e, local[w].claims) = {}
    BY <1>3 DEF Commit, Decision
  <2>6. \A p \in local[w].claims : p \in stored /\ EventBefore(p, e)
    BY <2>5 DEF Store!BadClaims
  <2>7. \A p \in local[w].claims : p.key = e.key
    <3> SUFFICES ASSUME NEW p \in ClaimsOf(task[w]) PROVE p.key = trace[task[w]].key
      BY <2>4
    <3>1. PICK d \in Range(DependsOn(task[w])) \cap DOMAIN opToEvent : p = opToEvent[d]
      BY DEF ClaimsOf
    <3>2. p.key = trace[d].key
      BY <3>1 DEF HarnessInv, AdapterInv, NumberedInOrder
    <3>3. PICK j \in DOMAIN trace[task[w]].depends_on : d = trace[task[w]].depends_on[j]
      BY <3>1 DEF Range, DependsOn
    <3>4. task[w] \in OpId(trace)
      BY <2>3, Calling DEF OpId, Ops
    <3> QED
      BY <3>2, <3>3, <3>4 DEF HarnessInv, AdapterInv, AdapterTypeOK, WellFormed
  <2>8. \A f \in Replaced(e, local[w].frontier) : f \in stored /\ EventBefore(f, e) /\ f.key = e.key
    BY <2>2 DEF Replaced, HarnessInv, AdapterInv, CopiesAreStored
  <2> HIDE DEF e, sups
  <2>9. \A p \in sups : p \in stored /\ EventBefore(p, e) /\ p.key = e.key
    BY <2>6, <2>7, <2>8 DEF e, sups
  <2>10. /\ DOMAIN supersedes' = stored' /\ supersedes'[e] = sups
         /\ \A i \in 1..n : supersedes'[log[i]] = supersedes[log[i]]
    BY <1>1, <2>2, <2>3 DEF With, ReplacedAreEarlier, e
  <2>11. ASSUME NEW i \in 1..Len(log'), NEW p \in supersedes'[log'[i]]
         PROVE  EventBefore(p, log'[i]) /\ p.key = log'[i].key /\ \E j \in 1..(i - 1) : log'[j] = p
    <3>1. CASE i \in 1..n
      <4>1. log'[i] = log[i] /\ p \in supersedes[log[i]]
        BY <2>2, <2>10, <2>11, <3>1
      <4>2. EventBefore(p, log[i]) /\ p.key = log[i].key /\ \E j \in 1..(i - 1) : log[j] = p
        BY <1>1, <3>1, <4>1 DEF ReplacedAreEarlier
      <4>3. \A j \in 1..(i - 1) : log'[j] = log[j]
        BY <2>2, <3>1
      <4> QED
        BY <4>1, <4>2, <4>3
    <3>2. CASE i = n + 1
      <4>1. log'[i] = e /\ p \in sups
        BY <2>2, <2>10, <2>11, <3>2 DEF e
      <4>2. \E j \in 1..n : log[j] = p
        BY <2>2, <2>9, <4>1
      <4>3. i - 1 = n
        BY <2>2, <3>2
      <4> QED
        BY <2>2, <2>9, <4>1, <4>2, <4>3
    <3> QED
      BY <2>2, <3>1, <3>2
  <2> QED
    BY <2>10, <2>11 DEF ReplacedAreEarlier
<1> QED
  BY <1>2, <1>3, WhoWrites

\* Accepted operations stay numbered in the order of their dependencies.
LEMMA NumbersStayInOrder ==
    ASSUME HarnessInv, [Next]_vars PROVE NumberedInOrder'
<1>1. /\ trace' = trace /\ Ops' = Ops /\ \A o : Deps(o)' = Deps(o)
      /\ \A o \in Ops : outcome[o] = "returned" => outcome'[o] = "returned"
  BY TraceStays
<1>2. NumberedInOrder /\ nextSeq \in Nat /\ commitSeq \in [1..MaxOps -> Int]
  BY DEF HarnessInv, AdapterInv, AdapterTypeOK
<1>3. CASE UNCHANGED <<nextSeq, commitSeq, opToEvent>>
  BY <1>1, <1>2, <1>3 DEF NumberedInOrder
<1>4. ASSUME NEW w \in Worker, Number(w) PROVE NumberedInOrder'
  <2> DEFINE o == task[w]
  <2>1. /\ at[w] = "number" /\ pc[w] = "apply" /\ Resolve(w, "returned")
        /\ nextSeq' = nextSeq + 1 /\ commitSeq' = [commitSeq EXCEPT ![o] = nextSeq]
        /\ opToEvent' = With(opToEvent, o, local[w].event)
    BY <1>4 DEF Number, Return
  <2>2. /\ o \in Ops /\ outcome[o] = "none" /\ Ops = 1..MaxOps
        /\ \A d \in Deps(o) : outcome[d] = "returned"
    BY <2>1, Calling
  <2>3. o \notin DOMAIN opToEvent /\ o \notin Deps(o)
    BY <1>2, <2>2 DEF NumberedInOrder
  <2>4. outcome'[o] = "returned"
    BY <2>1, ResolveChanges DEF HarnessInv
  <2>5. local[w].event.key = trace[o].key
    BY <2>1 DEF HarnessInv, AdapterInv, CallsAreTheirs, Stamped, Logging
  <2> HIDE DEF o
  <2>6. /\ DOMAIN opToEvent' = DOMAIN opToEvent \cup {o}
        /\ opToEvent'[o] = local[w].event
        /\ \A p \in DOMAIN opToEvent : opToEvent'[p] = opToEvent[p]
    BY <2>1, <2>3 DEF With
  <2>7. /\ commitSeq'[o] = nextSeq /\ DOMAIN opToEvent \subseteq Ops
        /\ \A p \in DOMAIN opToEvent : commitSeq'[p] = commitSeq[p]
    BY <1>2, <2>1, <2>2, <2>3 DEF NumberedInOrder
  <2>8. \A p \in DOMAIN opToEvent : commitSeq[p] \in 0..(nextSeq - 1)
    BY <1>2 DEF NumberedInOrder
  <2>9. /\ commitSeq'[o] \in 0..(nextSeq' - 1)
        /\ \A p \in DOMAIN opToEvent : commitSeq'[p] \in 0..(nextSeq' - 1) /\ commitSeq'[p] < nextSeq
    BY <1>2, <2>1, <2>7, <2>8
  <2>10. ASSUME NEW p \in DOMAIN opToEvent
         PROVE  /\ outcome'[p] = "returned" /\ opToEvent'[p].key = trace[p].key
                /\ \A d \in Deps(p) \cap DOMAIN opToEvent' : commitSeq'[d] < commitSeq'[p]
    <3>1. /\ p \in Ops /\ outcome[p] = "returned" /\ opToEvent[p].key = trace[p].key
          /\ \A d \in Deps(p) \cap DOMAIN opToEvent : commitSeq[d] < commitSeq[p]
      BY <1>2 DEF NumberedInOrder
    <3>2. \A d \in Deps(p) : outcome[d] = "returned"
      BY <3>1 DEF HarnessInv, DriverInv, DirectDependencies
    <3>3. o \notin Deps(p)
      BY <2>2, <3>2
    <3> QED
      BY <1>1, <2>6, <2>7, <3>1, <3>3
  <2>11. \A d \in Deps(o) \cap DOMAIN opToEvent' : commitSeq'[d] < commitSeq'[o]
    BY <2>3, <2>6, <2>7, <2>9
  <2> QED
    BY <1>1, <2>2, <2>4, <2>5, <2>6, <2>7, <2>9, <2>10, <2>11 DEF NumberedInOrder
<1> QED
  BY <1>3, <1>4, WhoWrites

\* The operations counted so far, and one more when its total is stored.
LEMMA CountedGrows ==
    ASSUME HarnessInv, [Next]_vars
    PROVE  /\ Counted \subseteq Counted' /\ Counted \subseteq Ops /\ Counted' \subseteq Ops
           /\ IsFiniteSet(Ops)
           /\ \A w \in Worker : CountTotal(w) => task[w] \in Counted' \ Counted
<1>1. /\ trace' = trace /\ Ops' = Ops
      /\ \A o \in Ops : outcome[o] = "returned" => outcome'[o] = "returned"
  BY TraceStays
<1>2. at \in [Worker -> {"load", "store", "stamp"} \cup Stamped]
  BY DEF HarnessInv, AdapterInv, AdapterTypeOK
<1>3. ASSUME NEW o \in Ops, NEW w \in Worker, at[w] \in {"decide"} \cup Logging, task[w] = o
      PROVE  outcome'[o] = "returned" \/ (at'[w] \in {"decide"} \cup Logging /\ task'[w] = o)
  <2>1. CASE at'[w] = at[w]
    <3>1. at'[w] # "load"
      BY <1>3, <2>1 DEF Logging
    <3> QED
      BY <1>3, <2>1, <3>1, CallGoesOn
  <2>2. CASE Commit(w) \/ CountCommit(w)
    <3>1. at'[w] \in Logging
      BY <1>2, <2>2 DEF Commit, CountCommit, Goto, Counter, Logging
    <3>2. at'[w] # "load"
      BY <3>1 DEF Logging
    <3> QED
      BY <1>3, <3>1, <3>2, CallGoesOn
  <2>3. CASE Reject(w) \/ Number(w)
    <3>1. pc[w] = "apply" /\ Resolve(w, "returned")
      BY <2>3 DEF Reject, Number, Return
    <3>2. outcome'[o] = "returned"
      BY <1>3, <3>1, ResolveChanges DEF HarnessInv
    <3> QED
      BY <3>2
  <2>4. CASE LoadCounter(w) \/ StoreCounter(w) \/ Stamp(w) \/ Look(w) \/ CountTotal(w)
    BY <1>3, <2>4 DEF LoadCounter, StoreCounter, Stamp, Look, CountTotal, Goto, Logging
  <2> QED
    BY <2>1, <2>2, <2>3, <2>4, OnlyItsOwnSteps DEF ApplyOp
<1>4. Counted \subseteq Ops /\ Counted' \subseteq Ops
  BY <1>1 DEF Counted
<1>5. Counted \subseteq Counted'
  <2> SUFFICES ASSUME NEW o \in Counted PROVE o \in Counted'
    OBVIOUS
  <2>1. o \in Ops /\ (outcome[o] = "returned" \/
                      \E w \in Worker : at[w] \in {"decide"} \cup Logging /\ task[w] = o)
    BY DEF Counted
  <2>2. o \in Ops' /\ (outcome'[o] = "returned" \/
                       \E w \in Worker : at'[w] \in {"decide"} \cup Logging /\ task'[w] = o)
    BY <1>1, <1>3, <2>1
  <2> QED
    BY <2>2 DEF Counted
<1>6. IsFiniteSet(Ops)
  <2>1. Len(trace) \in Nat
    BY DEF HarnessInv, DriverInv, DriverTypeOK, IsTrace
  <2> QED
    BY <2>1, FS_Interval DEF Ops
<1>7. ASSUME NEW w \in Worker, CountTotal(w) PROVE task[w] \in Counted' \ Counted
  <2>1. /\ pc[w] = "apply" /\ at[w] = "total" /\ at'[w] = "decide" /\ task' = task
    BY <1>2, <1>7 DEF CountTotal, Goto, driverVars
  <2>2. /\ task[w] \in Ops /\ outcome[task[w]] = "none"
        /\ \A v \in Worker : v # w /\ pc[v] # "idle" => task[v] # task[w]
    BY <2>1, Calling
  <2>3. \A v \in Worker : at[v] # "load" => pc[v] = "apply"
    BY DEF HarnessInv, AdapterInv, CallsAreTheirs
  <2>4. \A v \in Worker : at[v] \in {"decide"} \cup Logging => task[v] # task[w]
    BY <2>1, <2>2, <2>3 DEF Logging
  <2> QED
    BY <1>1, <2>1, <2>2, <2>4 DEF Counted
<1> QED
  BY <1>4, <1>5, <1>6, <1>7

\* Increments may be lost, never invented.
LEMMA TotalStaysModest ==
    ASSUME HarnessInv, [Next]_vars PROVE TotalIsModest'
<1> DEFINE N == Cardinality(Counted)
           M == Cardinality(Counted')
<1>1. /\ Counted \subseteq Counted' /\ Counted \subseteq Ops /\ Counted' \subseteq Ops
      /\ IsFiniteSet(Ops)
      /\ \A w \in Worker : CountTotal(w) => task[w] \in Counted' \ Counted
  BY CountedGrows
<1>2. IsFiniteSet(Counted) /\ IsFiniteSet(Counted')
  BY <1>1, FS_Subset
<1>3. N \in Nat /\ M \in Nat /\ N <= M
  BY <1>1, <1>2, FS_CardinalityType, FS_Subset
<1>4. \A w \in Worker : CountTotal(w) => N + 1 <= M
  <2> SUFFICES ASSUME NEW w \in Worker, CountTotal(w) PROVE N + 1 <= M
    OBVIOUS
  <2>1. /\ task[w] \notin Counted /\ Counted \cup {task[w]} \subseteq Counted'
    BY <1>1
  <2>2. Cardinality(Counted \cup {task[w]}) = N + 1
    BY <1>2, <2>1, FS_AddElement
  <2>3. Cardinality(Counted \cup {task[w]}) <= M
    BY <1>2, <2>1, FS_Subset
  <2> QED
    BY <2>2, <2>3
<1>5. /\ stats \in [total : Nat, coordination_free : Nat, coordinated : Nat]
      /\ at \in [Worker -> {"load", "store", "stamp"} \cup Stamped]
      /\ local = [w \in Worker |-> local[w]]
      /\ \A w \in Worker : IsLocal(local[w]) /\ local[w].value \in Nat
      /\ stats.total <= N
      /\ \A w \in Worker : at[w] = "total" => local[w].value <= N
  BY DEF HarnessInv, AdapterInv, AdapterTypeOK, TotalIsModest
<1> HIDE DEF N, M
<1>6. stats'.total <= M
  <2>1. CASE stats'.total = stats.total
    BY <1>3, <1>5, <2>1
  <2>2. ASSUME NEW w \in Worker, CountTotal(w) PROVE stats'.total <= M
    <3>1. at[w] = "total" /\ stats'.total = local[w].value + 1
      BY <1>5, <2>2 DEF CountTotal, Goto
    <3> QED
      BY <1>3, <1>4, <1>5, <2>2, <3>1
  <2>3. ASSUME NEW w \in Worker, CountCommit(w) PROVE stats'.total = stats.total
    BY <1>5, <2>3 DEF CountCommit
  <2>4. \/ stats' = stats \/ \E w \in Worker : CountTotal(w) \/ CountCommit(w)
    BY DEF Next, vars, adapterVars, ApplyOp, LoadCounter, StoreCounter, Stamp, Look,
           Reject, Commit, Number
  <2> QED
    BY <2>1, <2>2, <2>3, <2>4
<1>7. ASSUME NEW w \in Worker, at'[w] = "total" PROVE local'[w].value <= M
  <2>1. CASE at'[w] = at[w] /\ local'[w] = local[w]
    BY <1>3, <1>5, <1>7, <2>1
  <2>2. CASE Look(w)
    <3>2. IsLocal(local[w])
      BY <1>5
    <3>1. local'[w].value = stats.total
      BY <1>5, <2>2, <3>2 DEF Look, IsLocal
    <3> QED
      BY <1>3, <1>5, <3>1
  <2>3. CASE LoadCounter(w) \/ StoreCounter(w) \/ Stamp(w) \/ CountTotal(w) \/ Reject(w) \/ Commit(w)
             \/ CountCommit(w) \/ Number(w)
    BY <1>5, <1>7, <2>3 DEF LoadCounter, StoreCounter, Stamp, CountTotal, Reject, Commit,
                            CountCommit, Number, Goto, Counter
  <2> QED
    BY <2>1, <2>2, <2>3, OnlyItsOwnSteps DEF ApplyOp
<1> QED
  BY <1>6, <1>7 DEF TotalIsModest, M

\* The adapter's state keeps its types.
LEMMA TypesAreKept ==
    ASSUME HarnessInv, [Next]_vars PROVE AdapterTypeOK'
<1>1. AdapterTypeOK /\ trace' = trace
  BY TraceStays DEF HarnessInv, AdapterInv
<1>2. WellFormed(trace') /\ Len(trace') = MaxOps
  BY <1>1 DEF AdapterTypeOK
<1>3. counter' \in [Region -> Nat]
  <2>1. \A w \in Worker : pc[w] = "apply" => RegionOf(w) \in Region
    BY Calling DEF RegionOf, Operation
  <2>2. ASSUME NEW w \in Worker, StoreCounter(w) PROVE counter' \in [Region -> Nat]
    BY <1>1, <2>1, <2>2 DEF StoreCounter, Goto, AdapterTypeOK
  <2> QED
    BY <1>1, <2>2 DEF Next, vars, adapterVars, ApplyOp, LoadCounter, Stamp, Look, CountTotal,
                      Reject, Commit, CountCommit, Number, AdapterTypeOK
<1>4. at' \in [Worker -> {"load", "store", "stamp"} \cup Stamped]
  <2>1. \A w \in Worker : ApplyOp(w) =>
          \E there \in {"load", "store", "stamp"} \cup Stamped : at' = [at EXCEPT ![w] = there]
    BY DEF ApplyOp, LoadCounter, StoreCounter, Stamp, Look, CountTotal,
           Reject, Commit, CountCommit, Number, Goto, Counter, Stamped, Logging
  <2>2. UNCHANGED adapterVars \/ \E w \in Worker : ApplyOp(w)
    BY DEF Next, vars
  <2> QED
    BY <1>1, <2>1, <2>2 DEF AdapterTypeOK, adapterVars
<1>5. /\ local' = [w \in Worker |-> local'[w]]
      /\ \A w \in Worker : IsLocal(local'[w]) /\ local'[w].value \in Nat
  <2>1. /\ local = [w \in Worker |-> local[w]]
        /\ \A w \in Worker : IsLocal(local[w]) /\ local[w].value \in Nat
        /\ stats \in [total : Nat, coordination_free : Nat, coordinated : Nat]
    BY <1>1 DEF AdapterTypeOK
  <2>2. ASSUME NEW w \in Worker, ApplyOp(w)
        PROVE  \/ local' = local
               \/ \E l : local' = [local EXCEPT ![w] = l] /\ IsLocal(l) /\ l.value \in Nat
    <3> DEFINE l == local[w]
    <3>1. IsLocal(l) /\ l.value \in Nat
      BY <2>1
    <3> DEFINE Locals(v, e, c, f) == [value |-> v, event |-> e, claims |-> c, frontier |-> f]
    <3>2. \A v, e, c, f : IsLocal(Locals(v, e, c, f)) /\ Locals(v, e, c, f).value = v
      BY DEF IsLocal
    <3> HIDE DEF l
    <3>3. CASE LoadCounter(w)
      <4> DEFINE m == [l EXCEPT !.value = counter[RegionOf(w)]]
      <4>1. counter[RegionOf(w)] \in Nat
        BY <1>1, <3>3, Calling DEF LoadCounter, Goto, RegionOf, Operation, AdapterTypeOK
      <4>2. local' = [local EXCEPT ![w] = m]
        BY <3>3 DEF LoadCounter, l
      <4>3. m = Locals(counter[RegionOf(w)], l.event, l.claims, l.frontier)
        BY <3>1 DEF IsLocal
      <4> HIDE DEF m, Locals
      <4>4. IsLocal(m) /\ m.value \in Nat
        BY <3>2, <4>1, <4>3
      <4> QED
        BY <4>2, <4>4
    <3>4. CASE Stamp(w)
      <4>1. PICK e, c : local' = [local EXCEPT ![w] = [local[w] EXCEPT !.event = e, !.claims = c]]
        BY <2>1, <3>4 DEF Stamp
      <4> DEFINE d == [l EXCEPT !.event = e]
                 m == [d EXCEPT !.claims = c]
      <4>2. local' = [local EXCEPT ![w] = m]
        BY <4>1 DEF l
      <4>3. d = Locals(l.value, e, l.claims, l.frontier)
        BY <3>1 DEF IsLocal
      <4> HIDE DEF d
      <4>4. m = Locals(l.value, e, c, l.frontier)
        BY <4>3
      <4> HIDE DEF m, Locals
      <4>5. IsLocal(m) /\ m.value \in Nat
        BY <3>1, <3>2, <4>4
      <4> QED
        BY <4>2, <4>5
    <3>5. CASE Look(w)
      <4>1. PICK f : local' = [local EXCEPT ![w] = [local[w] EXCEPT !.frontier = f, !.value = stats.total]]
        BY <2>1, <3>5 DEF Look
      <4> DEFINE d == [l EXCEPT !.frontier = f]
                 m == [d EXCEPT !.value = stats.total]
      <4>2. local' = [local EXCEPT ![w] = m]
        BY <4>1 DEF l
      <4>3. d = Locals(l.value, l.event, l.claims, f)
        BY <3>1 DEF IsLocal
      <4> HIDE DEF d
      <4>4. m = Locals(stats.total, l.event, l.claims, f) /\ stats.total \in Nat
        BY <2>1, <4>3
      <4> HIDE DEF m, Locals
      <4>5. IsLocal(m) /\ m.value \in Nat
        BY <3>2, <4>4
      <4> QED
        BY <4>2, <4>5
    <3>6. CASE Commit(w)
      <4>1. PICK c \in {"coordination_free", "coordinated"} :
              local' = [local EXCEPT ![w] = [local[w] EXCEPT !.value = stats[c]]]
        BY <3>6 DEF Commit, Counter
      <4> DEFINE m == [l EXCEPT !.value = stats[c]]
      <4>2. stats["coordination_free"] \in Nat /\ stats["coordinated"] \in Nat
        BY <2>1
      <4>3. local' = [local EXCEPT ![w] = m]
        BY <4>1 DEF l
      <4>4. m = Locals(stats[c], l.event, l.claims, l.frontier)
        BY <3>1 DEF IsLocal
      <4>5. stats[c] \in Nat
        BY <4>2
      <4> HIDE DEF m, Locals
      <4>6. IsLocal(m) /\ m.value \in Nat
        BY <3>2, <4>4, <4>5
      <4> QED
        BY <4>3, <4>6
    <3>7. CASE Reject(w) \/ Number(w)
      <4>1. local' = [local EXCEPT ![w] = NoLocals] /\ IsLocal(NoLocals) /\ NoLocals.value = 0
        BY <3>7 DEF Reject, Number, NoLocals, IsLocal
      <4>2. NoLocals.value \in Nat
        BY <4>1
      <4> QED
        BY <4>1, <4>2
    <3>8. CASE StoreCounter(w) \/ CountTotal(w) \/ CountCommit(w)
      BY <3>8 DEF StoreCounter, CountTotal, CountCommit
    <3> QED
      BY <2>2, <3>3, <3>4, <3>5, <3>6, <3>7, <3>8 DEF ApplyOp
  <2>3. UNCHANGED adapterVars \/ \E w \in Worker : ApplyOp(w)
    BY DEF Next, vars
  <2>4. CASE local' = local
    BY <2>1, <2>4
  <2>5. ASSUME NEW w \in Worker, NEW l, local' = [local EXCEPT ![w] = l], IsLocal(l), l.value \in Nat
        PROVE  /\ local' = [v \in Worker |-> local'[v]]
               /\ \A v \in Worker : IsLocal(local'[v]) /\ local'[v].value \in Nat
    <3>1. DOMAIN local = Worker
      BY <2>1
    <3>2. local'[w] = l /\ \A v \in Worker : v # w => local'[v] = local[v]
      BY <2>5, <3>1
    <3>3. local' = [v \in Worker |-> local'[v]]
      BY <2>5, <3>1
    <3> QED
      BY <2>1, <2>5, <3>2, <3>3
  <2> QED
    BY <2>2, <2>3, <2>4, <2>5 DEF adapterVars
<1>6. log' \in Seq(stored')
  <2>1. CASE log' = log
    BY <1>1, <2>1 DEF AdapterTypeOK, stored
  <2> QED
    BY <2>1, WhoWrites, CommitChanges DEF CommitEffect
<1>7. stats' \in [total : Nat, coordination_free : Nat, coordinated : Nat]
  <2>1. \A w \in Worker : local[w].value \in Nat
    BY <1>1 DEF AdapterTypeOK
  <2>2. ASSUME NEW w \in Worker, CountTotal(w) \/ CountCommit(w)
        PROVE  stats' \in [total : Nat, coordination_free : Nat, coordinated : Nat]
    BY <1>1, <2>1, <2>2 DEF CountTotal, CountCommit, AdapterTypeOK
  <2>3. \/ stats' = stats \/ \E w \in Worker : CountTotal(w) \/ CountCommit(w)
    BY DEF Next, vars, adapterVars, ApplyOp, LoadCounter, StoreCounter, Stamp, Look,
           Reject, Commit, Number
  <2> QED
    BY <1>1, <2>2, <2>3 DEF AdapterTypeOK
<1>8. nextSeq' \in Nat /\ commitSeq' \in [1..MaxOps -> Int]
  BY <1>1, WhoWrites DEF Number, AdapterTypeOK
<1> QED
  BY <1>2, <1>3, <1>4, <1>5, <1>6, <1>7, <1>8 DEF AdapterTypeOK

\* The harness starts with every operation to come.
LEMMA HarnessStarts == ASSUME Init PROVE HarnessInv
<1>1. \A t \in Traces : WellFormed(t) /\ Len(t) = MaxOps
  BY TracesAreWellFormed
<1>2. \A t : WellFormed(t) => IsTrace(t)
  <2> SUFFICES ASSUME NEW t, WellFormed(t) PROVE IsTrace(t)
    OBVIOUS
  <2>1. Len(t) \in Nat /\ DOMAIN t = 1..Len(t)
    BY DEF WellFormed
  <2> QED
    BY <2>1 DEF WellFormed, IsTrace, OpId
<1>3. DriverInv
  BY <1>1, <1>2, DriverStarts DEF Init
<1>4. WellFormed(trace) /\ Len(trace) = MaxOps
  BY <1>1 DEF Init, DriverInit
<1>5. Len(log) = 0 /\ stored = {} /\ DOMAIN supersedes = {} /\ DOMAIN opToEvent = {}
  <2>1. log = <<>> /\ supersedes = <<>> /\ opToEvent = <<>>
    BY DEF Init
  <2>2. Len(<<>>) = 0 /\ DOMAIN <<>> = {}
    OBVIOUS
  <2>3. stored = {}
    BY <2>1, <2>2 DEF stored, Range
  <2> QED
    BY <2>1, <2>2, <2>3
<1>6. /\ \A w \in Worker : at[w] = "load" /\ local[w] = NoLocals
      /\ local = [w \in Worker |-> local[w]] /\ IsLocal(NoLocals) /\ NoLocals.value = 0
  BY DEF Init, NoLocals, IsLocal
<1>7. stats = [total |-> 0, coordination_free |-> 0, coordinated |-> 0]
  BY DEF Init, Store!Stats
<1>8. AdapterTypeOK
  <2>6. \A S : <<>> \in Seq(S)
    OBVIOUS
  <2>1. log \in Seq(stored) /\ nextSeq \in Nat /\ commitSeq \in [1..MaxOps -> Int]
    <3>1. log = <<>> /\ nextSeq = 0 /\ commitSeq = [o \in 1..MaxOps |-> -1]
      BY DEF Init
    <3>2. log \in Seq(stored)
      BY <2>6, <3>1
    <3> QED
      BY <3>1, <3>2
  <2>2. counter \in [Region -> Nat]
    BY DEF Init
  <2>3. at \in [Worker -> {"load", "store", "stamp"} \cup Stamped]
    BY DEF Init
  <2>4. stats \in [total : Nat, coordination_free : Nat, coordinated : Nat]
    BY <1>7
  <2>5. \A w \in Worker : IsLocal(local[w]) /\ local[w].value \in Nat
    BY <1>6
  <2> QED
    BY <1>4, <1>6, <2>1, <2>2, <2>3, <2>4, <2>5 DEF AdapterTypeOK
<1>9. TotalIsModest
  <2>1. Counted \subseteq Ops /\ IsFiniteSet(Ops)
    <3>1. Len(trace) \in Nat
      BY <1>3 DEF DriverInv, DriverTypeOK, IsTrace
    <3> QED
      BY <3>1, FS_Interval DEF Ops, Counted
  <2>2. Cardinality(Counted) \in Nat
    BY <2>1, FS_Subset, FS_CardinalityType
  <2> QED
    BY <1>6, <1>7, <2>2 DEF TotalIsModest
<1>10. CallsAreTheirs /\ CopiesAreStored /\ LoggedOnce /\ ReplacedAreEarlier /\ NumberedInOrder
  BY <1>5, <1>6
  DEF CallsAreTheirs, CopiesAreStored, LoggedOnce, ReplacedAreEarlier, NumberedInOrder, Stamped, Logging
<1> QED
  BY <1>3, <1>8, <1>9, <1>10 DEF HarnessInv, AdapterInv

\* The invariant of the threads in the store: what the driver promises, and of the
\* adapter and the store that every event is logged once, by the worker that has its
\* operation, that what it supersedes was logged before, and that acceptances are
\* numbered after those they depend on.
THEOREM ThreadsInvariance == Spec => []HarnessInv
<1>1. ASSUME HarnessInv, [Next]_vars PROVE HarnessInv'
  <2>1. DriverInv'
    BY <1>1, StepsOfDriver, DriverSteps DEF HarnessInv
  <2>2. AdapterInv'
    BY <1>1, TypesAreKept, CallsStayTheirs, CopiesStayStored, LogStaysOnce, ReplacedStayEarlier,
       NumbersStayInOrder, TotalStaysModest DEF AdapterInv
  <2> QED
    BY <2>1, <2>2 DEF HarnessInv
<1> QED
  BY <1>1, HarnessStarts, PTL DEF Spec

\* verify_order never finds a violation in a run against causal-store: accepted
\* operations carry a commit_seq larger than those they depend on, for any number of
\* threads, however they interleave in apply_op and write.
THEOREM NoOrderViolation == Spec => []VerifyOrderHolds
<1>1. ASSUME HarnessInv PROVE VerifyOrderHolds
  <2>1. /\ \A o \in DOMAIN opToEvent : commitSeq[o] \in 0..(nextSeq - 1)
        /\ \A o \in DOMAIN opToEvent : \A d \in Deps(o) \cap DOMAIN opToEvent : commitSeq[d] < commitSeq[o]
        /\ nextSeq \in Nat
    BY <1>1 DEF HarnessInv, AdapterInv, NumberedInOrder, AdapterTypeOK
  <2>2. \A o : Range(DependsOn(o)) = Deps(o)
    BY DEF Range, Deps
  <2> QED
    BY <2>1, <2>2 DEF VerifyOrderHolds, Accepted
<1> QED
  BY <1>1, ThreadsInvariance, PTL

---------------------------------------------------------------------------
(* Nothing is lost *)

\* From the event at position i of the log a chain of replacements leads to a current
\* write; it has no more links than there are events after i.
IsChain(chain, n, i) ==
    /\ chain \in [1..n -> stored]
    /\ chain[1] = log[i] /\ chain[n] \in Store!Frontier(log[i].key)
    /\ \A j \in 1..(n - 1) : ReplacedBy(chain[j], chain[j + 1])
HasChain(i) == \E n \in 1..(Len(log) - i + 1) : \E chain : IsChain(chain, n, i)

\* The log's events are at its positions.
LEMMA LogPositions ==
    ASSUME HarnessInv
    PROVE  Len(log) \in Nat /\ log \in Seq(stored) /\ stored = {log[j] : j \in 1..Len(log)}
<1>1. log \in Seq(stored)
  BY DEF HarnessInv, AdapterInv, AdapterTypeOK
<1>2. Len(log) \in Nat /\ DOMAIN log = 1..Len(log)
  BY <1>1
<1> QED
  BY <1>1, <1>2 DEF stored, Range

\* A superseded event has a replacement later in the log.
LEMMA ReplacementIsLater ==
    ASSUME HarnessInv, NEW i \in 1..Len(log), log[i] \notin Store!Frontier(log[i].key)
    PROVE  \E k \in 1..Len(log) : k > i /\ ReplacedBy(log[i], log[k])
<1>1. /\ log \in Seq(stored) /\ Len(log) \in Nat /\ stored = {log[j] : j \in 1..Len(log)}
  BY LogPositions
<1>2. log[i] \in stored /\ Store!Superseded(log[i])
  BY <1>1 DEF Store!Frontier, Store!EventsForKey, KeyOfEvent
<1>3. PICK o \in stored : o # log[i] /\ o.key = log[i].key /\ log[i] \in supersedes[o]
  BY <1>2 DEF Store!Superseded, Store!EventsForKey, KeyOfEvent
<1>4. PICK k \in 1..Len(log) : o = log[k]
  BY <1>1
<1>5. EventBefore(log[i], o) /\ \E j \in 1..(k - 1) : log[j] = log[i]
  BY <1>3, <1>4 DEF HarnessInv, AdapterInv, ReplacedAreEarlier
<1>6. PICK j \in 1..(k - 1) : log[j] = log[i]
  BY <1>5
<1>7. j \in 1..Len(log) /\ j < k
  BY <1>1, <1>4, <1>6
<1>8. j = i
  BY <1>6, <1>7 DEF HarnessInv, AdapterInv, LoggedOnce
<1> QED
  BY <1>3, <1>4, <1>5, <1>7, <1>8 DEF ReplacedBy

\* A chain from a replacement gives one from what it replaced.
LEMMA LongerChain ==
    ASSUME HarnessInv, NEW i \in 1..Len(log), NEW k \in 1..Len(log), k > i,
           ReplacedBy(log[i], log[k]), HasChain(k)
    PROVE  HasChain(i)
<1>8. PICK n \in 1..(Len(log) - k + 1) : \E chain : IsChain(chain, n, k)
  BY DEF HasChain
<1>9. PICK chain : IsChain(chain, n, k)
  BY <1>8
<1>1. /\ chain \in [1..n -> stored] /\ n \in 1..(Len(log) - k + 1)
      /\ chain[1] = log[k] /\ chain[n] \in Store!Frontier(log[k].key)
      /\ \A j \in 1..(n - 1) : ReplacedBy(chain[j], chain[j + 1])
  BY <1>8, <1>9 DEF IsChain
<1>2. Len(log) \in Nat /\ log[i] \in stored /\ log[k].key = log[i].key
  BY LogPositions DEF ReplacedBy
<1>3. n \in Nat /\ n >= 1 /\ n + 1 \in 1..(Len(log) - i + 1)
  BY <1>1, <1>2
<1> DEFINE longer == [j \in 1..(n + 1) |-> IF j = 1 THEN log[i] ELSE chain[j - 1]]
<1>4. longer \in [1..(n + 1) -> stored] /\ longer[1] = log[i] /\ longer[n + 1] = chain[n]
  <2>1. \A j \in 1..(n + 1) : j # 1 => j - 1 \in 1..n
    BY <1>3
  <2>2. 1 \in 1..(n + 1) /\ n + 1 \in 1..(n + 1) /\ n + 1 # 1 /\ (n + 1) - 1 = n
    BY <1>3
  <2> QED
    BY <1>1, <1>2, <2>1, <2>2
<1>5. ASSUME NEW j \in 1..((n + 1) - 1) PROVE ReplacedBy(longer[j], longer[j + 1])
  <2>1. CASE j = 1
    <3>1. longer[1] = log[i] /\ longer[2] = chain[1]
      BY <1>3
    <3> QED
      BY <1>1, <2>1, <3>1
  <2>2. CASE j # 1
    <3>1. j - 1 \in 1..(n - 1) /\ j \in 1..(n + 1) /\ j + 1 \in 1..(n + 1) /\ j + 1 # 1
          /\ (j + 1) - 1 = (j - 1) + 1
      BY <1>3, <2>2
    <3>2. longer[j] = chain[j - 1] /\ longer[j + 1] = chain[(j - 1) + 1]
      BY <2>2, <3>1
    <3> QED
      BY <1>1, <3>1, <3>2
  <2> QED
    BY <2>1, <2>2
<1> HIDE DEF longer
<1>6. IsChain(longer, n + 1, i)
  BY <1>1, <1>2, <1>4, <1>5 DEF IsChain
<1> QED
  BY <1>3, <1>6 DEF HasChain

\* However the threads interleave, no accepted write is lost without a trace: it is
\* current, or a chain of replacements, each after the one replaced, leads from it to
\* a current write.  The last event without such a chain would have a replacement
\* later in the log, which has one.
THEOREM NothingLostByThreadsHolds == Spec => []NothingLostByThreads
<1>1. ASSUME HarnessInv PROVE NothingLostByThreads
  <2>1. /\ Len(log) \in Nat /\ stored = {log[j] : j \in 1..Len(log)}
    BY <1>1, LogPositions
  <2>2. \A i \in 1..Len(log) : HasChain(i)
    <3> DEFINE T == {m \in Nat : \E i \in 1..Len(log) : m = Len(log) - i /\ ~HasChain(i)}
    <3>1. SUFFICES ASSUME T # {} PROVE FALSE
      <4>1. \A i \in 1..Len(log) : Len(log) - i \in Nat
        BY <2>1
      <4> QED
        BY <4>1
    <3>2. T \in SUBSET Nat
      OBVIOUS
    <3> HIDE DEF T
    <3>3. PICK m \in T : \A k \in T : m <= k
      BY <3>1, <3>2, SmallestOf
    <3>4. PICK i \in 1..Len(log) : m = Len(log) - i /\ ~HasChain(i)
      BY <3>3 DEF T
    <3>5. CASE log[i] \in Store!Frontier(log[i].key)
      <4>1. log[i] \in stored /\ 1 \in 1..(Len(log) - i + 1)
        BY <2>1
      <4> DEFINE only == [j \in 1..1 |-> log[i]]
      <4>2. only \in [1..1 -> stored] /\ only[1] = log[i]
        BY <4>1
      <4>3. \A j \in 1..(1 - 1) : FALSE
        OBVIOUS
      <4> HIDE DEF only
      <4>5. IsChain(only, 1, i)
        BY <3>5, <4>2, <4>3 DEF IsChain
      <4>4. HasChain(i)
        BY <4>1, <4>5 DEF HasChain
      <4> QED
        BY <3>4, <4>4
    <3>6. CASE log[i] \notin Store!Frontier(log[i].key)
      <4>1. PICK k \in 1..Len(log) : k > i /\ ReplacedBy(log[i], log[k])
        BY <1>1, <3>6, ReplacementIsLater
      <4>2. ~HasChain(k)
        BY <1>1, <3>4, <4>1, LongerChain
      <4>3. Len(log) - k \in T
        BY <2>1, <4>2 DEF T
      <4>4. m <= Len(log) - k
        BY <3>3, <4>3
      <4> QED
        BY <2>1, <3>4, <4>1, <4>4
    <3> QED
      BY <3>5, <3>6
  <2> SUFFICES ASSUME NEW e \in stored
               PROVE  \E n \in 1..Len(log) : \E chain \in [1..n -> stored] :
                        /\ chain[1] = e /\ chain[n] \in Store!Frontier(e.key)
                        /\ \A i \in 1..(n - 1) : ReplacedBy(chain[i], chain[i + 1])
    BY DEF NothingLostByThreads
  <2>3. PICK i \in 1..Len(log) : e = log[i]
    BY <2>1
  <2>4. PICK n \in 1..(Len(log) - i + 1) : \E chain : IsChain(chain, n, i)
    BY <2>2, <2>3 DEF HasChain
  <2>5. PICK chain : IsChain(chain, n, i)
    BY <2>4
  <2>6. n \in 1..Len(log)
    BY <2>1, <2>4
  <2>7. /\ chain \in [1..n -> stored]
        /\ chain[1] = e /\ chain[n] \in Store!Frontier(e.key)
        /\ \A j \in 1..(n - 1) : ReplacedBy(chain[j], chain[j + 1])
    BY <2>3, <2>5 DEF IsChain
  <2> QED
    BY <2>6, <2>7
<1> QED
  BY <1>1, ThreadsInvariance, PTL

---------------------------------------------------------------------------
(* A decision on a fresh copy is an atomic write *)

\* A worker that leaves "decide" is one less there, and one more where it goes.
LEMMA OneGoesOn ==
    ASSUME HarnessInv, NEW w \in Worker, at[w] = "decide", at'[w] # "decide",
           \A v \in Worker : v # w => at'[v] = at[v]
    PROVE  /\ \A step \in {"decide", "coordination_free", "coordinated"} : Cardinality(Doing(step)) \in Nat
           /\ Cardinality(Doing("decide")) > 0
           /\ Cardinality(Doing("decide")') = Cardinality(Doing("decide")) - 1
           /\ \A step \in {"coordination_free", "coordinated"} :
                Cardinality(Doing(step)') =
                  Cardinality(Doing(step)) + (IF at'[w] = step THEN 1 ELSE 0)
<1>1. \A step : IsFiniteSet(Doing(step))
  BY WorkerAssumption, FS_Subset DEF Doing
<1>2. \A step : Cardinality(Doing(step)) \in Nat
  BY <1>1, FS_CardinalityType
<1>3. Doing("decide")' = Doing("decide") \ {w} /\ w \in Doing("decide")
  BY DEF Doing
<1>4. Cardinality(Doing("decide") \ {w}) = Cardinality(Doing("decide")) - 1
  BY <1>1, <1>3, FS_RemoveElement
<1>5. Cardinality(Doing("decide") \ {w}) \in Nat
  BY <1>1, FS_RemoveElement, FS_CardinalityType
<1>6. ASSUME NEW step \in {"coordination_free", "coordinated"}
      PROVE  Cardinality(Doing(step)') =
               Cardinality(Doing(step)) + (IF at'[w] = step THEN 1 ELSE 0)
  <2>1. w \notin Doing(step)
    BY DEF Doing
  <2>2. CASE at'[w] = step
    <3>1. Doing(step)' = Doing(step) \cup {w}
      BY <2>2 DEF Doing
    <3>2. Cardinality(Doing(step) \cup {w}) = Cardinality(Doing(step)) + 1
      BY <1>1, <2>1, FS_AddElement
    <3> QED
      BY <2>2, <3>1, <3>2
  <2>3. CASE at'[w] # step
    <3>1. Doing(step)' = Doing(step)
      BY <2>3 DEF Doing
    <3> QED
      BY <1>2, <2>3, <3>1
  <2> QED
    BY <2>2, <2>3
<1> QED
  BY <1>2, <1>3, <1>4, <1>5, <1>6

\* The store's count of its writes has room for one that is still deciding.
LEMMA RoomForAWrite ==
    ASSUME HarnessInv, NEW w \in Worker, at[w] = "decide"
    PROVE  stats.total - Cardinality(Doing("decide")) < MaxOps
<1>1. IsFiniteSet(Ops) /\ Cardinality(Ops) = MaxOps /\ MaxOps \in Nat
  <2>1. Ops = 1..MaxOps /\ MaxOps \in Nat
    BY WorkloadAssumption DEF HarnessInv, AdapterInv, AdapterTypeOK, Ops
  <2> QED
    BY <2>1, FS_Interval
<1>2. Counted \subseteq Ops
  BY DEF Counted
<1>3. Cardinality(Counted) \in Nat /\ Cardinality(Counted) <= MaxOps
  BY <1>1, <1>2, FS_Subset, FS_CardinalityType
<1>4. stats.total \in Nat /\ stats.total <= Cardinality(Counted)
  BY DEF HarnessInv, AdapterInv, AdapterTypeOK, TotalIsModest
<1>5. Cardinality(Doing("decide")) \in Nat /\ Cardinality(Doing("decide")) # 0
  <2>1. IsFiniteSet(Doing("decide")) /\ w \in Doing("decide")
    BY WorkerAssumption, FS_Subset DEF Doing
  <2> QED
    BY <2>1, FS_CardinalityType, FS_EmptySet
<1> QED
  BY <1>1, <1>3, <1>4, <1>5

\* The counters of the store, as CausalStore has them.
Total == stats.total - Cardinality(Doing("decide"))
Free == stats.coordination_free + Cardinality(Doing("coordination_free"))
Coordinated == stats.coordinated + Cardinality(Doing("coordinated"))

\* A refusal on a fresh copy is one of the store's two.
LEMMA FreshRefusal ==
    ASSUME HarnessInv, NEW w \in Worker, Reject(w), FrontierIsFresh(w)
    PROVE  Store!Write(local[w].event, local[w].claims)
<1> DEFINE e == local[w].event
           claims == local[w].claims
           fr == local[w].frontier
           bad == Store!BadClaims(e, claims)
<1>1. /\ at[w] = "decide" /\ Decision(e, claims, fr) = "rejected"
      /\ at' = [at EXCEPT ![w] = "load"]
      /\ result' = Store!Result(e, "rejected",
                       IF bad = {} THEN "stale_write_dominated_by_existing_frontier"
                       ELSE IF bad \subseteq stored THEN "supersedes_non_ancestor"
                       ELSE "unknown_predecessor")
      /\ delivered' = (IF bad = {} THEN delivered \cup {e} ELSE delivered)
      /\ UNCHANGED <<log, supersedes, stats>> /\ stored' = stored
  BY DEF Reject, stored
<1>2. fr = Store!Frontier(e.key) /\ e \notin stored
  BY <1>1, NewEvent DEF FrontierIsFresh
<1>3. Store!Fresh(e)
  BY <1>1, <1>2, RoomForAWrite DEF Store!Fresh, Store!IsDuplicate
<1>4. at'[w] = "load" /\ \A v \in Worker : v # w => at'[v] = at[v]
  BY <1>1 DEF HarnessInv, AdapterInv, AdapterTypeOK
<1>5. stats \in [total : Nat, coordination_free : Nat, coordinated : Nat]
  BY DEF HarnessInv, AdapterInv, AdapterTypeOK
<1>6. Total' = Total + 1 /\ Free' = Free /\ Coordinated' = Coordinated
  <2>1. at'[w] # "decide" /\ at'[w] # "coordination_free" /\ at'[w] # "coordinated"
    BY <1>4
  <2>2. /\ Cardinality(Doing("decide")) \in Nat /\ Cardinality(Doing("coordination_free")) \in Nat
        /\ Cardinality(Doing("coordinated")) \in Nat
        /\ Cardinality(Doing("decide")') = Cardinality(Doing("decide")) - 1
        /\ Cardinality(Doing("coordination_free")') = Cardinality(Doing("coordination_free")) + 0
        /\ Cardinality(Doing("coordinated")') = Cardinality(Doing("coordinated")) + 0
    BY <1>1, <1>4, <2>1, OneGoesOn
  <2> QED
    BY <1>1, <1>5, <2>2 DEF Total, Free, Coordinated
<1> HIDE DEF e, claims, fr
<1>7. CASE bad # {}
  <2>1. \E p \in bad :
          result' = Store!Result(e, "rejected", IF p \notin stored THEN "unknown_predecessor"
                                                ELSE "supersedes_non_ancestor")
    <3>1. CASE bad \subseteq stored
      BY <1>1, <1>7, <3>1
    <3>2. ASSUME NEW p \in bad, p \notin stored
          PROVE  result' = Store!Result(e, "rejected", "unknown_predecessor")
      BY <1>1, <3>2
    <3> QED
      BY <3>1, <3>2
  <2>2. Store!RejectClaim(e, claims)
    BY <1>1, <1>3, <1>6, <1>7, <2>1
    DEF Store!RejectClaim, Store!CountRefusal, Store!Stats, Total, Free, Coordinated
  <2> QED
    BY <2>2 DEF Store!Write, e, claims
<1>8. CASE bad = {}
  <2>1. \E f \in fr : EventBefore(e, f)
    BY <1>1, <1>8 DEF Decision
  <2>2. Store!Dominators(e) # {}
    BY <1>2, <2>1 DEF Store!Dominators, KeyOfEvent
  <2>3. Store!RejectStale(e, claims)
    BY <1>1, <1>3, <1>6, <1>8, <2>2
    DEF Store!RejectStale, Store!CountRefusal, Store!Stats, Total, Free, Coordinated
  <2> QED
    BY <2>3 DEF Store!Write, e, claims
<1> QED
  BY <1>7, <1>8

\* An acceptance on a fresh copy is one of the store's four.
LEMMA FreshCommit ==
    ASSUME HarnessInv, NEW w \in Worker, Commit(w), FrontierIsFresh(w)
    PROVE  Store!Write(local[w].event, local[w].claims)
<1> DEFINE e == local[w].event
           claims == local[w].claims
           fr == local[w].frontier
           mode == Decision(e, claims, fr)
           sups == claims \cup Replaced(e, fr)
<1>1. /\ at[w] = "decide" /\ mode # "rejected"
      /\ at' = [at EXCEPT ![w] = Counter(mode)]
      /\ supersedes' = With(supersedes, e, sups)
      /\ result' = Store!Result(e, mode, "")
      /\ delivered' = delivered \cup {e} /\ UNCHANGED stats
  BY DEF Commit, Goto
<1>2. fr = Store!Frontier(e.key) /\ e \notin stored /\ stored' = stored \cup {e}
  BY <1>1, NewEvent, CommitChanges DEF FrontierIsFresh, CommitEffect
<1>3. Store!Fresh(e)
  BY <1>1, <1>2, RoomForAWrite DEF Store!Fresh, Store!IsDuplicate
<1>4. at'[w] = Counter(mode) /\ \A v \in Worker : v # w => at'[v] = at[v]
  BY <1>1 DEF HarnessInv, AdapterInv, AdapterTypeOK
<1>5. stats \in [total : Nat, coordination_free : Nat, coordinated : Nat]
  BY DEF HarnessInv, AdapterInv, AdapterTypeOK
<1>6. /\ Total' = Total + 1
      /\ Free' = IF mode = "conflict_retained" THEN Free ELSE Free + 1
      /\ Coordinated' = IF mode = "conflict_retained" THEN Coordinated + 1 ELSE Coordinated
  <2> HIDE DEF mode
  <2>1. /\ at'[w] # "decide"
        /\ mode = "conflict_retained" => at'[w] = "coordinated" /\ at'[w] # "coordination_free"
        /\ mode # "conflict_retained" => at'[w] = "coordination_free" /\ at'[w] # "coordinated"
    BY <1>4 DEF Counter
  <2>2. /\ Cardinality(Doing("decide")) \in Nat /\ Cardinality(Doing("coordination_free")) \in Nat
        /\ Cardinality(Doing("coordinated")) \in Nat
        /\ Cardinality(Doing("decide")') = Cardinality(Doing("decide")) - 1
        /\ Cardinality(Doing("coordination_free")') =
             Cardinality(Doing("coordination_free")) + (IF at'[w] = "coordination_free" THEN 1 ELSE 0)
        /\ Cardinality(Doing("coordinated")') =
             Cardinality(Doing("coordinated")) + (IF at'[w] = "coordinated" THEN 1 ELSE 0)
    BY <1>1, <1>4, <2>1, OneGoesOn
  <2>3. /\ stats'.total = stats.total /\ stats'.coordination_free = stats.coordination_free
        /\ stats'.coordinated = stats.coordinated
        /\ stats.total \in Nat /\ stats.coordination_free \in Nat /\ stats.coordinated \in Nat
    BY <1>1, <1>5
  <2>4. Total' = Total + 1
    BY <2>2, <2>3 DEF Total
  <2>5. CASE mode = "conflict_retained"
    BY <2>1, <2>2, <2>3, <2>4, <2>5 DEF Free, Coordinated
  <2>6. CASE mode # "conflict_retained"
    BY <2>1, <2>2, <2>3, <2>4, <2>6 DEF Free, Coordinated
  <2> QED
    BY <2>5, <2>6
<1>7. DOMAIN supersedes = stored
  BY DEF HarnessInv, AdapterInv, ReplacedAreEarlier
<1> HIDE DEF e, claims, fr, mode, sups
<1>8. supersedes' = [o \in stored \cup {e} |-> IF o = e THEN sups ELSE supersedes[o]]
  BY <1>1, <1>7 DEF With
<1>9. Store!AppendEvent(e, sups)
  BY <1>1, <1>2, <1>8 DEF Store!AppendEvent
<1>10. Store!BadClaims(e, claims) = {}
  BY <1>1 DEF Decision, mode
<1>11. /\ Store!Ancestors(e) = Replaced(e, fr)
       /\ Store!Dominators(e) = {f \in fr : EventBefore(e, f)}
       /\ Store!Frontier(KeyOfEvent(e)) = fr
       /\ Store!FollowsAll(e) <=> \A f \in fr : EventBefore(f, e)
       /\ Store!IndependentOfAll(e) <=> \A f \in fr : Store!ProvenIndependent(f, e)
  BY <1>2 DEF Store!Ancestors, Store!Dominators, Store!FollowsAll, Store!IndependentOfAll,
              Replaced, KeyOfEvent
<1>12. /\ mode # "conflict_retained" =>
            [total |-> Total', coordination_free |-> Free', coordinated |-> Coordinated'] = Store!CountFree
       /\ mode = "conflict_retained" =>
            [total |-> Total', coordination_free |-> Free', coordinated |-> Coordinated'] =
              Store!CountCoordinated
  BY <1>6 DEF Store!CountFree, Store!CountCoordinated, Store!Stats, Total, Free, Coordinated
<1>13. fr # {} => ~\E f \in fr : EventBefore(e, f)
  BY <1>1, <1>10 DEF Decision, mode
<1>14. Store!Dominators(e) = {}
  BY <1>11, <1>13
<1>15. Store!Admissible(e, claims)
  BY <1>3, <1>10, <1>14 DEF Store!Admissible
<1>16. CASE fr = {}
  <2>1. mode = "coordination_free" /\ sups = claims
    BY <1>10, <1>16 DEF Decision, Replaced, mode, sups
  <2>2. Store!CommitFirst(e, claims)
    BY <1>1, <1>9, <1>11, <1>12, <1>15, <1>16, <2>1 DEF Store!CommitFirst, Total, Free, Coordinated
  <2> QED
    BY <2>2 DEF Store!Write, e, claims
<1>17. CASE fr # {} /\ \A f \in fr : EventBefore(f, e)
  <2>1. mode = "causal_supersede" /\ sups = claims \cup fr
    BY <1>10, <1>13, <1>17 DEF Decision, Replaced, mode, sups
  <2>2. Store!CommitSupersede(e, claims)
    BY <1>1, <1>9, <1>11, <1>12, <1>15, <1>17, <2>1 DEF Store!CommitSupersede, Total, Free, Coordinated
  <2> QED
    BY <2>2 DEF Store!Write, e, claims
<1>18. CASE /\ ~\A f \in fr : EventBefore(f, e)
            /\ \A f \in fr : Store!ProvenIndependent(f, e)
  <2>1. mode = "coordination_free" /\ sups = claims
    BY <1>10, <1>13, <1>18
    DEF Decision, Replaced, mode, sups, Store!ProvenIndependent, Store!Concurrent
  <2>2. Store!CommitIndependent(e, claims)
    BY <1>1, <1>9, <1>11, <1>12, <1>15, <1>18, <2>1 DEF Store!CommitIndependent, Total, Free, Coordinated
  <2> QED
    BY <2>2 DEF Store!Write, e, claims
<1>19. CASE /\ ~\A f \in fr : EventBefore(f, e)
            /\ ~\A f \in fr : Store!ProvenIndependent(f, e)
  <2>1. mode = "conflict_retained" /\ sups = claims \cup Store!Ancestors(e)
    BY <1>10, <1>11, <1>13, <1>19 DEF Decision, mode, sups
  <2>2. Store!RetainConflict(e, claims)
    BY <1>1, <1>9, <1>11, <1>12, <1>15, <1>19, <2>1 DEF Store!RetainConflict, Total, Free, Coordinated
  <2> QED
    BY <2>2 DEF Store!Write, e, claims
<1> QED
  BY <1>16, <1>17, <1>18, <1>19

\* The copy of the frontier is all that the missing lock can spoil: a decision on a
\* copy that is still the frontier is an atomic write of CausalStore, whatever the
\* other threads did since the call began, however many they are.
THEOREM FreshWritesAreAtomicHolds == Spec => FreshWritesAreAtomic
<1>1. ASSUME HarnessInv, [Next]_vars
      PROVE  \A w \in Worker : at[w] = "decide" /\ at'[w] # "decide" /\ FrontierIsFresh(w) =>
               Store!Write(local[w].event, ClaimsOf(task[w]))
  <2> SUFFICES ASSUME NEW w \in Worker, at[w] = "decide", at'[w] # "decide", FrontierIsFresh(w)
               PROVE  Store!Write(local[w].event, ClaimsOf(task[w]))
    OBVIOUS
  <2>1. local[w].claims = ClaimsOf(task[w])
    BY <1>1 DEF HarnessInv, AdapterInv, CallsAreTheirs, Stamped
  <2>2. ApplyOp(w)
    BY <1>1, OnlyItsOwnSteps
  <2>3. Reject(w) \/ Commit(w)
    BY <2>2 DEF ApplyOp, LoadCounter, StoreCounter, Stamp, Look, CountTotal, CountCommit, Number, Goto
  <2>4. Store!Write(local[w].event, local[w].claims)
    BY <1>1, <2>3, FreshRefusal, FreshCommit
  <2> QED
    BY <2>1, <2>4
<1> QED
  BY <1>1, ThreadsInvariance, PTL DEF Spec, FreshWritesAreAtomic

=============================================================================
