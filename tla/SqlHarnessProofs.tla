-------------------------- MODULE SqlHarnessProofs --------------------------
(***************************************************************************)
(* The adapters causal-store is compared with, for every pool of workers,     *)
(* every trace, every table an earlier run left and any number of errors of   *)
(* the database: what a replay reports is in real-time order.                 *)
(***************************************************************************)
EXTENDS SqlHarness, DriverProofs

\* The operations with a committed row of this run.
Committed == {rows[i] : i \in DOMAIN rows}

Reasons == {"", "pending", "unknown_predecessor", "sql_error"}

AdapterTypeOK ==
    /\ phase \in {"setup", "ready", "unavailable", "failed", "torn down"}
    /\ rows \in Seq(Ops)
    /\ conn \in [Worker -> {"none", "open", "lost"}]
    /\ at \in [Worker -> {"call", "check", "insert", "number"}]
    /\ nextSeq \in Nat
    /\ result \in [Ops -> [accepted : BOOLEAN, commit_seq : Int, rejected_reason : Reasons]]
    /\ earlier \in [Ops -> SUBSET Ops]
    /\ faults \in Nat

\* Nothing runs before the adapter is set up, and only a call of the SQL adapter is
\* ever half done.
CallsInProgress ==
    /\ phase \in {"setup", "unavailable", "failed"} =>
         rows = <<>> /\ \A w \in Worker : pc[w] = "idle"
    /\ \A w \in Worker : at[w] # "call" => pc[w] = "apply" /\ system = "sql"

\* The table holds the rows of this run, one for each operation committed; of a
\* running operation there is one once it is about to be numbered.
RowsAreTheRuns ==
    /\ system = "sql" /\ phase \in {"ready", "torn down"} => table = Committed
    /\ \A i, j \in DOMAIN rows : rows[i] = rows[j] => i = j
    /\ \A i \in DOMAIN rows : rows[i] <= Taken
    /\ \A w \in Worker : pc[w] # "idle" => (task[w] \in Committed <=> at[w] = "number")

\* The row of the first dependency was there when the insert was reached.
InsertsAreCovered ==
    \A w \in Worker : at[w] = "insert" => DependencyPresent(task[w])

\* An accepted operation has returned, has a row, and has a number of its own.
AcceptedAreNumbered ==
    /\ \A o \in Ops : result[o].accepted =>
         outcome[o] = "returned" /\ o \in Committed /\ result[o].commit_seq \in 0..(nextSeq - 1)
    /\ \A o, p \in Ops : o # p /\ result[o].accepted /\ result[p].accepted =>
         result[o].commit_seq # result[p].commit_seq

\* What had returned before a call began, its dependencies among it, is settled.
EarlierIsSettled ==
    /\ \A o \in Ops : \A p \in earlier[o] : outcome[p] = "returned"
    /\ \A o \in Ops : result[o].accepted => Deps(o) \subseteq earlier[o]
    /\ \A w \in Worker : at[w] # "call" => Deps(task[w]) \subseteq earlier[task[w]]

\* Real time: what had returned has the smaller number and the earlier row.
EarlierComesFirst ==
    /\ \A o \in Ops : \A p \in earlier[o] : result[o].accepted /\ result[p].accepted =>
         result[p].commit_seq < result[o].commit_seq
    /\ \A i \in DOMAIN rows : \A p \in earlier[rows[i]] : result[p].accepted =>
         \E j \in DOMAIN rows : j < i /\ rows[j] = p

\* Without an error of the database no connection is lost and nothing is refused.
FaultFree ==
    faults = 0 => /\ \A w \in Worker : conn[w] # "lost"
                  /\ \A o \in Ops : outcome[o] # "none" => result[o].accepted

HarnessInv ==
    /\ DriverInv /\ AdapterTypeOK /\ CallsInProgress
    /\ RowsAreTheRuns /\ InsertsAreCovered /\ RowsAreClosed
    /\ AcceptedAreNumbered /\ EarlierIsSettled /\ EarlierComesFirst /\ FaultFree

---------------------------------------------------------------------------
\* The facts of a call in progress that the steps below need.
LEMMA Calling ==
    ASSUME HarnessInv, NEW w \in Worker, pc[w] = "apply"
    PROVE  /\ task[w] \in Ops /\ outcome[task[w]] = "none" /\ task[w] <= Taken
           /\ ~result[task[w]].accepted
           /\ \A v \in Worker : v # w /\ pc[v] # "idle" => task[v] # task[w]
           /\ \A d \in Deps(task[w]) : outcome[d] = "returned"
           /\ phase \in {"ready", "torn down"}
           /\ Ops \subseteq Nat /\ Deps(task[w]) \subseteq Ops
<1>1. /\ task[w] \in Ops /\ outcome[task[w]] = "none" /\ task[w] <= Taken
      /\ \A v \in Worker : v # w /\ pc[v] # "idle" => task[v] # task[w]
  BY BusyWorker DEF HarnessInv
<1>2. ~result[task[w]].accepted
  BY <1>1 DEF HarnessInv, AcceptedAreNumbered
<1>3. \A d \in Deps(task[w]) : outcome[d] = "returned"
  BY DEF HarnessInv, DriverInv, DirectDependencies
<1>4. phase \in {"ready", "torn down"}
  BY DEF HarnessInv, CallsInProgress, AdapterTypeOK
<1>5. IsTrace(trace) /\ Ops \subseteq Nat
  BY DEF HarnessInv, DriverInv, DriverTypeOK, IsTrace, Ops
<1> QED
  BY <1>1, <1>2, <1>3, <1>4, <1>5, DepsAreEarlier

\* Every step is one of the driver's, or leaves the driver alone.
LEMMA StepsOfDriver ==
    ASSUME [Next]_vars PROVE DriverNext \/ UNCHANGED driverVars
BY DEF Next, vars, Setup, Teardown, ApplyOp, ThreadConn, ConnRaises, CheckDependency,
       UnknownPredecessor, Commit, SqlError, ConnectionLost, Number, Serialise,
       Goto, Returns, Raises, DriverNext

\* What has ended stays as it is: its outcome, its result and what came before it.
LEMMA EndedStays ==
    ASSUME HarnessInv, [Next]_vars, NEW o \in Ops, outcome[o] # "none"
    PROVE  outcome'[o] = outcome[o] /\ result'[o] = result[o] /\ earlier'[o] = earlier[o]
<1>1. outcome'[o] = outcome[o]
  BY StepsOfDriver, ReturnedStays DEF HarnessInv
<1>2. \A w \in Worker : pc[w] = "apply" => task[w] # o
  BY Calling
<1>3. result'[o] = result[o]
  BY <1>2 DEF Next, vars, adapterVars, Setup, Teardown, ApplyOp, ThreadConn, ConnRaises, CheckDependency,
       UnknownPredecessor, Commit, SqlError, ConnectionLost, Number, Serialise,
       Goto, Returns, Raises, Return, Raise, HarnessInv, AdapterTypeOK
<1>4. earlier'[o] = earlier[o]
  BY <1>2 DEF Next, vars, adapterVars, Setup, Teardown, ApplyOp, ThreadConn, ConnRaises, CheckDependency,
       UnknownPredecessor, Commit, SqlError, ConnectionLost, Number, Serialise,
       Goto, Returns, Raises, Return, Raise, Begun, HarnessInv, AdapterTypeOK
<1> QED
  BY <1>1, <1>3, <1>4

\* A result that is new is that of a call that returns, and an acceptance takes
\* the next number for an operation that has a row.
LEMMA NewResults ==
    ASSUME HarnessInv, [Next]_vars
    PROVE  /\ nextSeq' \in Nat /\ nextSeq <= nextSeq'
           /\ \A o \in Ops : result'[o] # result[o] =>
                /\ outcome'[o] = "returned"
                /\ \A p \in Ops : p # o => result'[p] = result[p]
                /\ result'[o].accepted =>
                     /\ result'[o].commit_seq = nextSeq /\ nextSeq' = nextSeq + 1
                     /\ o \in Committed' /\ Deps(o) \subseteq earlier'[o]
<1> DEFINE New(o) ==
             /\ outcome'[o] = "returned"
             /\ \A p \in Ops : p # o => result'[p] = result[p]
             /\ result'[o].accepted =>
                  /\ result'[o].commit_seq = nextSeq /\ nextSeq' = nextSeq + 1
                  /\ o \in Committed' /\ Deps(o) \subseteq earlier'[o]
<1>1. nextSeq \in Nat /\ rows \in Seq(Ops) /\ result \in [Ops -> [accepted : BOOLEAN, commit_seq : Int, rejected_reason : Reasons]]
      /\ earlier \in [Ops -> SUBSET Ops]
  BY DEF HarnessInv, AdapterTypeOK
<1>2. ASSUME NEW w \in Worker, Return(w), \E res : result' = [result EXCEPT ![task[w]] = res],
             NEW o \in Ops, result'[o] # result[o]
      PROVE  /\ o = task[w] /\ outcome'[o] = "returned"
             /\ \A p \in Ops : p # o => result'[p] = result[p]
  <2>1. pc[w] = "apply" /\ Resolve(w, "returned")
    BY <1>2 DEF Return
  <2>2. outcome'[task[w]] = "returned"
    BY <2>1, ResolveChanges DEF HarnessInv
  <2> QED
    BY <1>1, <1>2, <2>1, <2>2
<1>3. ASSUME NEW w \in Worker, UnknownPredecessor(w) \/ SqlError(w), NEW o \in Ops, result'[o] # result[o]
      PROVE  New(o)
  <2>1. PICK reason : Return(w) /\ result' = [result EXCEPT ![task[w]] = OpResult(FALSE, -1, reason)]
    BY <1>3 DEF UnknownPredecessor, SqlError, Returns
  <2>2. /\ o = task[w] /\ outcome'[o] = "returned"
        /\ \A p \in Ops : p # o => result'[p] = result[p]
    BY <1>2, <1>3, <2>1
  <2>3. ~result'[o].accepted
    BY <1>1, <2>1, <2>2 DEF OpResult
  <2> QED
    BY <2>2, <2>3
<1>4. ASSUME NEW w \in Worker, Number(w), NEW o \in Ops, result'[o] # result[o] PROVE New(o)
  <2>1. /\ at[w] = "number" /\ Returns(w, OpResult(TRUE, nextSeq, "")) /\ nextSeq' = nextSeq + 1
        /\ UNCHANGED <<rows, earlier>> /\ pc[w] = "apply"
    BY <1>4 DEF Number, Ticket, Returns, Return
  <2>2. o = task[w] /\ result'[o].commit_seq = nextSeq
    <3>1. Return(w) /\ result' = [result EXCEPT ![task[w]] = OpResult(TRUE, nextSeq, "")]
      BY <2>1 DEF Returns
    <3>2. o = task[w]
      BY <1>2, <1>4, <3>1
    <3>3. result'[o] = OpResult(TRUE, nextSeq, "")
      BY <1>1, <3>1, <3>2
    <3>4. OpResult(TRUE, nextSeq, "").commit_seq = nextSeq
      BY DEF OpResult
    <3> QED
      BY <3>2, <3>3, <3>4
  <2>3. o \in Committed /\ Deps(o) \subseteq earlier[o]
    BY <2>1, <2>2 DEF HarnessInv, RowsAreTheRuns, EarlierIsSettled
  <2>4. Committed' = Committed
    BY <2>1 DEF Committed
  <2>5. outcome'[o] = "returned" /\ \A p \in Ops : p # o => result'[p] = result[p]
    BY <1>2, <1>4, <2>1 DEF Returns
  <2> QED
    BY <2>1, <2>2, <2>3, <2>4, <2>5
<1>5. ASSUME NEW w \in Worker, Serialise(w), NEW o \in Ops, result'[o] # result[o] PROVE New(o)
  <2>1. /\ pc[w] = "apply" /\ Returns(w, OpResult(TRUE, nextSeq, "")) /\ nextSeq' = nextSeq + 1
        /\ rows' = Append(rows, task[w])
        /\ earlier' = [earlier EXCEPT ![task[w]] = {p \in Ops : outcome[p] = "returned"}]
    BY <1>5 DEF Serialise, Ticket, Begun
  <2>2. o = task[w] /\ result'[o].commit_seq = nextSeq
    <3>1. Return(w) /\ result' = [result EXCEPT ![task[w]] = OpResult(TRUE, nextSeq, "")]
      BY <2>1 DEF Returns
    <3>2. o = task[w]
      BY <1>2, <1>5, <3>1
    <3>3. result'[o] = OpResult(TRUE, nextSeq, "")
      BY <1>1, <3>1, <3>2
    <3>4. OpResult(TRUE, nextSeq, "").commit_seq = nextSeq
      BY DEF OpResult
    <3> QED
      BY <3>2, <3>3, <3>4
  <2>3. Deps(o) \subseteq earlier'[o]
    BY <1>1, <2>1, <2>2, Calling
  <2>4. o \in Committed'
    <3>1. o \in Ops /\ rows' = Append(rows, o)
      BY <2>1, <2>2
    <3>2. Len(rows) + 1 \in DOMAIN rows' /\ rows'[Len(rows) + 1] = o
      BY <1>1, <3>1
    <3> QED
      BY <3>2 DEF Committed
  <2>5. outcome'[o] = "returned" /\ \A p \in Ops : p # o => result'[p] = result[p]
    BY <1>2, <1>5, <2>1 DEF Returns
  <2> QED
    BY <2>1, <2>2, <2>3, <2>4, <2>5
<1>6. ASSUME NEW o \in Ops, result'[o] # result[o] PROVE New(o)
  <2>1. \E w \in Worker : UnknownPredecessor(w) \/ SqlError(w) \/ Number(w) \/ Serialise(w)
    BY <1>6 DEF Next, vars, adapterVars, Setup, Teardown, ApplyOp, ThreadConn, ConnRaises, CheckDependency,
                Commit, ConnectionLost
  <2> QED
    BY <1>3, <1>4, <1>5, <1>6, <2>1
<1>7. nextSeq' = nextSeq \/ nextSeq' = nextSeq + 1
  BY DEF Next, vars, adapterVars, Setup, Teardown, ApplyOp, ThreadConn, ConnRaises, CheckDependency,
         UnknownPredecessor, Commit, SqlError, ConnectionLost, Number, Serialise
<1> QED
  BY <1>1, <1>6, <1>7

\* The record of what came before an operation changes when its call begins.
LEMMA NewEarlier ==
    ASSUME HarnessInv, [Next]_vars, NEW o \in Ops, earlier'[o] # earlier[o]
    PROVE  /\ earlier'[o] = {p \in Ops : outcome[p] = "returned"}
           /\ o \notin Committed /\ ~result[o].accepted /\ Deps(o) \subseteq earlier'[o]
<1>1. PICK w \in Worker : pc[w] = "apply" /\ at[w] = "call" /\ Begun(w)
  BY DEF Next, vars, adapterVars, Setup, Teardown, ApplyOp, ThreadConn, ConnRaises, CheckDependency,
         UnknownPredecessor, Commit, SqlError, ConnectionLost, Number, Serialise,
         Goto, Returns, Return, HarnessInv, CallsInProgress
<1>2. o = task[w] /\ earlier'[o] = {p \in Ops : outcome[p] = "returned"}
  BY <1>1 DEF Begun, HarnessInv, AdapterTypeOK
<1>3. o \notin Committed
  BY <1>1, <1>2 DEF HarnessInv, RowsAreTheRuns
<1> QED
  BY <1>1, <1>2, <1>3, Calling

\* A new row is that of a call in progress that had none, and whose first
\* dependency has one.
LEMMA NewRow ==
    ASSUME HarnessInv, [Next]_vars, rows' # rows
    PROVE  \E w \in Worker :
             /\ pc[w] = "apply" /\ task[w] \in Ops /\ task[w] \notin Committed
             /\ rows' = Append(rows, task[w])
             /\ at'[w] = "number" \/ pc'[w] = "idle"
             /\ system = "sql" /\ DependsOn(task[w]) # <<>> => Head(DependsOn(task[w])) \in Committed
<1>1. PICK w \in Worker : Commit(w) \/ Serialise(w) \/ ConnectionLost(w)
  BY DEF Next, vars, adapterVars, Setup, Teardown, ApplyOp, ThreadConn, ConnRaises, CheckDependency,
         UnknownPredecessor, SqlError, Number
<1>2. CASE Serialise(w)
  <2>1. pc[w] = "apply" /\ rows' = Append(rows, task[w]) /\ system # "sql"
    BY <1>2 DEF Serialise
  <2>2. task[w] \notin Committed
    BY <2>1 DEF HarnessInv, RowsAreTheRuns, CallsInProgress
  <2>3. pc'[w] = "idle"
    BY <1>2, ResolveChanges DEF Serialise, Returns, Return, HarnessInv
  <2> QED
    BY <2>1, <2>2, <2>3, Calling
<1>3. CASE Commit(w) \/ ConnectionLost(w)
  <2>1. pc[w] = "apply" /\ at[w] = "insert" /\ task[w] \notin table /\ rows' = Append(rows, task[w])
    BY <1>3 DEF Commit, ConnectionLost, Goto, InTransaction
  <2>2. system = "sql" /\ phase \in {"ready", "torn down"}
    BY <2>1, Calling DEF HarnessInv, CallsInProgress
  <2>3. table = Committed /\ DependencyPresent(task[w])
    BY <2>1, <2>2 DEF HarnessInv, RowsAreTheRuns, InsertsAreCovered
  <2>4. at'[w] = "number" \/ pc'[w] = "idle"
    BY <1>3, <2>1, ResolveChanges
    DEF Commit, ConnectionLost, Goto, Raises, Raise, HarnessInv, AdapterTypeOK
  <2> QED
    BY <2>1, <2>3, <2>4, Calling DEF DependencyPresent
<1> QED
  BY <1>1, <1>2, <1>3

---------------------------------------------------------------------------
\* What the log of rows becomes: it grows at its end or stays.
LEMMA RowsGrow ==
    ASSUME HarnessInv, [Next]_vars
    PROVE  /\ Ops' = Ops /\ \A o : Deps(o)' = Deps(o) /\ DependsOn(o)' = DependsOn(o)
           /\ Ops \subseteq Nat /\ \A i \in DOMAIN rows' : rows'[i] \in Ops
           /\ Len(rows) \in Nat /\ DOMAIN rows = 1..Len(rows) /\ DOMAIN rows \subseteq DOMAIN rows'
           /\ rows' \in Seq(Ops) /\ DOMAIN rows' \subseteq 1..(Len(rows) + 1)
           /\ \A i \in DOMAIN rows : rows'[i] = rows[i]
           /\ Committed \subseteq Committed' /\ Committed \subseteq Ops
           /\ rows' # rows =>
                \E w \in Worker :
                  /\ pc[w] = "apply" /\ task[w] \in Ops /\ task[w] \notin Committed
                  /\ rows'[Len(rows) + 1] = task[w] /\ DOMAIN rows' = 1..(Len(rows) + 1)
                  /\ Committed' = Committed \cup {task[w]}
                  /\ at'[w] = "number" \/ pc'[w] = "idle"
                  /\ system = "sql" /\ DependsOn(task[w]) # <<>> => Head(DependsOn(task[w])) \in Committed
<1>1. rows \in Seq(Ops) /\ DOMAIN rows = 1..Len(rows) /\ Len(rows) \in Nat
  <2>1. rows \in Seq(Ops)
    BY DEF HarnessInv, AdapterTypeOK
  <2> QED
    BY <2>1
<1>2. trace' = trace
  BY DEF Next, vars, adapterVars, driverVars, Setup, Teardown, ApplyOp, ThreadConn, ConnRaises, CheckDependency,
         UnknownPredecessor, Commit, SqlError, ConnectionLost, Number, Serialise, Goto, Returns, Raises,
         Return, Raise, Resolve, Submit, Finish, Schedule, Take, StartApply, DependencyRaised
<1>3. Ops' = Ops /\ \A o : Deps(o)' = Deps(o) /\ DependsOn(o)' = DependsOn(o)
  BY <1>2 DEF Ops, Deps, DependsOn
<1>4. Committed \subseteq Ops /\ \A i \in DOMAIN rows : rows[i] \in Ops
  BY <1>1 DEF Committed
<1>7. Ops \subseteq Nat
  BY DEF HarnessInv, DriverInv, DriverTypeOK, IsTrace, Ops
<1>5. CASE rows' = rows
  BY <1>1, <1>3, <1>4, <1>5, <1>7 DEF Committed
<1>6. CASE rows' # rows
  <2>1. PICK w \in Worker :
          /\ pc[w] = "apply" /\ task[w] \in Ops /\ task[w] \notin Committed
          /\ rows' = Append(rows, task[w])
          /\ at'[w] = "number" \/ pc'[w] = "idle"
          /\ system = "sql" /\ DependsOn(task[w]) # <<>> => Head(DependsOn(task[w])) \in Committed
    BY <1>6, NewRow
  <2>2. /\ rows' \in Seq(Ops) /\ DOMAIN rows' = 1..(Len(rows) + 1)
        /\ \A i \in DOMAIN rows : rows'[i] = rows[i]
        /\ rows'[Len(rows) + 1] = task[w]
    BY <1>1, <2>1
  <2>3. Committed' = Committed \cup {task[w]}
    <3>1. Committed' \subseteq Committed \cup {task[w]}
      <4> SUFFICES ASSUME NEW i \in DOMAIN rows', i \notin DOMAIN rows PROVE rows'[i] = task[w]
        BY <2>2 DEF Committed
      <4> QED
        BY <1>1, <2>2
    <3>2. Committed \subseteq Committed'
      BY <1>1, <2>2 DEF Committed
    <3>3. task[w] \in Committed'
      BY <1>1, <2>2 DEF Committed
    <3> QED
      BY <3>1, <3>2, <3>3
  <2>4. DOMAIN rows \subseteq DOMAIN rows' /\ Committed \subseteq Committed'
    BY <1>1, <2>2, <2>3
  <2>5. \A i \in DOMAIN rows' : rows'[i] \in Ops
    BY <2>2
  <2> QED
    BY <1>1, <1>3, <1>4, <1>7, <2>5, <2>1, <2>2, <2>3, <2>4
<1> QED
  BY <1>5, <1>6

\* A row is committed over the row of its first dependency.
LEMMA RowsStayClosed ==
    ASSUME HarnessInv, [Next]_vars PROVE RowsAreClosed'
<1>1. system' = system
  BY DEF Next, vars, adapterVars, Setup, Teardown, ApplyOp, ThreadConn, ConnRaises, CheckDependency,
         UnknownPredecessor, Commit, SqlError, ConnectionLost, Number, Serialise
<1> SUFFICES ASSUME system = "sql", NEW i \in DOMAIN rows', DependsOn(rows'[i]) # <<>>
             PROVE  \E j \in 1..(i - 1) : rows'[j] = Head(DependsOn(rows'[i]))
  BY <1>1, RowsGrow DEF RowsAreClosed
<1>2. /\ Len(rows) \in Nat /\ DOMAIN rows = 1..Len(rows) /\ i \in 1..(Len(rows) + 1)
      /\ \A j \in DOMAIN rows : rows'[j] = rows[j]
  BY RowsGrow
<1>3. CASE i \in DOMAIN rows
  <2>1. \E j \in 1..(i - 1) : rows[j] = Head(DependsOn(rows[i]))
    BY <1>2, <1>3 DEF HarnessInv, RowsAreClosed
  <2> QED
    BY <1>2, <1>3, <2>1
<1>4. CASE i \notin DOMAIN rows
  <2>1. i = Len(rows) + 1 /\ rows' # rows
    BY <1>2, <1>4
  <2>2. PICK w \in Worker :
          /\ rows'[Len(rows) + 1] = task[w]
          /\ system = "sql" /\ DependsOn(task[w]) # <<>> => Head(DependsOn(task[w])) \in Committed
    BY <2>1, RowsGrow
  <2>3. rows'[i] = task[w]
    BY <2>1, <2>2
  <2>4. Head(DependsOn(rows'[i])) \in Committed
    BY <2>2, <2>3
  <2> QED
    BY <1>2, <2>1, <2>4 DEF Committed
<1> QED
  BY <1>3, <1>4

\* Numbers stay unique, and the accepted stay committed.
LEMMA AcceptedStayNumbered ==
    ASSUME HarnessInv, [Next]_vars PROVE AcceptedAreNumbered'
<1> USE DEF HarnessInv, AcceptedAreNumbered
<1>1. nextSeq \in Nat /\ nextSeq' \in Nat /\ nextSeq <= nextSeq' /\ Ops' = Ops /\ Committed \subseteq Committed'
  BY NewResults, RowsGrow DEF AdapterTypeOK
<1>2. ASSUME NEW o \in Ops, result'[o] = result[o], result'[o].accepted
      PROVE  outcome'[o] = "returned" /\ o \in Committed' /\ result'[o].commit_seq \in 0..(nextSeq - 1)
  <2>1. outcome[o] = "returned" /\ o \in Committed /\ result[o].commit_seq \in 0..(nextSeq - 1)
    BY <1>2
  <2> QED
    BY <1>1, <1>2, <2>1, EndedStays
<1>3. ASSUME NEW o \in Ops, result'[o] # result[o], result'[o].accepted
      PROVE  /\ outcome'[o] = "returned" /\ o \in Committed'
             /\ result'[o].commit_seq = nextSeq /\ nextSeq' = nextSeq + 1
             /\ \A p \in Ops : p # o => result'[p] = result[p]
  BY <1>3, NewResults
<1>4. ASSUME NEW o \in Ops, result'[o].accepted
      PROVE  outcome'[o] = "returned" /\ o \in Committed' /\ result'[o].commit_seq \in 0..(nextSeq' - 1)
  BY <1>1, <1>2, <1>3, <1>4
<1>5. ASSUME NEW o \in Ops, NEW p \in Ops, o # p, result'[o].accepted, result'[p].accepted
      PROVE  result'[o].commit_seq # result'[p].commit_seq
  <2>1. CASE result'[o] = result[o] /\ result'[p] = result[p]
    BY <1>5, <2>1
  <2>2. CASE result'[o] # result[o]
    BY <1>1, <1>2, <1>3, <1>5, <2>2
  <2>3. CASE result'[p] # result[p]
    BY <1>1, <1>2, <1>3, <1>5, <2>3
  <2> QED
    BY <2>1, <2>2, <2>3
<1> QED
  BY <1>1, <1>4, <1>5


\* A call that is in progress after a step began with it, or was in progress
\* already and went on.
GoesOn(w) ==
    /\ pc[w] = "apply" /\ pc'[w] = "apply" /\ task'[w] = task[w] /\ system = "sql"
    /\ at[w] = "call" => Begun(w) /\ at'[w] = "check"
    /\ \/ at[w] = "call" \/ at'[w] = at[w]
       \/ at[w] = "check" /\ at'[w] = "insert" /\ DependencyPresent(task[w])
       \/ at[w] = "insert" /\ at'[w] = "number" /\ rows' = Append(rows, task[w])

LEMMA CallsGoOn ==
    ASSUME HarnessInv, [Next]_vars, NEW w \in Worker, at'[w] # "call" PROVE GoesOn(w)
<1> USE DEF HarnessInv, GoesOn
<1>1. at \in [Worker -> {"call", "check", "insert", "number"}]
  BY DEF AdapterTypeOK
<1>2. at[w] # "call" => pc[w] = "apply" /\ system = "sql"
  BY DEF CallsInProgress
<1>3. CASE UNCHANGED vars
  BY <1>1, <1>2, <1>3 DEF vars, adapterVars, driverVars
<1>4. CASE Setup \/ Teardown
  BY <1>1, <1>2, <1>4 DEF Setup, Teardown, driverVars
<1>5. CASE (Submit \/ Finish \/ \E v \in Worker : Schedule(v)) /\ UNCHANGED adapterVars
  <2>1. ScheduleEffect
    BY <1>5, ScheduleChanges
  <2>2. at' = at
    BY <1>5 DEF adapterVars
  <2> QED
    BY <1>2, <2>1, <2>2 DEF ScheduleEffect
<1>6. ASSUME NEW v \in Worker, NEW how, pc[v] = "apply", Resolve(v, how), at' = [at EXCEPT ![v] = "call"]
      PROVE  GoesOn(w)
  <2>1. v # w /\ at'[w] = at[w]
    BY <1>1, <1>6
  <2>2. pc'[w] = pc[w] /\ task'[w] = task[w]
    BY <1>6, <2>1, ResolveChanges
  <2> QED
    BY <1>2, <2>1, <2>2
<1>7. ASSUME NEW v \in Worker, UnknownPredecessor(v) \/ SqlError(v) \/ Number(v) \/ Serialise(v)
                                 \/ ConnRaises(v) \/ ConnectionLost(v)
      PROVE  GoesOn(w)
  <2>1. pc[v] = "apply" /\ at' = [at EXCEPT ![v] = "call"] /\ \E how : Resolve(v, how)
    BY <1>7 DEF UnknownPredecessor, SqlError, Number, Serialise, ConnRaises, ConnectionLost, Returns, Raises, Return, Raise
  <2> QED
    BY <1>6, <2>1
<1>8. ASSUME NEW v \in Worker, ThreadConn(v) \/ CheckDependency(v) \/ Commit(v) PROVE GoesOn(w)
  BY <1>1, <1>2, <1>8 DEF ThreadConn, CheckDependency, Commit, Goto, driverVars
<1> HIDE DEF GoesOn, HarnessInv
<1> QED
  BY <1>3, <1>4, <1>5, <1>7, <1>8 DEF Next, ApplyOp

\* What came before a call stays settled, and what it depends on is part of it.
LEMMA EarlierStaysSettled ==
    ASSUME HarnessInv, [Next]_vars PROVE EarlierIsSettled'
<1> USE DEF HarnessInv, EarlierIsSettled
<1>1. Ops' = Ops /\ (\A o : Deps(o)' = Deps(o)) /\ earlier \in [Ops -> SUBSET Ops]
  BY RowsGrow DEF AdapterTypeOK
<1>2. ASSUME NEW o \in Ops, NEW p \in earlier'[o] PROVE outcome'[p] = "returned"
  <2>1. p \in Ops /\ outcome[p] = "returned"
    BY <1>1, <1>2, NewEarlier
  <2> QED
    BY <2>1, EndedStays
<1>3. ASSUME NEW o \in Ops, result'[o].accepted PROVE Deps(o) \subseteq earlier'[o]
  <2>1. CASE result'[o] # result[o]
    BY <1>3, <2>1, NewResults
  <2>2. CASE result'[o] = result[o]
    <3>1. outcome[o] = "returned" /\ Deps(o) \subseteq earlier[o]
      BY <1>3, <2>2 DEF AcceptedAreNumbered
    <3> QED
      BY <3>1, EndedStays
  <2> QED
    BY <2>1, <2>2
<1>4. ASSUME NEW w \in Worker, at'[w] # "call" PROVE Deps(task'[w]) \subseteq earlier'[task'[w]]
  <2>1. GoesOn(w) /\ pc[w] = "apply" /\ task'[w] = task[w]
    BY <1>4, CallsGoOn DEF GoesOn
  <2>2. task[w] \in Ops /\ \A d \in Deps(task[w]) : d \in Ops /\ outcome[d] = "returned"
    BY <2>1, Calling
  <2>3. CASE at[w] = "call"
    BY <1>1, <2>1, <2>2, <2>3 DEF GoesOn, Begun
  <2>4. CASE at[w] # "call"
    <3>1. Deps(task[w]) \subseteq earlier[task[w]]
      BY <2>4
    <3>2. earlier'[task[w]] = earlier[task[w]] \/ Deps(task[w]) \subseteq earlier'[task[w]]
      BY <2>2, NewEarlier
    <3> QED
      BY <2>1, <3>1, <3>2
  <2> QED
    BY <2>3, <2>4
<1> QED
  BY <1>1, <1>2, <1>3, <1>4

\* What had returned before a call began keeps the smaller number and the earlier
\* row.
LEMMA EarlierStaysFirst ==
    ASSUME HarnessInv, [Next]_vars PROVE EarlierComesFirst'
<1> USE DEF HarnessInv, EarlierComesFirst
<1>1. /\ Ops' = Ops /\ earlier \in [Ops -> SUBSET Ops] /\ rows \in Seq(Ops)
      /\ Len(rows) \in Nat /\ DOMAIN rows = 1..Len(rows) /\ DOMAIN rows' \subseteq 1..(Len(rows) + 1)
      /\ \A i \in DOMAIN rows : rows'[i] = rows[i] /\ rows[i] \in Ops
  <2>1. rows \in Seq(Ops) /\ earlier \in [Ops -> SUBSET Ops]
    BY DEF AdapterTypeOK
  <2>2. \A i \in DOMAIN rows : rows[i] \in Ops
    BY <2>1
  <2> QED
    BY <2>1, <2>2, RowsGrow
<1>2. ASSUME NEW o \in Ops, NEW p \in earlier'[o]
      PROVE  p \in Ops /\ outcome[p] = "returned" /\ result'[p] = result[p]
  <2>1. CASE earlier'[o] = earlier[o]
    <3>1. earlier[o] \subseteq Ops /\ p \in earlier[o]
      BY <1>1, <1>2, <2>1
    <3> QED
      BY <3>1, EndedStays DEF EarlierIsSettled
  <2>2. CASE earlier'[o] # earlier[o]
    BY <1>2, <2>2, NewEarlier, EndedStays
  <2> QED
    BY <2>1, <2>2
<1>3. ASSUME NEW o \in Ops, NEW p \in earlier'[o], result'[o].accepted, result'[p].accepted
      PROVE  result'[p].commit_seq < result'[o].commit_seq
  <2>1. p \in Ops /\ result'[p] = result[p]
    BY <1>2, <1>3
  <2>2. result[p].commit_seq \in 0..(nextSeq - 1) /\ nextSeq \in Nat
    BY <1>3, <2>1 DEF AcceptedAreNumbered, AdapterTypeOK
  <2>3. CASE result'[o] # result[o]
    <3>1. result'[o].commit_seq = nextSeq
      BY <1>3, <2>3, NewResults
    <3> QED
      BY <2>1, <2>2, <3>1
  <2>4. CASE result'[o] = result[o]
    <3>1. outcome[o] # "none"
      BY <1>3, <2>4 DEF AcceptedAreNumbered
    <3>2. p \in earlier[o]
      BY <1>3, <3>1, EndedStays
    <3> QED
      BY <1>3, <2>1, <2>4, <3>2
  <2> QED
    BY <2>3, <2>4
<1>4. ASSUME NEW i \in DOMAIN rows', rows'[i] \in Ops, NEW p \in earlier'[rows'[i]], result'[p].accepted
      PROVE  \E j \in DOMAIN rows' : j < i /\ rows'[j] = p
  <2>1. p \in Ops /\ result'[p] = result[p] /\ result[p].accepted
    BY <1>2, <1>4
  <2>2. CASE i \in DOMAIN rows
    <3>1. rows[i] \in Committed /\ rows'[i] = rows[i]
      BY <1>1, <2>2 DEF Committed
    <3>2. p \in earlier[rows[i]]
      BY <1>4, <3>1, NewEarlier
    <3>3. PICK j \in DOMAIN rows : j < i /\ rows[j] = p
      BY <2>1, <2>2, <3>2
    <3> QED
      BY <1>1, <3>3, RowsGrow
  <2>3. CASE i \notin DOMAIN rows
    <3>1. i = Len(rows) + 1
      BY <1>1, <2>3
    <3>2. PICK j \in DOMAIN rows : rows[j] = p
      BY <2>1 DEF AcceptedAreNumbered, Committed
    <3> QED
      BY <1>1, <3>1, <3>2, RowsGrow
  <2> QED
    BY <2>2, <2>3
<1>5. \A i \in DOMAIN rows' : rows'[i] \in Ops
  <2>1. rows' \in Seq(Ops)
    BY RowsGrow
  <2> QED
    BY <2>1
<1> QED
  BY <1>1, <1>3, <1>4, <1>5

\* An operation whose call has not begun was waiting before, or was just taken.
LEMMA CallsToCome ==
    ASSUME HarnessInv, [Next]_vars, NEW w \in Worker, pc'[w] # "idle", at'[w] = "call"
    PROVE  \/ pc[w] # "idle" /\ task'[w] = task[w] /\ at[w] = "call"
           \/ task'[w] = Taken + 1 /\ rows' = rows
<1> USE DEF HarnessInv
<1>1. at \in [Worker -> {"call", "check", "insert", "number"}]
  BY DEF AdapterTypeOK
<1>2. CASE UNCHANGED vars \/ Setup \/ Teardown
  BY <1>2 DEF vars, adapterVars, driverVars, Setup, Teardown
<1>3. CASE (Submit \/ Finish \/ \E v \in Worker : Schedule(v)) /\ UNCHANGED adapterVars
  <2>1. ScheduleEffect
    BY <1>3, ScheduleChanges
  <2> QED
    BY <1>3, <2>1 DEF ScheduleEffect, adapterVars
<1>4. ASSUME NEW v \in Worker, NEW how, pc[v] = "apply", Resolve(v, how), at' = [at EXCEPT ![v] = "call"]
      PROVE  pc[w] # "idle" /\ task'[w] = task[w] /\ at[w] = "call"
  <2>1. v # w
    BY <1>4, ResolveChanges
  <2> QED
    BY <1>1, <1>4, <2>1, ResolveChanges
<1>5. ASSUME NEW v \in Worker, UnknownPredecessor(v) \/ SqlError(v) \/ Number(v) \/ Serialise(v)
                                 \/ ConnRaises(v) \/ ConnectionLost(v)
      PROVE  pc[w] # "idle" /\ task'[w] = task[w] /\ at[w] = "call"
  <2>1. pc[v] = "apply" /\ at' = [at EXCEPT ![v] = "call"] /\ \E how : Resolve(v, how)
    BY <1>5 DEF UnknownPredecessor, SqlError, Number, Serialise, ConnRaises, ConnectionLost, Returns, Raises, Return, Raise
  <2> QED
    BY <1>4, <2>1
<1>6. ASSUME NEW v \in Worker, ThreadConn(v) \/ CheckDependency(v) \/ Commit(v)
      PROVE  pc[w] # "idle" /\ task'[w] = task[w] /\ at[w] = "call"
  BY <1>1, <1>6 DEF ThreadConn, CheckDependency, Commit, Goto, driverVars
<1> QED
  BY <1>2, <1>3, <1>5, <1>6 DEF Next, ApplyOp

\* The table changes with the rows only, once the adapter is set up.
LEMMA NoRowNoTable ==
    ASSUME [Next]_vars, rows' = rows, ~Setup, HarnessInv
    PROVE  table' = table /\ system' = system /\ (phase' = phase \/ phase = "ready")
<1>1. rows \in Seq(Ops)
  BY DEF HarnessInv, AdapterTypeOK
<1>2. \A w \in Worker : rows' # Append(rows, task[w])
  <2>1. \A x : Len(Append(rows, x)) = Len(rows) + 1 /\ Len(rows) \in Nat
    BY <1>1
  <2> QED
    BY <2>1
<1> QED
  BY <1>2 DEF Next, vars, adapterVars, Teardown, ApplyOp, ThreadConn, ConnRaises, CheckDependency,
         UnknownPredecessor, Commit, SqlError, ConnectionLost, Number, Serialise

\* Operations are taken, never given back.
LEMMA TakenGrows ==
    ASSUME HarnessInv, [Next]_vars PROVE Taken \in Nat /\ Taken' \in Nat /\ Taken <= Taken'
<1>1. DriverInv /\ DriverInv'
  BY StepsOfDriver, DriverSteps DEF HarnessInv
<1>2. Taken \in Nat /\ Taken' \in Nat
  BY <1>1 DEF DriverInv, QueueInOrder
<1>3. CASE Submit \/ Finish \/ \E w \in Worker : Schedule(w)
  BY <1>1, <1>3, ScheduleChanges DEF ScheduleEffect
<1>4. ASSUME NEW w \in Worker, Return(w) \/ Raise(w) PROVE Taken' = Taken
  BY <1>4 DEF Return, Raise, Resolve, Taken
<1>5. CASE UNCHANGED driverVars
  BY <1>2, <1>5 DEF driverVars, Taken
<1> QED
  BY <1>2, <1>3, <1>4, <1>5, StepsOfDriver DEF DriverNext

\* The table stays the table of this run.
LEMMA RowsStayTheRuns ==
    ASSUME HarnessInv, [Next]_vars PROVE RowsAreTheRuns'
<1>7. /\ system = "sql" /\ phase \in {"ready", "torn down"} => table = Committed
      /\ \A i, j \in DOMAIN rows : rows[i] = rows[j] => i = j
      /\ \A i \in DOMAIN rows : rows[i] <= Taken
      /\ \A w \in Worker : pc[w] # "idle" => (task[w] \in Committed <=> at[w] = "number")
  BY DEF HarnessInv, RowsAreTheRuns
<1>1. /\ Len(rows) \in Nat /\ DOMAIN rows = 1..Len(rows) /\ DOMAIN rows' \subseteq 1..(Len(rows) + 1)
      /\ \A i \in DOMAIN rows : rows'[i] = rows[i]
      /\ Ops \subseteq Nat /\ \A i \in DOMAIN rows' : rows'[i] \in Ops
      /\ DOMAIN rows \subseteq DOMAIN rows'
  BY RowsGrow
<1>8. rows \in Seq(Ops)
  BY DEF HarnessInv, AdapterTypeOK
<1>2. Taken \in Nat /\ Taken' \in Nat /\ Taken <= Taken'
  BY TakenGrows
<1>3. \A i, j \in DOMAIN rows' : rows'[i] = rows'[j] => i = j
  <2>1. CASE rows' = rows
    BY <1>7, <2>1
  <2>2. CASE rows' # rows
    <3>1. PICK w \in Worker : /\ task[w] \notin Committed /\ rows'[Len(rows) + 1] = task[w]
                              /\ DOMAIN rows' = 1..(Len(rows) + 1)
      BY <2>2, RowsGrow
    <3>2. \A i \in DOMAIN rows : rows'[i] # task[w]
      BY <1>1, <3>1 DEF Committed
    <3> SUFFICES ASSUME NEW i \in DOMAIN rows', NEW j \in DOMAIN rows', rows'[i] = rows'[j] PROVE i = j
      OBVIOUS
    <3>3. CASE i \in DOMAIN rows /\ j \in DOMAIN rows
      BY <1>1, <1>7, <3>3
    <3>4. CASE i \notin DOMAIN rows
      <4>1. i = Len(rows) + 1
        BY <1>1, <3>4
      <4> QED
        BY <1>1, <3>1, <3>2, <4>1
    <3>5. CASE j \notin DOMAIN rows
      <4>1. j = Len(rows) + 1
        BY <1>1, <3>5
      <4> QED
        BY <1>1, <3>1, <3>2, <4>1
    <3> QED
      BY <3>3, <3>4, <3>5
  <2> QED
    BY <2>1, <2>2
<1>4. ASSUME NEW i \in DOMAIN rows' PROVE rows'[i] <= Taken'
  <2>2. rows'[i] \in Nat
    BY <1>1
  <2>3. CASE i \in DOMAIN rows
    <3>1. rows'[i] = rows[i] /\ rows[i] <= Taken
      BY <1>1, <1>7, <2>3
    <3> QED
      BY <1>2, <2>2, <3>1
  <2>4. CASE i \notin DOMAIN rows
    <3>1. i = Len(rows) + 1 /\ rows' # rows
      BY <1>1, <2>4
    <3>2. PICK w \in Worker : pc[w] = "apply" /\ rows'[i] = task[w]
      BY <3>1, RowsGrow
    <3> QED
      <4>1. task[w] <= Taken
        BY <3>2, Calling
      <4> QED
        BY <1>2, <2>2, <3>2, <4>1
  <2> QED
    BY <2>3, <2>4
<1>5. ASSUME system' = "sql", phase' \in {"ready", "torn down"} PROVE table' = Committed'
  <2>1. CASE Setup
    <3>1. rows' = <<>> /\ table' = {}
      BY <1>5, <2>1 DEF Setup, Cleared, HarnessInv, CallsInProgress
    <3> QED
      BY <3>1 DEF Committed
  <2>2. CASE rows' = rows /\ ~Setup
    <3>1. Committed' = Committed
      BY <2>2 DEF Committed
    <3>2. table' = table /\ system' = system /\ (phase' = phase \/ phase = "ready")
      BY <2>2, NoRowNoTable
    <3> QED
      BY <1>5, <1>7, <3>1, <3>2
  <2>3. CASE rows' # rows
    <3>1. PICK w \in Worker : Commit(w) \/ Serialise(w) \/ ConnectionLost(w)
      BY <2>3 DEF Next, vars, adapterVars, Setup, Teardown, ApplyOp, ThreadConn, ConnRaises, CheckDependency,
             UnknownPredecessor, SqlError, Number
    <3>2. /\ table' = table \cup {task[w]} /\ rows' = Append(rows, task[w])
          /\ system' = system /\ phase' = phase
      BY <1>5, <2>3, <3>1 DEF Commit, Serialise, ConnectionLost
    <3>3. table = Committed
      BY <1>5, <1>7, <3>2
    <3>4. PICK v \in Worker : rows'[Len(rows) + 1] = task[v] /\ Committed' = Committed \cup {task[v]}
      BY <2>3, RowsGrow
    <3>5. rows'[Len(rows) + 1] = task[w]
      BY <1>1, <1>8, <3>2
    <3> QED
      BY <3>2, <3>3, <3>4, <3>5
  <2> QED
    BY <2>1, <2>2, <2>3
<1>6. ASSUME NEW w \in Worker, pc'[w] # "idle" PROVE task'[w] \in Committed' <=> at'[w] = "number"
  <2>1. ASSUME pc[w] # "idle", task[w] \notin Committed, at'[w] # "number"
        PROVE  task[w] \notin Committed'
    <3>1. CASE rows' = rows
      BY <2>1, <3>1 DEF Committed
    <3>2. CASE rows' # rows
      <4>1. PICK v \in Worker : /\ pc[v] = "apply" /\ Committed' = Committed \cup {task[v]}
                                /\ at'[v] = "number" \/ pc'[v] = "idle"
        BY <3>2, RowsGrow
      <4>2. v # w
        BY <1>6, <2>1, <4>1
      <4> QED
        BY <2>1, <4>1, <4>2, Calling
    <3> QED
      BY <3>1, <3>2
  <2>2. CASE at'[w] # "call"
    <3>1. GoesOn(w) /\ pc[w] = "apply" /\ task'[w] = task[w]
      BY <2>2, CallsGoOn DEF GoesOn
    <3>2. CASE at[w] = "number"
      BY <1>7, <3>1, <3>2, RowsGrow DEF GoesOn
    <3>3. CASE at[w] # "number" /\ at'[w] = "number"
      <4>1. rows' = Append(rows, task[w])
        BY <3>1, <3>3 DEF GoesOn
      <4>2. rows \in Seq(Ops) /\ Len(rows) \in Nat /\ task[w] \in Ops
        BY <1>1, <1>8, <3>1, Calling
      <4>3. Len(rows) + 1 \in DOMAIN rows' /\ rows'[Len(rows) + 1] = task[w]
        BY <4>1, <4>2
      <4> QED
        BY <3>1, <3>3, <4>3 DEF Committed
    <3>4. CASE at[w] # "number" /\ at'[w] # "number"
      BY <1>7, <2>1, <3>1, <3>4
    <3> QED
      BY <3>2, <3>3, <3>4
  <2>3. CASE at'[w] = "call"
    <3>1. CASE pc[w] # "idle" /\ task'[w] = task[w] /\ at[w] = "call"
      BY <1>7, <2>1, <2>3, <3>1
    <3>2. CASE task'[w] = Taken + 1 /\ rows' = rows
      <4>1. \A i \in DOMAIN rows' : rows'[i] # task'[w]
        <5>1. \A i \in DOMAIN rows : rows[i] \in Nat /\ rows[i] <= Taken
          BY <1>1, <1>7
        <5> QED
          BY <1>2, <3>2, <5>1
      <4> QED
        BY <2>3, <4>1 DEF Committed
    <3> QED
      BY <1>6, <2>3, <3>1, <3>2, CallsToCome
  <2> QED
    BY <2>2, <2>3
<1> QED
  BY <1>3, <1>4, <1>5, <1>6 DEF RowsAreTheRuns

\* The system under test is fixed, an adapter that was set up is not set up again,
\* and errors are only counted up.
LEMMA PhasesAdvance ==
    ASSUME HarnessInv, [Next]_vars
    PROVE  /\ system' = system /\ faults \in Nat /\ faults' \in Nat /\ faults <= faults'
           /\ phase' \in {"setup", "ready", "unavailable", "failed", "torn down"}
           /\ phase \in {"ready", "torn down"} => phase' \in {"ready", "torn down"}
           /\ phase \in {"unavailable", "failed"} => phase' = phase
           /\ phase' = "setup" => phase = "setup"
<1>1. faults \in Nat /\ phase \in {"setup", "ready", "unavailable", "failed", "torn down"}
  BY DEF HarnessInv, AdapterTypeOK
<1>2. faults' = faults \/ faults' = faults + 1
  BY DEF Next, vars, adapterVars, Setup, Teardown, ApplyOp, ThreadConn, ConnRaises, CheckDependency,
         UnknownPredecessor, Commit, SqlError, ConnectionLost, Number, Serialise
<1>3. system' = system
  BY DEF Next, vars, adapterVars, Setup, Teardown, ApplyOp, ThreadConn, ConnRaises, CheckDependency,
         UnknownPredecessor, Commit, SqlError, ConnectionLost, Number, Serialise
<1>4. phase' = phase \/ Setup \/ Teardown
  BY DEF Next, vars, adapterVars, ApplyOp, ThreadConn, ConnRaises, CheckDependency,
         UnknownPredecessor, Commit, SqlError, ConnectionLost, Number, Serialise
<1>5. faults' \in Nat /\ faults <= faults'
  <2>1. faults \in Nat
    BY <1>1
  <2> QED
    BY <1>2, <2>1
<1>6. CASE phase' = phase
  BY <1>1, <1>3, <1>5, <1>6
<1>7. CASE Setup \/ Teardown
  BY <1>1, <1>3, <1>5, <1>7 DEF Setup, Teardown
<1> QED
  BY <1>4, <1>6, <1>7

\* Types are kept.
LEMMA TypesAreKept ==
    ASSUME HarnessInv, [Next]_vars PROVE AdapterTypeOK'
<1>1. /\ conn \in [Worker -> {"none", "open", "lost"}]
      /\ at \in [Worker -> {"call", "check", "insert", "number"}]
      /\ result \in [Ops -> [accepted : BOOLEAN, commit_seq : Int, rejected_reason : Reasons]]
      /\ earlier \in [Ops -> SUBSET Ops] /\ nextSeq \in Nat
  BY DEF HarnessInv, AdapterTypeOK
<1>2. Ops' = Ops /\ rows' \in Seq(Ops) /\ nextSeq' \in Nat
  BY RowsGrow, NewResults
<1>3. conn' \in [Worker -> {"none", "open", "lost"}]
  BY <1>1 DEF Next, vars, adapterVars, Setup, Teardown, ApplyOp, ThreadConn, ConnRaises, CheckDependency,
         UnknownPredecessor, Commit, SqlError, ConnectionLost, Number, Serialise
<1>4. at' \in [Worker -> {"call", "check", "insert", "number"}]
  BY <1>1 DEF Next, vars, adapterVars, Setup, Teardown, ApplyOp, ThreadConn, ConnRaises, CheckDependency,
         UnknownPredecessor, Commit, SqlError, ConnectionLost, Number, Serialise, Goto, Returns, Raises
<1>5. earlier' \in [Ops -> SUBSET Ops]
  <2>1. ASSUME NEW w \in Worker, Begun(w) PROVE earlier' \in [Ops -> SUBSET Ops]
    BY <1>1, <2>1 DEF Begun
  <2>2. earlier' = earlier \/ \E w \in Worker : Begun(w)
    BY DEF Next, vars, adapterVars, Setup, Teardown, ApplyOp, ThreadConn, ConnRaises, CheckDependency,
         UnknownPredecessor, Commit, SqlError, ConnectionLost, Number, Serialise
  <2> QED
    BY <1>1, <2>1, <2>2
<1>6. result' \in [Ops -> [accepted : BOOLEAN, commit_seq : Int, rejected_reason : Reasons]]
  <2> DEFINE R == [accepted : BOOLEAN, commit_seq : Int, rejected_reason : Reasons]
  <2>5. ASSUME NEW m \in Int, NEW r \in Reasons
        PROVE  OpResult(TRUE, m, r) \in R /\ OpResult(FALSE, m, r) \in R
    BY DEF OpResult
  <2>6. -1 \in Int /\ {"", "unknown_predecessor", "sql_error"} \subseteq Reasons
    BY DEF Reasons
  <2> HIDE DEF R
  <2>1. /\ OpResult(FALSE, -1, "unknown_predecessor") \in R /\ OpResult(FALSE, -1, "sql_error") \in R
        /\ OpResult(TRUE, nextSeq, "") \in R
    <3>1. OpResult(FALSE, -1, "unknown_predecessor") \in R
      BY <2>5, <2>6
    <3>2. OpResult(FALSE, -1, "sql_error") \in R
      BY <2>5, <2>6
    <3>3. OpResult(TRUE, nextSeq, "") \in R
      <4>1. nextSeq \in Int
        BY <1>1
      <4> QED
        BY <2>5, <2>6, <4>1
    <3> QED
      BY <3>1, <3>2, <3>3
  <2>2. \A w \in Worker, r \in R : result' = [result EXCEPT ![task[w]] = r] => result' \in [Ops -> R]
    BY <1>1 DEF R
  <2>3. ASSUME NEW w \in Worker, UnknownPredecessor(w) \/ SqlError(w) \/ Number(w) \/ Serialise(w)
        PROVE  result' \in [Ops -> R]
    BY <2>1, <2>2, <2>3 DEF UnknownPredecessor, SqlError, Number, Serialise, Returns, Ticket
  <2>4. result' = result \/ \E w \in Worker : UnknownPredecessor(w) \/ SqlError(w) \/ Number(w) \/ Serialise(w)
    BY DEF Next, vars, adapterVars, Setup, Teardown, ApplyOp, ThreadConn, ConnRaises, CheckDependency,
           Commit, ConnectionLost
  <2> QED
    BY <1>1, <2>3, <2>4 DEF R
<1> QED
  BY <1>2, <1>3, <1>4, <1>5, <1>6, PhasesAdvance DEF AdapterTypeOK

\* Before the adapter is set up nothing starts.
LEMMA CallsStayInProgress ==
    ASSUME HarnessInv, [Next]_vars PROVE CallsInProgress'
<1>1. ASSUME phase' \in {"setup", "unavailable", "failed"}
      PROVE  rows' = <<>> /\ \A w \in Worker : pc'[w] = "idle"
  <2>1. phase \in {"setup", "unavailable", "failed"}
    BY <1>1, PhasesAdvance DEF HarnessInv, AdapterTypeOK
  <2>2. rows = <<>> /\ \A w \in Worker : pc[w] = "idle"
    BY <2>1 DEF HarnessInv, CallsInProgress
  <2>3. rows' = rows /\ pc' = pc
    BY <2>1, <2>2 DEF Next, vars, adapterVars, driverVars, Setup, Teardown, ApplyOp, ThreadConn, ConnRaises,
           CheckDependency, UnknownPredecessor, Commit, SqlError, ConnectionLost, Number, Serialise,
           Goto, Returns, Return, InTransaction
  <2> QED
    BY <2>2, <2>3
<1>2. \A w \in Worker : at'[w] # "call" => pc'[w] = "apply" /\ system' = "sql"
  BY CallsGoOn, PhasesAdvance DEF GoesOn
<1> QED
  BY <1>1, <1>2 DEF CallsInProgress

\* The row that an insert was checked against is not taken away.
LEMMA InsertsStayCovered ==
    ASSUME HarnessInv, [Next]_vars PROVE InsertsAreCovered'
<1> SUFFICES ASSUME NEW w \in Worker, at'[w] = "insert" PROVE DependencyPresent(task[w])'
  BY CallsGoOn DEF InsertsAreCovered, GoesOn
<1>1. GoesOn(w)
  BY CallsGoOn
<1>2. pc[w] = "apply" /\ task'[w] = task[w] /\ system = "sql"
  BY <1>1 DEF GoesOn
<1>3. DependencyPresent(task[w])
  BY <1>1 DEF GoesOn, HarnessInv, InsertsAreCovered
<1>4. phase \in {"ready", "torn down"} /\ phase' \in {"ready", "torn down"} /\ system' = "sql"
  BY <1>2, Calling, PhasesAdvance
<1>5. table = Committed /\ table' = Committed'
  BY <1>2, <1>4, RowsStayTheRuns DEF HarnessInv, RowsAreTheRuns
<1> QED
  BY <1>2, <1>3, <1>5, RowsGrow DEF DependencyPresent

\* Without an error of the database nothing is refused and no connection is lost.
LEMMA FaultFreeStays ==
    ASSUME HarnessInv, [Next]_vars PROVE FaultFree'
<1> SUFFICES ASSUME faults' = 0
             PROVE  /\ \A w \in Worker : conn'[w] # "lost"
                    /\ \A o \in Ops : outcome'[o] # "none" => result'[o].accepted
  BY RowsGrow DEF FaultFree
<1>1. faults = 0 /\ faults' # faults + 1
  <2>1. faults \in Nat /\ faults <= faults'
    BY PhasesAdvance
  <2> QED
    BY <2>1
<1>2. (\A w \in Worker : conn[w] # "lost") /\ conn \in [Worker -> {"none", "open", "lost"}]
  BY <1>1 DEF HarnessInv, FaultFree, AdapterTypeOK
<1>3. \A w \in Worker : conn'[w] # "lost"
  BY <1>1, <1>2 DEF Next, vars, adapterVars, Setup, Teardown, ApplyOp, ThreadConn, ConnRaises, CheckDependency,
         UnknownPredecessor, Commit, SqlError, ConnectionLost, Number, Serialise
<1>4. \A o \in Ops : outcome[o] # "none" => /\ result[o].accepted /\ o \in Committed
                                            /\ outcome[o] = "returned"
  BY <1>1 DEF HarnessInv, FaultFree, AcceptedAreNumbered
<1>5. ASSUME NEW w \in Worker, pc[w] = "apply", system = "sql", at[w] \in {"check", "insert"}
      PROVE  DependencyPresent(task[w]) /\ task[w] \notin table
  <2>1. table = Committed
    BY <1>5, Calling DEF HarnessInv, RowsAreTheRuns
  <2>2. task[w] \notin Committed
    BY <1>5 DEF HarnessInv, RowsAreTheRuns
  <2>3. task[w] \in Ops /\ IsTrace(trace)
    BY <1>5, Calling DEF HarnessInv, DriverInv, DriverTypeOK
  <2>4. ASSUME DependsOn(task[w]) # <<>> PROVE Head(DependsOn(task[w])) \in Deps(task[w])
    <3>1. DependsOn(task[w]) \in Seq(1..(task[w] - 1))
      BY <2>3, DepsAreEarlier
    <3>2. 1 \in DOMAIN DependsOn(task[w]) /\ Head(DependsOn(task[w])) = DependsOn(task[w])[1]
      BY <2>4, <3>1
    <3> QED
      BY <3>2 DEF Deps
  <2>5. \A d \in Deps(task[w]) : d \in Ops /\ outcome[d] = "returned"
    BY <1>5, Calling
  <2> QED
    BY <1>4, <2>1, <2>2, <2>4, <2>5 DEF DependencyPresent
<1>6. ASSUME NEW o \in Ops, outcome'[o] # "none" PROVE result'[o].accepted
  <2>1. CASE outcome[o] # "none"
    BY <1>4, <2>1, EndedStays
  <2>2. CASE outcome'[o] = outcome[o]
    BY <1>6, <2>1, <2>2
  <2>3. CASE Submit \/ Finish \/ \E w \in Worker : Schedule(w)
    <3>1. outcome'[o] = outcome[o] \/ \E d \in Ops : outcome[d] = "raised"
      BY <2>3, ScheduleChanges DEF ScheduleEffect, HarnessInv
    <3> QED
      BY <1>4, <2>2, <3>1
  <2>4. ASSUME NEW w \in Worker, Number(w) \/ Serialise(w), outcome'[o] # outcome[o]
        PROVE  result'[o].accepted
    <3>1. Return(w) /\ result' = [result EXCEPT ![task[w]] = OpResult(TRUE, nextSeq, "")]
      BY <2>4 DEF Number, Serialise, Returns, Ticket
    <3>2. o = task[w]
      <4>1. DriverInv /\ pc[w] # "idle" /\ Resolve(w, "returned")
        BY <3>1 DEF HarnessInv, Return
      <4>2. \A p \in Ops : p # task[w] => outcome'[p] = outcome[p]
        BY <4>1, ResolveChanges
      <4> QED
        BY <2>4, <4>2
    <3>3. result'[o] = OpResult(TRUE, nextSeq, "")
      BY <3>1, <3>2 DEF HarnessInv, AdapterTypeOK
    <3>4. OpResult(TRUE, nextSeq, "").accepted
      BY DEF OpResult
    <3> QED
      BY <3>3, <3>4
  <2>5. ASSUME NEW w \in Worker, UnknownPredecessor(w) \/ SqlError(w) PROVE FALSE
    <3>1. pc[w] = "apply" /\ at[w] \in {"check", "insert"}
      BY <2>5 DEF UnknownPredecessor, SqlError, InTransaction, Returns, Return
    <3>2. system = "sql"
      BY <3>1 DEF HarnessInv, CallsInProgress
    <3> QED
      BY <1>1, <1>5, <2>5, <3>1, <3>2 DEF UnknownPredecessor, SqlError
  <2>6. ASSUME NEW w \in Worker, ConnRaises(w) \/ ConnectionLost(w) PROVE FALSE
    BY <1>1, <1>2, <2>6 DEF ConnRaises, ConnectionLost
  <2>7. CASE UNCHANGED driverVars
    BY <2>2, <2>7 DEF driverVars
  <2> QED
    BY <2>2, <2>3, <2>4, <2>5, <2>6, <2>7
    DEF Next, vars, Setup, Teardown, ApplyOp, ThreadConn, CheckDependency, Commit, Goto
<1> QED
  BY <1>3, <1>6

---------------------------------------------------------------------------
\* The invariant holds of every reachable state.
THEOREM HarnessInvariance == Spec => []HarnessInv
<1>1. Init => HarnessInv
  <2> SUFFICES ASSUME Init PROVE HarnessInv
    OBVIOUS
  <2>1. DriverInv
    BY DriverStarts, TracesAssumption DEF Init
  <2>2. /\ rows = <<>> /\ phase = "setup" /\ nextSeq = 0 /\ faults = 0
        /\ conn = [w \in Worker |-> "none"] /\ at = [w \in Worker |-> "call"]
        /\ result = [o \in Ops |-> NoResult] /\ earlier = [o \in Ops |-> {}]
        /\ pc = [w \in Worker |-> "idle"] /\ outcome = [o \in Ops |-> "none"]
    BY DEF Init, DriverInit
  <2>3. NoResult \in [accepted : BOOLEAN, commit_seq : Int, rejected_reason : Reasons] /\ ~NoResult.accepted
    BY DEF NoResult, Reasons
  <2>4. AdapterTypeOK
    BY <2>2, <2>3 DEF AdapterTypeOK
  <2>5. RowsAreTheRuns /\ RowsAreClosed /\ CallsInProgress /\ InsertsAreCovered
    BY <2>2 DEF RowsAreTheRuns, RowsAreClosed, CallsInProgress, InsertsAreCovered, Committed
  <2>6. AcceptedAreNumbered /\ EarlierIsSettled /\ EarlierComesFirst /\ FaultFree
    BY <2>2, <2>3 DEF AcceptedAreNumbered, EarlierIsSettled, EarlierComesFirst, FaultFree
  <2> QED
    BY <2>1, <2>4, <2>5, <2>6 DEF HarnessInv
<1>2. HarnessInv /\ [Next]_vars => HarnessInv'
  <2> SUFFICES ASSUME HarnessInv, [Next]_vars PROVE HarnessInv'
    OBVIOUS
  <2>1. DriverInv'
    BY StepsOfDriver, DriverSteps DEF HarnessInv
  <2> QED
    BY <2>1, TypesAreKept, CallsStayInProgress, RowsStayTheRuns, InsertsStayCovered, RowsStayClosed,
       AcceptedStayNumbered, EarlierStaysSettled, EarlierStaysFirst, FaultFreeStays DEF HarnessInv
<1> QED
  BY <1>1, <1>2, PTL DEF Spec

\* An operation reaches the adapter, and returns, after everything it waits for.
THEOREM DependenciesReturnedHolds == Spec => []DependenciesReturned
<1>1. HarnessInv => DependenciesReturned
  BY DriverPromise DEF HarnessInv
<1> QED
  BY <1>1, HarnessInvariance, PTL

\* A row is committed over the row of the operation it depends on.
THEOREM RowsAreClosedHolds == Spec => []RowsAreClosed
<1>1. HarnessInv => RowsAreClosed
  BY DEF HarnessInv
<1> QED
  BY <1>1, HarnessInvariance, PTL

\* Whatever an earlier run left, a replay without an error accepts everything.
THEOREM FaultFreeAcceptsAllHolds == Spec => []FaultFreeAcceptsAll
<1>1. HarnessInv => FaultFreeAcceptsAll
  BY DEF HarnessInv, FaultFree, FaultFreeAcceptsAll
<1> QED
  BY <1>1, HarnessInvariance, PTL

\* Of two operations that did not run side by side the first has the smaller number
\* and the earlier row; numbers are unique; and the point is not void.
THEOREM CommitSeqIsRealTimeHolds == Spec => []CommitSeqIsRealTime
<1>1. ASSUME HarnessInv PROVE CommitSeqIsRealTime
  <2>6. AcceptedAreNumbered /\ EarlierIsSettled /\ EarlierComesFirst /\ RowsAreTheRuns
    BY <1>1 DEF HarnessInv
  <2>1. ASSUME NEW o \in Ops, NEW p \in earlier[o], result[o].accepted, result[p].accepted
        PROVE  result[p].commit_seq < result[o].commit_seq
    BY <2>1, <2>6 DEF EarlierComesFirst
  <2>2. verify = {}
    <3> SUFFICES ASSUME NEW o \in Ops, NEW p \in Deps(o), result[o].accepted, result[p].accepted
                 PROVE  result[p].commit_seq < result[o].commit_seq
      BY DEF verify, Deps
    <3>1. p \in earlier[o]
      BY <2>6 DEF EarlierIsSettled
    <3> QED
      BY <2>1, <3>1
  <2>3. ASSUME NEW o \in Committed PROVE Position(o) \in DOMAIN rows /\ rows[Position(o)] = o
    BY <2>3 DEF Committed, Position
  <2>4. ASSUME NEW o \in Ops, NEW p \in earlier[o], result[o].accepted, result[p].accepted, p \in Ops
        PROVE  Position(p) < Position(o)
    <3>1. o \in Committed /\ p \in Committed
      BY <2>4, <2>6 DEF AcceptedAreNumbered
    <3>2. PICK j \in DOMAIN rows : j < Position(o) /\ rows[j] = p
      BY <2>3, <2>4, <2>6, <3>1 DEF EarlierComesFirst
    <3>3. j = Position(p)
      BY <2>3, <2>6, <3>1, <3>2 DEF RowsAreTheRuns
    <3> QED
      BY <3>2, <3>3
  <2>5. \A o \in Ops, p \in Ops : o # p /\ result[o].accepted /\ result[p].accepted =>
          result[o].commit_seq # result[p].commit_seq
    BY <2>6 DEF AcceptedAreNumbered
  <2> QED
    BY <2>1, <2>2, <2>4, <2>5 DEF CommitSeqIsRealTime, build_point_status
<1> QED
  BY <1>1, HarnessInvariance, PTL

=============================================================================
