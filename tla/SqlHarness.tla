----------------------------- MODULE SqlHarness -----------------------------
(***************************************************************************)
(* One point of the benchmark sweep (run_harness_local.py) on the systems     *)
(* causal-store is compared with: an adapter is set up, Driver replays a      *)
(* trace through it, and it is torn down when the replay returned.  "sql" is  *)
(* the adapter that CockroachDB and YugabyteDB share (sql_common.py), with    *)
(* the database it talks to; "baseline" takes every operation through one     *)
(* lock (baseline_adapter.py); "tiga" is never available (tiga_adapter.py).   *)
(*                                                                           *)
(* The database is external: a table that survives a run, transactions that   *)
(* commit or fail, and connections that can be lost, also between a commit    *)
(* and its acknowledgement.  On a lost connection psycopg2's rollback raises. *)
(***************************************************************************)
EXTENDS Driver

CONSTANTS Systems,      \* the systems a point may be about
          Leftovers,    \* the tables an earlier run may have left
          Traces,
          MaxFaults     \* bound: errors of the database during a run

ASSUME TracesAssumption == \A t \in Traces : IsTrace(t)

VARIABLES system,
          phase,        \* "setup", "ready", then "unavailable", "failed" or "torn down"
          table,        \* external: the op_ids with a committed row
          rows,         \* history: the operations of this run in commit order
          conn,         \* of each worker: "none", "open", "lost"; teardown closes
          at,           \* where each worker is in apply_op
          nextSeq,      \* the itertools.count behind commit_seq
          result,       \* the OpResult of each operation
          earlier,      \* history: what had returned when an operation's call began
          faults        \* errors of the database so far

adapterVars == <<system, phase, table, rows, conn, at, nextSeq, result, earlier, faults>>
vars == <<driverVars, adapterVars>>

NoResult == [accepted |-> FALSE, commit_seq |-> -1, rejected_reason |-> "pending"]
OpResult(accepted, seq, reason) ==
    [accepted |-> accepted, commit_seq |-> seq, rejected_reason |-> reason]

Init ==
    /\ DriverInit(Traces)
    /\ system \in Systems /\ phase = "setup"
    /\ table \in (IF system = "sql" THEN Leftovers ELSE {{}}) /\ rows = <<>>
    /\ conn = [w \in Worker |-> "none"] /\ at = [w \in Worker |-> "call"]
    /\ nextSeq = 0 /\ result = [o \in Ops |-> NoResult]
    /\ earlier = [o \in Ops |-> {}] /\ faults = 0

---------------------------------------------------------------------------
\* A mutated form of Cleared: setup creates the table but does not clear it (an
\* erratum of the code).
ClearedNever == table
Cleared == {}

\* No DSN, no driver or no connection: AdapterUnavailable.  An error of the
\* statements that create and clear the table goes through.
Setup ==
    /\ phase = "setup"
    /\ \/ /\ system # "baseline" /\ phase' = "unavailable"
          /\ UNCHANGED table
       \/ /\ system = "sql" /\ phase' = "failed"
          /\ UNCHANGED table
       \/ /\ system # "tiga" /\ phase' = "ready"
          /\ table' = Cleared
    /\ UNCHANGED <<driverVars, system, rows, conn, at, nextSeq, result, earlier, faults>>

\* run() raised: nobody tears the adapter down.
Teardown ==
    /\ phase = "ready" /\ main = "returned"
    /\ phase' = "torn down"
    /\ conn' = [w \in Worker |-> "none"]
    /\ UNCHANGED <<driverVars, system, table, rows, at, nextSeq, result, earlier, faults>>

---------------------------------------------------------------------------
(* apply_op of the SQL adapter *)

Goto(w, here, there) ==
    /\ pc[w] = "apply" /\ at[w] = here
    /\ at' = [at EXCEPT ![w] = there]
    /\ UNCHANGED driverVars

Returns(w, res) ==
    /\ Return(w)
    /\ at' = [at EXCEPT ![w] = "call"]
    /\ result' = [result EXCEPT ![task[w]] = res]

Raises(w) == Raise(w) /\ at' = [at EXCEPT ![w] = "call"]

Begun(w) == earlier' = [earlier EXCEPT ![task[w]] = {o \in Ops : outcome[o] = "returned"}]

\* The worker's own connection, opened at its first call.
ThreadConn(w) ==
    /\ system = "sql" /\ conn[w] # "lost"
    /\ Goto(w, "call", "check")
    /\ conn' = [conn EXCEPT ![w] = "open"]
    /\ Begun(w)
    /\ UNCHANGED <<system, phase, table, rows, nextSeq, result, faults>>

\* connect() fails outside the try; a lost connection stays the worker's own, and
\* everything on it raises, the rollback too.
ConnRaises(w) ==
    /\ system = "sql" /\ pc[w] = "apply" /\ at[w] = "call"
    /\ \/ conn[w] = "none" /\ faults < MaxFaults /\ faults' = faults + 1
       \/ conn[w] = "lost" /\ UNCHANGED faults
    /\ Raises(w) /\ Begun(w)
    /\ UNCHANGED <<system, phase, table, rows, conn, nextSeq, result>>

\* A mutated form of DependencyPresent: the row is not looked for.
DependencyAssumed(o) == TRUE
\* Only the first dependency is looked for; the generator emits at most one.
DependencyPresent(o) == DependsOn(o) # <<>> => Head(DependsOn(o)) \in table

CheckDependency(w) ==
    /\ Goto(w, "check", "insert") /\ DependencyPresent(task[w])
    /\ UNCHANGED <<system, phase, table, rows, conn, nextSeq, result, earlier, faults>>

UnknownPredecessor(w) ==
    /\ at[w] = "check" /\ ~DependencyPresent(task[w])
    /\ Returns(w, OpResult(FALSE, -1, "unknown_predecessor"))
    /\ UNCHANGED <<system, phase, table, rows, conn, nextSeq, earlier, faults>>

InTransaction(w) == pc[w] = "apply" /\ at[w] \in {"check", "insert"}

\* The insert and the commit; a row with the same op_id is an error.
Commit(w) ==
    /\ at[w] = "insert" /\ task[w] \notin table
    /\ Goto(w, "insert", "number")
    /\ table' = table \cup {task[w]} /\ rows' = Append(rows, task[w])
    /\ UNCHANGED <<system, phase, conn, nextSeq, result, earlier, faults>>

\* The exception handler rolls back and reports a rejection.
SqlError(w) ==
    /\ InTransaction(w)
    /\ \/ at[w] = "insert" /\ task[w] \in table /\ UNCHANGED faults
       \/ faults < MaxFaults /\ faults' = faults + 1
    /\ Returns(w, OpResult(FALSE, -1, "sql_error"))
    /\ UNCHANGED <<system, phase, table, rows, conn, nextSeq, earlier>>

\* The handler's rollback raises on a lost connection; the commit may have been
\* applied before it was lost.
ConnectionLost(w) ==
    /\ InTransaction(w) /\ faults < MaxFaults
    /\ faults' = faults + 1
    /\ conn' = [conn EXCEPT ![w] = "lost"]
    /\ \/ UNCHANGED <<table, rows>>
       \/ /\ at[w] = "insert" /\ task[w] \notin table
          /\ table' = table \cup {task[w]} /\ rows' = Append(rows, task[w])
    /\ Raises(w)
    /\ UNCHANGED <<system, phase, nextSeq, result, earlier>>

\* A mutated form of Ticket: the position in the trace.
TicketOfTrace(o) == o
Ticket(o) == nextSeq

\* The lock is held for the number only.
Number(w) ==
    /\ at[w] = "number"
    /\ nextSeq' = nextSeq + 1
    /\ Returns(w, OpResult(TRUE, Ticket(task[w]), ""))
    /\ UNCHANGED <<system, phase, table, rows, conn, earlier, faults>>

---------------------------------------------------------------------------
\* apply_op of the baseline: the lock is held for all of it.
Serialise(w) ==
    /\ system = "baseline" /\ pc[w] = "apply"
    /\ nextSeq' = nextSeq + 1 /\ rows' = Append(rows, task[w])
    /\ Returns(w, OpResult(TRUE, Ticket(task[w]), ""))
    /\ Begun(w)
    /\ UNCHANGED <<system, phase, table, conn, faults>>

ApplyOp(w) ==
    \/ ThreadConn(w) \/ CheckDependency(w) \/ UnknownPredecessor(w) \/ Commit(w)
    \/ SqlError(w) \/ Number(w) \/ Serialise(w)

Next ==
    \/ Setup \/ Teardown
    \/ /\ phase = "ready"
       /\ (Submit \/ Finish \/ \E w \in Worker : Schedule(w)) /\ UNCHANGED adapterVars
    \/ \E w \in Worker : ApplyOp(w) \/ ConnRaises(w) \/ ConnectionLost(w)

\* The main thread goes on; a worker that can go on does, and a statement ends.
Fairness ==
    /\ WF_vars(Setup) /\ WF_vars(Teardown)
    /\ WF_vars(phase = "ready" /\ (Submit \/ Finish) /\ UNCHANGED adapterVars)
    /\ \A w \in Worker :
         /\ WF_vars(phase = "ready" /\ Schedule(w) /\ UNCHANGED adapterVars)
         /\ WF_vars(ApplyOp(w) \/ ConnRaises(w) \/ ConnectionLost(w))

Spec == Init /\ [][Next]_vars /\ Fairness

---------------------------------------------------------------------------
(* verify_order.py *)

\* The dependencies that a replay's results do not honour.
verify ==
    {p \in Ops \X Ops :
       /\ p[2] \in {DependsOn(p[1])[i] : i \in DOMAIN DependsOn(p[1])}
       /\ result[p[1]].accepted /\ result[p[2]].accepted
       /\ ~(result[p[2]].commit_seq < result[p[1]].commit_seq)}

\* report.build_point: a point whose replay violates an order is void.
build_point_status == IF verify = {} THEN "OK" ELSE "VOID_CORRECTNESS_VIOLATION"

---------------------------------------------------------------------------
(* Properties *)

Position(o) == CHOOSE i \in DOMAIN rows : rows[i] = o

\* The numbers are drawn after the commits and outside their transactions, so
\* they may swap operations that ran side by side.  Of operations that did not,
\* the one that returned before the other was called has the smaller number and
\* committed first; no number is given twice; and the point is not void.
CommitSeqIsRealTime ==
    /\ build_point_status = "OK"
    /\ \A o \in Ops, p \in Ops :
         o # p /\ result[o].accepted /\ result[p].accepted =>
           /\ result[o].commit_seq # result[p].commit_seq
           /\ p \in earlier[o] => /\ result[p].commit_seq < result[o].commit_seq
                                  /\ Position(p) < Position(o)

\* A row is committed only over the row of the operation it depends on, although
\* the driver hands an operation on also when its dependency was rejected, and
\* although a lost commit's row may or may not be there.
RowsAreClosed ==
    system = "sql" =>
      \A i \in DOMAIN rows :
        DependsOn(rows[i]) # <<>> => \E j \in 1..(i - 1) : rows[j] = Head(DependsOn(rows[i]))

\* Whatever an earlier run left in the database, a replay during which the
\* database makes no error accepts every operation.
FaultFreeAcceptsAll ==
    faults = 0 => \A o \in Ops : outcome[o] # "none" => result[o].accepted

\* A point of the sweep ends: its adapter is reported as unavailable, its replay
\* raised, or it is torn down, whichever connections were lost.
PointEnds == <>(phase \in {"unavailable", "failed", "torn down"} \/ main = "raised")
=============================================================================
