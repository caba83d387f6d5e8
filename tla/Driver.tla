------------------------------- MODULE Driver -------------------------------
(***************************************************************************)
(* The load driver of causal-store's benchmark harness (driver.py): the main *)
(* thread submits the operations of a trace, in trace order, to a pool of     *)
(* worker threads; a worker takes the oldest one, waits for the results of    *)
(* the operations it depends on, and calls the adapter.  Closed-loop and      *)
(* open-loop mode differ in when the main thread submits, which is any time.  *)
(*                                                                           *)
(* apply_op is here a step that returns or raises; HarnessedStore puts the    *)
(* causal-store adapter in its place, SqlHarness the others.                  *)
(***************************************************************************)
EXTENDS Integers, Sequences, FiniteSets

CONSTANTS Worker,       \* the threads of the pool
          NoOp          \* a worker without a task

ASSUME WorkerAssumption == IsFiniteSet(Worker)

VARIABLES trace,        \* the operations replayed
          submitted,    \* how many of them the main thread has submitted
          queue,        \* the pool's work queue
          task,         \* the operation each worker has taken
          pc,           \* where each worker is: "idle", "waiting", "apply"
          outcome,      \* of each operation's future: "none", "returned", "raised"
          main          \* "running", then how run() ended: "returned" or "raised"

driverVars == <<trace, submitted, queue, task, pc, outcome, main>>

Ops == 1..Len(trace)
DependsOn(o) == trace[o].depends_on

\* The operations of a trace depend on earlier ones.
IsTrace(t) ==
    /\ Len(t) \in Nat /\ DOMAIN t = 1..Len(t)
    /\ \A o \in DOMAIN t : t[o].depends_on \in Seq(1..(o - 1))

DriverInit(traces) ==
    /\ trace \in traces
    /\ submitted = 0
    /\ queue = <<>>
    /\ task = [w \in Worker |-> NoOp]
    /\ pc = [w \in Worker |-> "idle"]
    /\ outcome = [o \in Ops |-> "none"]
    /\ main = "running"

---------------------------------------------------------------------------
\* A mutated form of AllSubmitted: the last operation is not submitted.
AllSubmittedEarly == submitted = Len(trace) - 1
AllSubmitted == submitted = Len(trace)

Submit ==
    /\ ~AllSubmitted
    /\ submitted' = submitted + 1
    /\ queue' = Append(queue, submitted + 1)
    /\ UNCHANGED <<trace, task, pc, outcome, main>>

NextTask == [op |-> Head(queue), rest |-> Tail(queue)]

Take(w) ==
    /\ pc[w] = "idle" /\ queue # <<>>
    /\ task' = [task EXCEPT ![w] = NextTask.op]
    /\ queue' = NextTask.rest
    /\ pc' = [pc EXCEPT ![w] = "waiting"]
    /\ UNCHANGED <<trace, submitted, outcome, main>>

\* A mutated form of Pending: the wait for the dependencies is skipped.
PendingIgnored(o) == {}
\* The positions of the dependencies whose result() has not returned.
Pending(o) == {j \in DOMAIN DependsOn(o) : outcome[DependsOn(o)[j]] # "returned"}

StartApply(w) ==
    /\ pc[w] = "waiting" /\ Pending(task[w]) = {}
    /\ pc' = [pc EXCEPT ![w] = "apply"]
    /\ UNCHANGED <<trace, submitted, queue, task, outcome, main>>

\* The future of w's task is resolved and w is free again.
Resolve(w, how) ==
    /\ outcome' = [outcome EXCEPT ![task[w]] = how]
    /\ task' = [task EXCEPT ![w] = NoOp]
    /\ pc' = [pc EXCEPT ![w] = "idle"]
    /\ UNCHANGED <<trace, submitted, queue, main>>

\* The worker blocks in the first result() that has not returned; when that one
\* raises, the task raises.
DependencyRaised(w) ==
    /\ pc[w] = "waiting"
    /\ \E first \in Pending(task[w]) :
         /\ \A j \in Pending(task[w]) : first <= j
         /\ outcome[DependsOn(task[w])[first]] = "raised"
    /\ Resolve(w, "raised")

Return(w) == pc[w] = "apply" /\ Resolve(w, "returned")
Raise(w)  == pc[w] = "apply" /\ Resolve(w, "raised")

\* The pool's shutdown waits for every task, whether or not the main thread met
\* an exception while it collected the futures.
Finish ==
    /\ main = "running"
    /\ \A o \in Ops : outcome[o] # "none"
    /\ main' = IF \E o \in Ops : outcome[o] = "raised" THEN "raised" ELSE "returned"
    /\ UNCHANGED <<trace, submitted, queue, task, pc, outcome>>

\* What a worker does outside the adapter.
Schedule(w) == Take(w) \/ StartApply(w) \/ DependencyRaised(w)

---------------------------------------------------------------------------
(* Properties *)

\* The operations o waits for, directly or through others.
Ancestry(o) ==
    LET up[i \in Ops] ==
          LET deps == {DependsOn(i)[j] : j \in DOMAIN DependsOn(i)}
          IN  deps \cup UNION {up[d] : d \in deps}
    IN  up[o]

\* An operation is handed to the adapter, and returns, only after everything it
\* depends on, through however many operations, has returned: a failure cuts off
\* the whole chain behind it (task, dep_future.result()).
DependenciesReturned ==
    \A o \in Ops :
      outcome[o] = "returned" \/ (\E w \in Worker : pc[w] = "apply" /\ task[w] = o) =>
        \A d \in Ancestry(o) : outcome[d] = "returned"
=============================================================================
