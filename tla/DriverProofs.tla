---------------------------- MODULE DriverProofs ----------------------------
(***************************************************************************)
(* The load driver, whatever the adapter does between the steps: every        *)
(* operation is run by one worker, and an operation that is with the adapter, *)
(* or has returned, has all of its dependencies behind it.                    *)
(***************************************************************************)
EXTENDS Driver, WellFoundedInduction, TLAPS

\* The operations o names as its dependencies.
Deps(o) == {DependsOn(o)[j] : j \in DOMAIN DependsOn(o)}

\* How many operations the workers have taken from the queue.
Taken == submitted - Len(queue)

DriverTypeOK ==
    /\ IsTrace(trace)
    /\ submitted \in 0..Len(trace)
    /\ queue \in Seq(Ops)
    /\ task \in [Worker -> Ops \cup {NoOp}]
    /\ pc \in [Worker -> {"idle", "waiting", "apply"}]
    /\ outcome \in [Ops -> {"none", "returned", "raised"}]
    /\ main \in {"running", "returned", "raised"}

\* The queue holds the last operations submitted, oldest first.
QueueInOrder == Taken \in Nat /\ \A i \in 1..Len(queue) : queue[i] = Taken + i

\* A busy worker has an operation of its own that has not ended yet.
TasksAreOwned ==
    \A w \in Worker : pc[w] # "idle" =>
      /\ task[w] \in 1..Taken
      /\ outcome[task[w]] = "none"
      /\ \A v \in Worker : v # w /\ pc[v] # "idle" => task[v] # task[w]

\* Only operations that were taken have ended.
EndedWereTaken == \A o \in Ops : outcome[o] # "none" => o <= Taken

\* What is with the adapter, or has returned, waited for its dependencies.
DirectDependencies ==
    /\ \A w \in Worker : pc[w] = "apply" =>
         \A d \in Deps(task[w]) : outcome[d] = "returned"
    /\ \A o \in Ops : outcome[o] = "returned" =>
         \A d \in Deps(o) : outcome[d] = "returned"

DriverInv ==
    DriverTypeOK /\ QueueInOrder /\ TasksAreOwned /\ EndedWereTaken /\ DirectDependencies

\* Everything the driver does, on its own or with the adapter.
DriverNext ==
    \/ Submit \/ Finish
    \/ \E w \in Worker : Schedule(w) \/ Return(w) \/ Raise(w)

---------------------------------------------------------------------------
\* Dependencies are earlier operations.
LEMMA DepsAreEarlier ==
    ASSUME IsTrace(trace), NEW o \in Ops
    PROVE  /\ DependsOn(o) \in Seq(1..(o - 1))
           /\ Deps(o) \subseteq Ops
           /\ \A d \in Deps(o) : d < o
<1>1. DependsOn(o) \in Seq(1..(o - 1))
  BY DEF IsTrace, Ops, DependsOn
<1>2. \A S, s : s \in Seq(S) => \A j \in DOMAIN s : s[j] \in S
  OBVIOUS
<1>3. \A j \in DOMAIN DependsOn(o) : DependsOn(o)[j] \in 1..(o - 1)
  BY <1>1, <1>2
<1>4. Len(trace) \in Nat /\ o \in 1..Len(trace)
  BY DEF IsTrace, Ops
<1> QED
  BY <1>1, <1>3, <1>4 DEF Deps, Ops

\* No dependency is pending when the worker is past its last result().
LEMMA NothingPending ==
    ASSUME NEW o, Pending(o) = {}
    PROVE  \A d \in Deps(o) : outcome[d] = "returned"
BY DEF Pending, Deps

\* The driver starts with nothing submitted.
LEMMA DriverStarts ==
    ASSUME NEW traces, \A t \in traces : IsTrace(t), DriverInit(traces)
    PROVE  DriverInv
<1>1. IsTrace(trace) /\ Len(trace) \in Nat
  BY DEF DriverInit, IsTrace
<1>2. DriverTypeOK
  BY <1>1 DEF DriverInit, DriverTypeOK
<1> QED
  BY <1>1, <1>2
  DEF DriverInit, DriverInv, QueueInOrder, Taken, TasksAreOwned, EndedWereTaken, DirectDependencies, Ops

\* The main thread's submission lengthens the queue by the next operation.
LEMMA SubmitStep ==
    ASSUME DriverInv, Submit PROVE DriverInv'
<1> USE DEF DriverInv
<1>1. /\ Len(trace) \in Nat /\ submitted \in 0..Len(trace) /\ submitted # Len(trace)
      /\ queue \in Seq(Ops) /\ Len(queue) \in Nat
      /\ submitted' = submitted + 1 /\ queue' = Append(queue, submitted + 1)
      /\ UNCHANGED <<trace, task, pc, outcome, main>>
  <2>1. /\ Len(trace) \in Nat /\ submitted \in 0..Len(trace)
        /\ queue \in Seq(Ops) /\ Len(queue) \in Nat
    BY DEF DriverTypeOK, IsTrace
  <2> QED
    BY <2>1 DEF Submit, AllSubmitted
<1>2. submitted' \in Ops /\ Ops' = Ops
  BY <1>1 DEF Ops
<1>3. /\ queue' \in Seq(Ops) /\ Len(queue') = Len(queue) + 1
      /\ \A i \in 1..Len(queue) : queue'[i] = queue[i]
      /\ queue'[Len(queue) + 1] = submitted + 1
  BY <1>1, <1>2
<1>4. Taken' = Taken
  BY <1>1, <1>3 DEF Taken
<1>5. DriverTypeOK'
  BY <1>1, <1>2, <1>3 DEF DriverTypeOK, Ops
<1>6. QueueInOrder'
  BY <1>1, <1>3, <1>4 DEF QueueInOrder, Taken
<1>7. TasksAreOwned' /\ EndedWereTaken'
  BY <1>1, <1>2, <1>4 DEF TasksAreOwned, EndedWereTaken
<1>8. DirectDependencies'
  BY <1>1, <1>2 DEF DirectDependencies, Deps, DependsOn
<1> QED
  BY <1>5, <1>6, <1>7, <1>8

\* A worker takes the oldest operation of the queue, which nobody had.
LEMMA TakeStep ==
    ASSUME DriverInv, NEW w \in Worker, Take(w) PROVE DriverInv'
<1> USE DEF DriverInv
<1>1. /\ Len(trace) \in Nat /\ submitted \in 0..Len(trace) /\ queue \in Seq(Ops) /\ queue # <<>>
      /\ task' = [task EXCEPT ![w] = Head(queue)]
      /\ queue' = Tail(queue) /\ pc' = [pc EXCEPT ![w] = "waiting"]
      /\ UNCHANGED <<trace, submitted, outcome, main>>
  BY DEF Take, NextTask, DriverTypeOK, IsTrace
<1>2. /\ Len(queue) \in Nat \ {0} /\ queue' \in Seq(Ops) /\ Len(queue') = Len(queue) - 1
      /\ Head(queue) = queue[1] /\ Head(queue) \in Ops
      /\ \A i \in 1..Len(queue') : queue'[i] = queue[i + 1]
  BY <1>1
<1>3. Taken \in Nat /\ Taken' = Taken + 1 /\ Head(queue) = Taken + 1 /\ Ops' = Ops
  BY <1>1, <1>2 DEF Taken, QueueInOrder, Ops
<1>4. DriverTypeOK'
  BY <1>1, <1>2, <1>3 DEF DriverTypeOK
<1>5. QueueInOrder'
  <2>1. \A i \in 1..Len(queue') : i + 1 \in 1..Len(queue) /\ queue[i + 1] = Taken + (i + 1)
    BY <1>2 DEF QueueInOrder
  <2> QED
    BY <1>2, <1>3, <2>1 DEF QueueInOrder
<1>6. TasksAreOwned'
  <2>1. outcome[Head(queue)] = "none"
    BY <1>2, <1>3 DEF EndedWereTaken
  <2>2. \A v \in Worker : v # w => pc'[v] = pc[v] /\ task'[v] = task[v]
    BY <1>1 DEF DriverTypeOK
  <2>3. task'[w] = Taken + 1 /\ outcome'[task'[w]] = "none"
    BY <1>1, <1>3, <2>1 DEF DriverTypeOK
  <2> QED
    BY <1>1, <1>3, <2>2, <2>3 DEF TasksAreOwned
<1>7. EndedWereTaken'
  BY <1>1, <1>3 DEF EndedWereTaken, Ops
<1>8. DirectDependencies'
  BY <1>1, <1>3 DEF DirectDependencies, Deps, DependsOn, DriverTypeOK
<1> QED
  BY <1>4, <1>5, <1>6, <1>7, <1>8

\* A worker reaches the adapter when its dependencies have returned.
LEMMA StartApplyStep ==
    ASSUME DriverInv, NEW w \in Worker, StartApply(w) PROVE DriverInv'
<1> USE DEF DriverInv
<1>1. /\ pc[w] = "waiting" /\ Pending(task[w]) = {} /\ pc' = [pc EXCEPT ![w] = "apply"]
      /\ UNCHANGED <<trace, submitted, queue, task, outcome, main>>
  BY DEF StartApply
<1>2. Taken' = Taken /\ Ops' = Ops /\ \A o : Deps(o)' = Deps(o)
  BY <1>1 DEF Taken, Ops, Deps, DependsOn
<1>3. \A d \in Deps(task[w]) : outcome[d] = "returned"
  BY <1>1, NothingPending
<1>4. \A v \in Worker : v # w => pc'[v] = pc[v]
  BY <1>1 DEF DriverTypeOK
<1>5. DriverTypeOK' /\ QueueInOrder' /\ EndedWereTaken'
  BY <1>1, <1>2 DEF DriverTypeOK, QueueInOrder, EndedWereTaken
<1>6. TasksAreOwned'
  BY <1>1, <1>2, <1>4 DEF TasksAreOwned
<1>7. DirectDependencies'
  BY <1>1, <1>2, <1>3, <1>4 DEF DirectDependencies
<1> QED
  BY <1>5, <1>6, <1>7

\* What the end of a task leaves alone: the outcome of every other operation, and
\* the other workers.
LEMMA ResolveChanges ==
    ASSUME DriverInv, NEW w \in Worker, pc[w] # "idle", NEW how, Resolve(w, how)
    PROVE  /\ task[w] \in Ops /\ outcome[task[w]] = "none" /\ outcome'[task[w]] = how
           /\ \A o \in Ops : o # task[w] => outcome'[o] = outcome[o]
           /\ pc'[w] = "idle" /\ task'[w] = NoOp
           /\ \A v \in Worker : v # w => pc'[v] = pc[v] /\ task'[v] = task[v]
           /\ UNCHANGED <<trace, submitted, queue, main>>
           /\ Ops' = Ops /\ Taken' = Taken /\ \A o : Deps(o)' = Deps(o)
<1>1. task[w] \in Ops
  BY DEF DriverInv, TasksAreOwned, DriverTypeOK, IsTrace, Taken, Ops, QueueInOrder
<1> QED
  BY <1>1 DEF Resolve, DriverInv, DriverTypeOK, TasksAreOwned, Ops, Taken, Deps, DependsOn

\* A task ends, however it ends, and only from apply_op by returning.
LEMMA ResolveStep ==
    ASSUME DriverInv, NEW w \in Worker, pc[w] # "idle",
           NEW how \in {"returned", "raised"}, how = "returned" => pc[w] = "apply",
           Resolve(w, how)
    PROVE  DriverInv'
<1> USE DEF DriverInv
<1>1. /\ task[w] \in Ops /\ outcome[task[w]] = "none" /\ outcome'[task[w]] = how
      /\ \A o \in Ops : o # task[w] => outcome'[o] = outcome[o]
      /\ pc'[w] = "idle" /\ task'[w] = NoOp
      /\ \A v \in Worker : v # w => pc'[v] = pc[v] /\ task'[v] = task[v]
      /\ UNCHANGED <<trace, submitted, queue, main>>
      /\ Ops' = Ops /\ Taken' = Taken /\ \A o : Deps(o)' = Deps(o)
  BY ResolveChanges
<1>2. IsTrace(trace) /\ \A o \in Ops : Deps(o) \subseteq Ops
  BY DepsAreEarlier DEF DriverTypeOK
<1>3. \A o \in Ops : outcome[o] = "returned" => outcome'[o] = "returned"
  BY <1>1
<1>4. DriverTypeOK'
  BY <1>1 DEF DriverTypeOK, Resolve
<1>5. QueueInOrder' /\ EndedWereTaken'
  BY <1>1 DEF QueueInOrder, EndedWereTaken, TasksAreOwned
<1>6. TasksAreOwned'
  <2> SUFFICES ASSUME NEW v \in Worker, pc'[v] # "idle"
               PROVE  /\ task'[v] \in 1..Taken
                      /\ outcome'[task'[v]] = "none"
                      /\ \A u \in Worker : u # v /\ pc'[u] # "idle" => task'[u] # task'[v]
    BY <1>1 DEF TasksAreOwned
  <2>1. v # w /\ task'[v] = task[v] /\ pc[v] # "idle" /\ task[v] # task[w]
    BY <1>1 DEF TasksAreOwned
  <2>2. task[v] \in Ops
    BY <2>1 DEF TasksAreOwned, QueueInOrder, Taken, DriverTypeOK, IsTrace, Ops
  <2> QED
    BY <1>1, <2>1, <2>2 DEF TasksAreOwned
<1>7. DirectDependencies'
  <2>1. \A v \in Worker : pc[v] = "apply" => task[v] \in Ops
    BY DEF TasksAreOwned, QueueInOrder, Taken, DriverTypeOK, IsTrace, Ops
  <2>2. \A v \in Worker : pc'[v] = "apply" => \A d \in Deps(task'[v]) : outcome'[d] = "returned"
    BY <1>1, <1>2, <1>3, <2>1 DEF DirectDependencies
  <2>3. \A o \in Ops : outcome'[o] = "returned" => \A d \in Deps(o) : outcome[d] = "returned"
    BY <1>1 DEF DirectDependencies
  <2> QED
    BY <1>1, <1>2, <1>3, <2>2, <2>3 DEF DirectDependencies
<1> QED
  BY <1>4, <1>5, <1>6, <1>7

\* Every step of the driver preserves the invariant.
LEMMA DriverSteps ==
    ASSUME DriverInv, DriverNext \/ UNCHANGED driverVars PROVE DriverInv'
<1>1. ASSUME NEW w \in Worker, DependencyRaised(w) PROVE DriverInv'
  BY <1>1, ResolveStep DEF DependencyRaised
<1>2. ASSUME NEW w \in Worker, Return(w) PROVE DriverInv'
  BY <1>2, ResolveStep DEF Return
<1>3. ASSUME NEW w \in Worker, Raise(w) PROVE DriverInv'
  BY <1>3, ResolveStep DEF Raise
<1>4. CASE Finish
  BY <1>4 DEF Finish, DriverInv, DriverTypeOK, QueueInOrder, Taken, TasksAreOwned,
              EndedWereTaken, DirectDependencies, Deps, DependsOn, Ops
<1>5. CASE UNCHANGED driverVars
  BY <1>5 DEF driverVars, DriverInv, DriverTypeOK, QueueInOrder, Taken, TasksAreOwned,
              EndedWereTaken, DirectDependencies, Deps, DependsOn, Ops
<1> QED
  BY <1>1, <1>2, <1>3, <1>4, <1>5, SubmitStep, TakeStep, StartApplyStep DEF DriverNext, Schedule

\* A result is final.
LEMMA ReturnedStays ==
    ASSUME DriverInv, DriverNext \/ UNCHANGED driverVars, NEW o \in Ops, outcome[o] # "none"
    PROVE  outcome'[o] = outcome[o]
<1>1. ASSUME NEW w \in Worker, NEW how, pc[w] # "idle", Resolve(w, how)
      PROVE  outcome'[o] = outcome[o]
  BY <1>1, ResolveChanges
<1> QED
  BY <1>1 DEF DriverNext, Schedule, Submit, Finish, Take, StartApply, DependencyRaised,
              Return, Raise, driverVars

\* The operation of a busy worker.
LEMMA BusyWorker ==
    ASSUME DriverInv, NEW w \in Worker, pc[w] # "idle"
    PROVE  /\ task[w] \in Ops /\ task[w] <= Taken /\ outcome[task[w]] = "none"
           /\ \A v \in Worker : v # w /\ pc[v] # "idle" => task[v] # task[w]
<1>1. Taken \in Nat /\ Len(trace) \in Nat /\ Taken <= Len(trace)
  BY DEF DriverInv, DriverTypeOK, IsTrace, QueueInOrder, Taken
<1> QED
  BY <1>1 DEF DriverInv, TasksAreOwned, Ops

\* What the driver does by itself: no worker leaves the adapter, a worker enters it
\* with the operation it had, and an operation ends only because one it depends on
\* raised.
ScheduleEffect ==
    /\ trace' = trace /\ Ops' = Ops /\ \A o : Deps(o)' = Deps(o)
    /\ Taken \in Nat /\ Taken' \in Nat /\ Taken <= Taken'
    /\ \A v \in Worker :
         /\ pc[v] = "apply" => pc'[v] = "apply"
         /\ pc'[v] # "idle" => \/ pc[v] # "idle" /\ task'[v] = task[v]
                               \/ pc'[v] = "waiting" /\ task'[v] = Taken + 1
    /\ \A o \in Ops : outcome'[o] # outcome[o] =>
         outcome'[o] = "raised" /\ \E d \in Deps(o) : d \in Ops /\ outcome[d] = "raised"

LEMMA ScheduleChanges ==
    ASSUME DriverInv, Submit \/ Finish \/ \E w \in Worker : Schedule(w)
    PROVE  ScheduleEffect
<1> USE DEF ScheduleEffect
<1>1. /\ DriverInv' /\ IsTrace(trace)
      /\ pc \in [Worker -> {"idle", "waiting", "apply"}] /\ task \in [Worker -> Ops \cup {NoOp}]
  BY DriverSteps DEF DriverNext, DriverInv, DriverTypeOK
<1>2. trace' = trace
  BY DEF Submit, Finish, Schedule, Take, StartApply, DependencyRaised, Resolve
<1>3. Ops' = Ops /\ \A o : Deps(o)' = Deps(o)
  BY <1>2 DEF Ops, Deps, DependsOn
<1>4. Taken \in Nat /\ Taken' \in Nat
  BY <1>1 DEF DriverInv, QueueInOrder
<1>5. CASE Submit
  <2>1. /\ queue \in Seq(Ops) /\ submitted + 1 \in Ops /\ submitted \in Nat
        /\ queue' = Append(queue, submitted + 1) /\ submitted' = submitted + 1
    <3>1. /\ queue \in Seq(Ops) /\ Len(trace) \in Nat /\ submitted \in 0..Len(trace)
      BY DEF DriverInv, DriverTypeOK, IsTrace
    <3> QED
      BY <1>5, <3>1 DEF Submit, AllSubmitted, Ops
  <2>2. Taken' = Taken
    BY <2>1 DEF Taken
  <2> QED
    BY <1>2, <1>3, <1>4, <1>5, <2>2 DEF Submit
<1>6. CASE Finish
  BY <1>2, <1>3, <1>4, <1>6 DEF Finish, Taken
<1>7. ASSUME NEW w \in Worker, Take(w) PROVE ScheduleEffect
  <2>1. queue \in Seq(Ops) /\ queue # <<>> /\ submitted \in Nat
    BY <1>7 DEF Take, DriverInv, DriverTypeOK, IsTrace
  <2>2. queue' = Tail(queue) /\ submitted' = submitted
    BY <1>7 DEF Take, NextTask
  <2>3. Head(queue) = queue[1] /\ 1 \in 1..Len(queue) /\ Len(queue') = Len(queue) - 1
    BY <2>1, <2>2
  <2>4. Head(queue) = Taken + 1 /\ Taken' = Taken + 1
    BY <2>1, <2>2, <2>3 DEF Taken, DriverInv, QueueInOrder
  <2> QED
    BY <1>1, <1>2, <1>3, <1>4, <1>7, <2>4 DEF Take, NextTask
<1>8. ASSUME NEW w \in Worker, StartApply(w) PROVE ScheduleEffect
  BY <1>1, <1>2, <1>3, <1>4, <1>8 DEF StartApply, Taken
<1>9. ASSUME NEW w \in Worker, DependencyRaised(w) PROVE ScheduleEffect
  <2>1. pc[w] = "waiting" /\ Resolve(w, "raised")
    BY <1>9 DEF DependencyRaised
  <2>2. /\ task[w] \in Ops /\ outcome'[task[w]] = "raised" /\ pc'[w] = "idle"
        /\ \A o \in Ops : o # task[w] => outcome'[o] = outcome[o]
        /\ \A v \in Worker : v # w => pc'[v] = pc[v] /\ task'[v] = task[v]
        /\ Taken' = Taken
    BY <2>1, ResolveChanges
  <2>3. \E d \in Deps(task[w]) : outcome[d] = "raised"
    BY <1>9 DEF DependencyRaised, Pending, Deps
  <2>4. Deps(task[w]) \subseteq Ops
    BY <1>1, <2>2, DepsAreEarlier
  <2> QED
    BY <1>2, <1>3, <1>4, <2>1, <2>2, <2>3, <2>4
<1> QED
  <2> HIDE DEF ScheduleEffect
  <2> QED
    BY <1>5, <1>6, <1>7, <1>8, <1>9 DEF Schedule

---------------------------------------------------------------------------
\* What an operation waits for are its dependencies and what those wait for: the
\* recursion of Ancestry has a solution, the smallest sets that are closed.
LEMMA AncestryEquation ==
    ASSUME IsTrace(trace), NEW o \in Ops
    PROVE  Ancestry(o) = Deps(o) \cup UNION {Ancestry(d) : d \in Deps(o)}
<1> DEFINE Up(up) == [i \in Ops |-> Deps(i) \cup UNION {up[d] : d \in Deps(i)}]
           up == CHOOSE up : up = Up(up)
           Closed(S, i) == Deps(i) \subseteq S /\ \A e \in S : Deps(e) \subseteq S
           least == [i \in Ops |-> {d \in Ops : \A S \in SUBSET Ops : Closed(S, i) => d \in S}]
<1>1. \A i \in Ops : Deps(i) \subseteq Ops
  BY DepsAreEarlier
<1>2. ASSUME NEW i \in Ops
      PROVE  least[i] = Deps(i) \cup UNION {least[d] : d \in Deps(i)}
  <2> DEFINE R == Deps(i) \cup UNION {least[d] : d \in Deps(i)}
  <2>1. Deps(i) \subseteq least[i]
    BY <1>1
  <2>2. ASSUME NEW d \in Deps(i) PROVE least[d] \subseteq least[i]
    BY <1>1
  <2>3. \A d \in Deps(i) : Closed(least[d], d)
    BY <1>1
  <2>4. R \in SUBSET Ops
    BY <1>1
  <2>5. ASSUME NEW e \in R PROVE Deps(e) \subseteq R
    <3>1. CASE e \in Deps(i)
      <4>1. Deps(e) \subseteq least[e]
        BY <2>3, <3>1
      <4> HIDE DEF least
      <4>2. least[e] \subseteq R
        BY <3>1
      <4> HIDE DEF R
      <4> QED
        BY <4>1, <4>2
    <3>2. ASSUME NEW d \in Deps(i), e \in least[d] PROVE Deps(e) \subseteq R
      <4>1. Deps(e) \subseteq least[d]
        BY <2>3, <3>2
      <4> HIDE DEF least
      <4> QED
        BY <3>2, <4>1
    <3> HIDE DEF least
    <3> QED
      BY <3>1, <3>2
  <2>6. least[i] \subseteq R
    <3>1. Closed(R, i)
      BY <2>5
    <3> HIDE DEF R
    <3> QED
      BY <2>4, <3>1
  <2> HIDE DEF least
  <2> QED
    BY <2>1, <2>2, <2>6
<1>3. least = Up(least)
  BY <1>2
<1>4. up = Up(up)
  BY <1>3
<1>5. \A i \in Ops : Ancestry(i) = up[i]
  BY DEF Ancestry, Deps
<1> HIDE DEF up
<1> QED
  BY <1>1, <1>4, <1>5

\* Of some operations one is the first.
LEMMA FirstOperation ==
    ASSUME IsTrace(trace), NEW T \in SUBSET Ops, T # {}
    PROVE  \E o \in T : \A p \in T : o <= p
<1> DEFINE R == {ss \in Nat \X Nat : ss[1] < ss[2]}
<1>1. IsWellFoundedOn(R, Nat)
  BY NatLessThanWellFounded DEF OpToRel
<1>2. T \subseteq Nat
  BY DEF Ops, IsTrace
<1> HIDE DEF R
<1>3. PICK o \in T : \A p \in T : ~(<<p, o>> \in R)
  BY <1>1, <1>2, WFMin
<1>4. o \in Nat /\ \A p \in T : p \in Nat /\ ~(p < o)
  BY <1>2, <1>3 DEF R
<1> QED
  BY <1>4

\* The driver's promise follows from the invariant: the first operation that
\* returned before something it waits for would have a dependency that did.
LEMMA DriverPromise ==
    ASSUME DriverInv PROVE DependenciesReturned
<1> DEFINE Behind(o) == \A d \in Ancestry(o) : outcome[d] = "returned"
           Bad == {o \in Ops : outcome[o] = "returned" /\ ~Behind(o)}
<1>1. IsTrace(trace) /\ Ops \subseteq Nat
  BY DEF DriverInv, DriverTypeOK, Ops, IsTrace
<1>2. \A o \in Ops : Deps(o) \subseteq Ops /\ \A d \in Deps(o) : d < o
  BY <1>1, DepsAreEarlier
<1>3. \A o \in Ops : (\A d \in Deps(o) : outcome[d] = "returned" /\ Behind(d)) => Behind(o)
  BY <1>1, AncestryEquation
<1>4. \A o \in Ops : outcome[o] = "returned" => \A d \in Deps(o) : outcome[d] = "returned"
  BY DEF DriverInv, DirectDependencies
<1>5. \A w \in Worker : pc[w] = "apply" =>
        task[w] \in Ops /\ \A d \in Deps(task[w]) : outcome[d] = "returned"
  BY DEF DriverInv, DirectDependencies, TasksAreOwned, QueueInOrder, Taken, DriverTypeOK, IsTrace, Ops
<1> HIDE DEF Behind
<1>6. Bad = {}
  <2> SUFFICES ASSUME Bad # {} PROVE FALSE
    OBVIOUS
  <2>1. PICK o \in Bad : \A p \in Bad : o <= p
    BY <1>1, FirstOperation
  <2>2. o \in Ops /\ outcome[o] = "returned" /\ ~Behind(o)
    OBVIOUS
  <2>3. ASSUME NEW d \in Deps(o) PROVE outcome[d] = "returned" /\ Behind(d)
    <3>1. d \in Ops /\ d < o /\ outcome[d] = "returned"
      BY <1>2, <1>4, <2>2, <2>3
    <3>2. ~(o <= d)
      BY <1>1, <2>2, <3>1
    <3> QED
      BY <2>1, <3>1, <3>2
  <2> QED
    BY <1>3, <2>2, <2>3
<1>7. \A o \in Ops : (\A d \in Deps(o) : outcome[d] = "returned") => Behind(o)
  BY <1>2, <1>3, <1>6
<1> QED
  BY <1>4, <1>5, <1>7 DEF DependenciesReturned, Behind

=============================================================================
