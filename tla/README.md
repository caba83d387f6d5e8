# HorizonProtocol in TLA+

HorizonProtocol is a Python code base around one integer predicate: can light
have gone from event *a* to event *b*?  A ledger, two data stores, several
verification protocols, moving nodes and a benchmark harness are built on it.
This directory holds TLA+ models of those parts, the TLC configurations that
check them on small instances, and theorems checked by TLAPS.

    tlc -config store_logical.cfg MCCausalStore     # one run
    tlapm CausalStoreProofs.tla                     # one module of proofs

`PROJECT.json` is the index: components, runs, mutants, the map from definitions
to source lines, findings, hazards and theorems.

## 1. Inventory

Paths are relative to `src/`.  "Hard" names what a test suite reaches badly.

| component | state | operations | interacts with | hard | correct when |
|---|---|---|---|---|---|
| light-cone kernel `horizon/geometry.py` (copy in causal-store), `formal/kernel_proof.py` | none | `causally_admissible`, `dist2`, `min_light_time_ns` | everything calls it | rounding up twice, two correcting loops | the gate is transitive; the light time is exact and agrees with the gate |
| orderings `causalstore/ordering.py` | none | `before`, `concurrent`, `resolves` of three orderings | causal-store calls them | uncertainty at the light-time floor; hybrid answers by two different rules | `before` is a strict partial order and never claims more than the clocks support |
| event store `causalstore/store.py` | events in append order, their `supersedes` lists, three counters | `write`, `read` | called by users, by the harness's threads | caller's claims, retries, stale writes, mixed frontiers | the current values are the maximal delivered writes; a stale value stays stale |
| harness driver `benchmark_harness/driver.py` | pool queue, futures, workers | `run` (submit, wait for predecessors, apply, collect) | calls an adapter from many threads | workers that all wait; exceptions along chains of futures | no deadlock; an operation runs only after what it depends on returned |
| workload `workload_gen.py` | last writer per key | `generate_trace` | feeds the driver | the ground truth must be physically right | an operation depends on the last writer it can have heard of |
| causal-store adapter `adapters/causalstore_adapter.py`, `verify_order.py` | vector-clock counters, `commit_seq`, `_op_to_event` | `apply_op` | driver's threads call it, it calls `write` | no locks: every step of two calls interleaves | its result is that of some serial use of the store; `verify_order` holds |
| SQL, baseline and Tiga adapters `adapters/sql_common.py` …, `scripts/run_harness_local.py` | a table that outlives a run, a connection per worker, `commit_seq` | `setup`, `apply_op`, `teardown`; the point of the sweep around them | driver's threads call them; a database | refused statements, lost connections, a commit nobody hears of, rows of a run that was killed | every point ends; what it committed is closed under dependency and numbered in real time |
| mnemesis `mnemesis/memory.py`, `vclock.py` | writes, audit log of refusals | `put`, `get`, `resolve` | uses the kernel | claims across keys, claims of superseded writes, content-addressed retries | provenance is causal at every depth; only what was claimed is replaced |
| causal ledger `horizon/ledger.py`, `edge_claims.py`, `reachability_cache.py` | events, edges, claims, rejections, cached index | `add_event`, `add_edge`, `add_dependency_claim`, `precedes`, `precedes_fast`, `concurrent` | uses the kernel | edges tested one at a time; a cache invalidated by hand | a chain of edges is a physical influence; both queries agree |
| measured verdicts (H3, H5, H7, H8) `measure.py`, `capture_verify.py`, `distance.py`, `db_sim.py`, `latency_gate.py` | none | `budget_witness`, `classify`, `rtt_bound_witness`, `multilateration`, `run_session`, `telemetry_consistent`, `trajectory_attested` | readings of real or simulated clocks | three margins that meet; floors that round differently; provers in several places | a definite verdict is right for every truth the uncertainty allows |
| receipts and certificates (H1, H5, H6, H7, H8) `certificate.py`, `measure.py`, `capture_verify.py`, `deepspace_protocol.py`, `stations.py`, `signed_capture.py` | the receipts collected so far | stations stamp and sign; `verify_certificate`, `verify_measured_certificate`, `verify_capture`, `verify_telemetry_packet` | the gates above, one receipt at a time | receipts in any order, twice, altered, of another event; a claim restated | what really happened is never refused; a verdict is about the event that was signed; later receipts clear nothing |
| randomness beacon (H4) `beacon.py`, `beacon_sim.py` | entries, each with a certificate; a combined value | `build_emission_entry`, `combine`, `verify_beacon` | certificates | pairs tested once; entries spoilt between emission and verification | an emitter that tells the truth had not heard the block of another one; the bytes combined are those the stations heard |
| bit commitment (H2) `commitment.py`, `commit_sim.py` | rounds at two sites, a transcript, a reveal | `run_session`, `verify_reveal`, `verify_transcript_chain`, the isolation gates | the kernel | overlapping windows; each response depends on the round before | no answer could have heard the other site's challenge; one opening per bit; only the transcript of the session passes |
| trajectories and light delay (SP0–SP3) `worldline.py`, `light_delay.py`, `occultation.py`, `uncertainty.py`, `two_floor.py`, `proper_time.py`, `reconcile.py` | an envelope of where a ship may be; vector clocks; proper clocks; signals in flight | blackout search, delivery, `radius_at`, collapse at a contact, `two_floor_verdict`, `reconcile` | the kernel, the vector order | searches with open and closed ends; rounding of envelopes; two clocks that drift | the search finds the blackout; the ship is in its envelope; verdicts hold for all places in it; lineage survives a partition |
| causal-kernel provider `providers/causal_kernel_provider.py` | none | `classify_geometric`, `classify_logical` | orderings | what is resolved one way need not be the other way | a definite relation holds for all truths, and reads the same from the other side |
| live capture `scripts/live_orchestrate.py`, `verify_live.py`, `signed_capture.py` | per run: threads, receipts, errors; per responder: backlog and the connection served | emit, connect, answer, time out, write; verify | a thread per responder over sockets; every node has a clock of its own | answers after the timeout, a responder busy with an earlier run or killed by a peer that went away, two clocks in one duration | every capture ends, counts every responder once and holds only its own receipts; only an emitter that is ahead gets an honest receipt rejected |

### Not modelled, and why

* **Simulators' scripts, fixtures, certificate writers, batch scripts** (`fixtures.py`,
  `geo_fixtures.py`, `h6_capture.py`, `capture.py`, `build_frame.py`, `run_all.py`,
  `validate_certificates.py`): they write files or call the parts above in a row.
* **`report.py`'s and `collect.py`'s percentiles**, the geodetic conversion of
  `geo_frame.py` and the quantum simulation are floating point.  A score of
  the simulation is any score it can give; of `build_point` only the status is modelled.
* **`redteam/`, `benchmark/`, `causal-store/bench/`**: clients of the parts above
  without state of their own.
* **Hashes, MACs and signatures**: an identifier that is a hash of some fields is the
  tuple of those fields, a MAC is the key's owner with what was signed (hashes do not
  collide, keys are not shared).

## 2. Modules

    LightCone ── Kernel
       ├── TimingGates ── Measurement ── LightTimeLoops ──────┐
       │       ├─ Certificates ── Beacon ──────────────────────┤
       │       └─ LiveCapture ── MCLiveCapture                 ├ MCVerifiers
       ├── Commitment ─────────────────────────────────────────┤
       ├── Ordering ── Trajectories ── SpaceLink ──────────────┘
       │      └── GeometricStore ── HybridStore ── MCHybridStore
       │             │    └ MCCausalStore                 MVRegister (abstract)
       │      CausalStore                                      ▲
       │             └─────────────── refines ─────────────────┘
       ├── Workload ──┐
       │   Driver ────┴─ HarnessedStore ── MCHarnessedStore    CausalStore!Write (abstract)
       │      │                └─ implements, step by step ─────────┘
       │      └───────── SqlHarness ── MCSqlHarness
       ├── CausalMemory ── MCCausalMemory
       └── CausalLedger ── MCCausalLedger

The proofs are in modules of their own; each extends what it is about.

| module | is about |
|---|---|
| LightConeProofs | LightCone, Kernel; least elements and iteration, which the others need |
| CausalStoreProofs | Ordering, CausalStore and MVRegister, GeometricStore, HybridStore |
| CausalLedgerProofs | CausalLedger, CausalMemory |
| VerifierProofs | Measurement, LightTimeLoops, Trajectories, SpaceLink, Commitment, Certificates, Beacon |
| LiveCaptureProofs | LiveCapture |
| DriverProofs | Driver: what holds of its threads whatever the adapter does |
| SqlHarnessProofs, HarnessedStoreProofs | the two harnesses on Driver |

How they correspond to the code:

* **LightCone** has the predicate and the integer light time; the speed of light
  `C` is a constant (299 792 458 in the code, 1 or 2 in the runs, any positive
  integer in the proofs).  Python's integers do not overflow, so neither do these.
  **Kernel** states what `formal/kernel_proof.py` asks Z3 about the one `C` of the code.
* **TimingGates** has the verdict functions as operators on a duration, an
  uncertainty and floors; floors are least solutions of "(speed × time)² is at least
  the square of the distance".  **Measurement** is a measurement together with the
  truth behind it: a signal that really took some time, a prover really at some
  place, or a session of `db_sim.py`, in which an agent answers as soon as light
  allows or delays to the deadline, and agents in several places answer for one claim.
  Verdicts see the readings; the properties compare them with the truth.
  **LightTimeLoops** computes the three floors the way the code does, by one ceiling search.
* **Certificates** is an event, the claim made of it and the receipts as a collector
  gets them: in any order, twice, altered after signing, of another event, from a
  station that moved or is unknown, and under a claim restated after signing.  The four
  verifiers are operators on the claim and that list.  **Beacon** adds emitters whose
  entries may be spoilt in the ways the negative controls spoil them, or state another
  time or place than that of the emission; `published` records where and when each was
  really emitted, which no gate reads and the property compares the verdict with.
* **Commitment** runs a whole session: K + 1 rounds at alternate sites, the chain, the
  reveal of the bit or of the other one (`CHEAT_FLIP`), and a submission in which
  rounds may be changed, renumbered, swapped or cut off.  Secrets and challenges are
  any field elements instead of hashes of a seed.
* **Trajectories** looks at one case at a time, as Measurement does: a flyby past an
  occulting body, two places known within radii, two geometric clocks, two vector
  clocks.  `occultation_interval` is the scan, the hint and the two bisections.
  **SpaceLink** is a machine: a ship that accelerates within its declared bounds,
  signals at light speed or slower that arrive in any order, the ground's envelope
  collapsing at each contact (also an old one that arrives late), vector clocks, proper
  clocks, and `reconcile` over the merged log.
* **LiveCapture** is `run_emitter` with one `_one` thread per responder,
  `run_responder`, and `verify_live.py` on what was written.  `now` is the true time
  since the emission; a handshake takes the light's round trip and a message at
  least the light's way.  The lock makes each thread's updates one step.  A thread
  that times out closes its socket, but its connection may stay in the responder's
  backlog, be served later and even after the next run has begun: that is why
  `queue` and `serving` survive `Emit`.  An answer to a closed connection is lost or
  raises outside the `try`, which ends the responder.  No step before the
  verification depends on the clock errors, so `Verify` chooses them.
* **Ordering** has the three orderings as operators on clocks.  A geometric clock
  is a time, a place and an uncertainty; a vector clock is a function on the nodes
  it mentions, with absent nodes reading as zero, as `dict.get(k, 0)` does.  The
  last three definitions say what such a clock claims about the truth.
* **CausalStore** has one action per way `write()` returns, in the code's order:
  duplicate, bad claim, stale, first write, clean supersede, proven-independent,
  conflict retained.  An event *is* its `event_id`, that is key, value, origin and
  clock; the `supersedes` argument is not part of the id in the code, so a retry
  may bring other claims.  The backend's list is the set `stored`: without
  threads no answer of `write` or `read` depends on its order.  `delivered` and
  `result` are history.
* **MVRegister** is what the store promises, with no frontier and no lists: after
  any deliveries in any order, the current values are the delivered writes that no
  delivered write is causally after.
* **GeometricStore** and **HybridStore** tie the store to physics: in the first, a
  clock bounds the true time of the event; in the second each event also has the time
  at which it really happened, and an event is written only if the vector clocks of
  those written so far could have come about (`Consistent`).
* **Driver** is the main thread, the executor's FIFO queue and its workers.
  Closed-loop and open-loop mode only differ in *when* the main thread submits.
* **Workload** defines the set of all traces that `generate_trace` can emit up to a
  length; the pseudo-random draws are replaced by all choices.
* **HarnessedStore** replaces Driver's opaque adapter call by the steps of
  `apply_op` and of `CausalStore.write` that touch shared state.  `+=` on a shared
  dictionary entry is a load and a store: the repository's CI tests Python 3.9,
  where a thread switch can fall between them.  `list.append`, `next(count)` and
  one dictionary store are single steps (they run under the interpreter's lock).
  The variable names `stored`, `supersedes`, `stats` … are mapped to CausalStore's
  by `Store == INSTANCE CausalStore WITH …`, so every definition of CausalStore
  (frontier, bad claims, the properties) is reused.
* **SqlHarness** is Driver with the other adapters and the point of the local sweep
  around it: `setup` over a table an earlier run may have left, the replay, `teardown`
  only when `run()` returned.  Checking a dependency, inserting and committing, and
  drawing the commit number are separate steps of a call.  The database is external:
  transactions commit or fail, and a connection may be lost in a transaction, also
  after its commit took effect; psycopg2's rollback then raises out of `apply_op`, and
  the worker's connection stays lost.
* **CausalMemory** has `put`'s three ways to return, and `resolve` as the `put` it
  makes of the chosen value claiming the whole frontier.  Here the claims *are* part
  of the content address, so a write is a body with the set of writes it claims.
* **CausalLedger** has one action per mutating call, including the lazy build of the
  index by `precedes_fast` and its invalidation by `add_edge`.

What the components share is the light-cone kernel, not state, with the exceptions that
are composed here: driver, workload, adapter and store (HarnessedStore, SqlHarness);
certificates and the beacon; envelopes, vector clocks and reconciliation (SpaceLink);
the capture and its verifier (LiveCapture).

## 3. Runs

Each passing run checks the invariants and properties listed in its `.cfg`; each
property has a mutant in `PROJECT.json`: a plausible bug in one mapped definition
(the operators commented "a mutated form of") under which that run finds the
property violated.

| run | question | instance |
|---|---|---|
| `verifiers` | what do the verdicts of `horizon/` say about the truth? | the six machines below, C = 2 |
| `store_geometric` | is the store on geometric clocks a multi-value register, and are its labels physically true? | 4 times × 2 places × 2 uncertainties, 2 keys, any one claim, 3 calls |
| `store_logical` | the same on vector clocks, with longer histories | 2 nodes, absent or 0 or 1; 2 keys; 4 calls |
| `store_hybrid` | what survives of it on the hybrid ordering, which is not transitive? | consistent executions of up to 3 events |
| `harness_sql` | does a point of the sweep end, in dependency order, and what does it leave? | 2 workers, all 64 dependency graphs of 4 operations; SQL, baseline and Tiga; a table with or without a row left over; 1 error of the database |
| `harness_threads` | what holds when two workers interleave inside `apply_op`? | all traces of 3 operations on one key, 2 regions, clock uncertainty 1 |
| `memory` | is provenance causal, and what does a resolution replace? | 2 observers, 2 values, 2 keys, 3 recorded writes, claims of any set |
| `ledger` | are chains of edges influences, and do the queries agree? | 3 events, 3 times, 2 places, any order of calls |
| `live_capture` | does every capture end, count every responder once, and hold only its own receipts? | two captures; a responder beside the emitter and one a tick away that may lack a clock budget; timeouts of 2 ticks; emitter errors −3, 0, 2, 3 |

`store_hybrid_stale`, `harness_race` and `live_capture_f1` expect a violation (Findings).

`MCVerifiers` puts six specifications that share no state side by side: one moves
while the others rest, so that its states are their disjoint union and each property is
checked on its own machine:

| machine | instance | properties |
|---|---|---|
| Measurement, LightTimeLoops | two verifiers, 42 stations, uncertainties 0, 1, 3 with every error, signals up to 9 ticks, provers that wait up to 3; sessions of agents at 5 places | `LoopsAreExact`, `HonestSignalSurvives`, `AdmittedIsResolved`, `HonestProverAdmitted`, `FartherProverRejected` |
| Certificates | two stations, one with a clock error and a processing delay; claims on time or early; up to 2 receipts | `VerdictOnlyWorsens`, `HonestFleetSurvives`, `VerdictIsAboutThisEvent`, `TelemetryIsPossible` |
| Beacon | three emitters, two of them 4 nm apart, two times, 3 entries of which one may be spoilt | `BlocksAreIndependent` |
| Trajectories | ships at rest, slow, oblique and at light speed past bodies of radius 0–2, three scan steps, a window of 9; places within radius 2; clocks off by up to 1; vector clocks over 2 nodes | `SignalsWaitForTheLink`, `VerdictHoldsEverywhere`, `ProviderIsCertain` |
| SpaceLink | 3 ticks of flight, 3 events, accelerations −1, 0, 1, errors of 1 | `ShipStaysInside`, `LineageSurvives` |
| Commitment | a field of 3 elements, 3 rounds, every bit, secret and challenge; windows isolated up to the last tick, too long, too late | `AnswersAreIsolated`, `OneOpeningPerBit`, `OnlyTheTranscriptPasses` |

**Why the bounds are enough.**  The store's decisions compare one new event with
one frontier: two current events, one before and one not related to the new one, are
needed for a mixed frontier (`RetainConflict` with ancestors), a third event and a
retry for the stale cases.  Three calls reach all the disjuncts and four reach a
retry after the key has split.  `Times` and `Places` put elapsed times below, at
and above the light-time floor, within and outside the uncertainty.  In the harness
a race needs two threads on one key; a third operation is needed for a dependency
on one side of it.  Four operations give the driver chains of three dependencies
with two workers blocked; one error of the database is enough to separate a row from
its number, and a second one would hit an operation that the first does not touch.
The ledger needs three events for a chain.  Live captures need a second run for an answer to come from the first one's
connection, a responder without delay for a clock error to matter, and a timeout
longer than one message but shorter than handshake, request and answer together.
The box of stations has distances whose squares are and are not perfect squares,
and multiples of the speed and not.  Two receipts are what "one more" needs, and give
every pair of a good one and a bad one in both orders; three emitters are the
`MIN_SOURCES` of the code.  A chain of three rounds has a first, a middle and a last
one, and each site is used; in a field of three a challenge can be 0, 1 or neither.
Three ticks and three events let two signals cross, or the later one arrive first,
and let the vector clocks of one node come round through the other.  The proofs
below cover every other size for the properties they name.

`CHECK_DEADLOCK FALSE` stands in configurations where the system may stop: the
bounds on calls and on runs, the single measurement, and the end of a replay.  That
the driver stops only when it should is `PointEnds`; that a capture does is
`CaptureEnds`.

**Fairness.**  `SqlHarness` and `LiveCapture` have it.  `SqlHarness`: weak fairness of
the main thread's steps (`setup`, submission and collection, `teardown`), of each
worker's scheduling, and of each worker's call, in which something happens in the
end: a statement is answered, refused, or its connection is lost.  The threads are
scheduled by the operating system; the adapters' one lock is held for a counter or,
in the baseline, for one operation; and the database is assumed to answer, or the
connection to break.  No fairness is assumed about which of these happens: no
worker has to succeed.  `LiveCapture`: time
passes, the emitter's main thread runs, and a socket operation that has reached its
timeout raises, which `settimeout` promises.  Nothing is assumed of the responders
or of the network: `CaptureEnds` holds when they never answer.

### Findings

Three runs check one statement of the repository each and find it violated.

* `store_hybrid_stale`: *"a causally-stale write is REJECTED rather than resurrected"*
  (d0-spec.md).  On HybridOrdering some pairs are ordered by geometry and others by
  vector clocks, and the union is not transitive.  `write` tests a write only
  against the frontier, so a write that is before a *superseded* event and unrelated
  to the superseding one is admitted as current.
* `harness_race`: *"implementations must be thread-safe"* (adapters/base.py).  Two
  threads read the same frontier, then both append; the earlier value stays current.
* `live_capture_f1`: *"no honest receipt REJECTED (falsifier F1)"* (verify_live.py).
  `classify` adds the receiving node's uncertainty to `recv_time_ns - t0_ns`, but
  `t0_ns` was read on another clock, whose error is not in the budget.  An emitter
  whose clock is ahead, within the uncertainty it measured itself, gets the receipts
  of nodes nearby rejected.  `OnlyEmitterClockRejects` is the other half, and is
  proved: it takes an emitter ahead by more than the light's round trip.

`harness_threads` is the other half of `harness_race`: what still holds under the
races.  `verify_order` never fails, because a task starts only after the tasks it
depends on have returned.  From every accepted write a chain of replacements, of which
each was decided by `write`, leads to a current value, because the copy of the frontier
can only be too old.  That the current value at the end is itself causally after the
write does *not* hold: two operations of one region may draw their ticks in the other
order than their logical times, and then the hybrid ordering is not transitive.
`FreshWritesAreAtomic` says that the old copy is the only thing that goes wrong: a
decision taken while the copy is still the frontier is CausalStore's atomic `write`.

What else the models make visible, without a run of its own:

* The adapter draws `commit_seq` after `write` has returned
  (causalstore_adapter.py:58), so two threads can number their commits in the other
  order than they appended them, while its docstring calls the number *"the backend's
  own append order"*; the SQL adapters draw it after the commit (sql_common.py:134).
  `verify_order` holds nevertheless, because only operations that overlap can be
  swapped: `CommitSeqIsRealTime`.
* On a lost connection psycopg2's `rollback()` raises out of the handler that is meant
  to *"never crash the run"* (sql_common.py:129), and the worker's thread keeps the
  dead connection; the point ends, with an exception.  `teardown` then is not
  called (run_harness_local.py:96-98), though base.py:69 says it is, success or not.
* `CausalMemory.get` calls the candidates of a CONFLICT *concurrent*, but a later write
  that claims nothing leaves an earlier one current beside it, because only claims
  replace.
* `verify_reveal` refuses reordered round indices according to its docstring
  (commitment.py:63-68) and accepts them in any order; `verify_transcript_chain`
  ignores hashes claimed beyond the last round.  Together they let nothing but the
  transcript pass, which is why `OnlyTheTranscriptPasses` is about both.  Where one of
  the first two challenges is zero, the cheat of `CHEAT_FLIP` cannot show at round 1.
* H1 and H5 receipts sign the hash of the payload only; H8's sign time and place
  too (its Erratum 2).  Hence the two halves of `VerdictIsAboutThisEvent`.  H1's verifier
  takes the same station twice.
* `telemetry_consistent` rejects a negative reading before it adds the uncertainty
  (latency_gate.py:88), so an honest packet of a station beside the source can be
  refused; `HonestFleetSurvives` says so by its premise.
* `occultation_interval` assumes one blackout in its window, may miss one that is
  narrower than its scan step, and cannot see past the end of the window;
  `SignalsWaitForTheLink` has these three as premises or as its second conjunct.
  Delivery is to a receiver that stays where it is (light_delay.py:20).
* The envelope's nominal line rounds a rational velocity down, by at most one nanometre
  on each axis, and the radius does not count it; ships of SpaceLink fly at whole
  velocities.
* A beacon is about *declared* emissions, as h4-spec.md:108-110 says.  A cone certificate
  bounds an emission from above only: an emitter that publishes later than it declares
  passes, and could have heard the others first.  So `BlocksAreIndependent` promises
  what an emitter had not heard to those that tell the truth, and what straight from
  another's place of emission only if that one does too; through stations that signed
  it holds whatever the other one declares.  With an untrue place and few receipts a
  declared emission can be concurrent with one that the real emission reaches.
* Agents that are near enough and wait pass the distance gates from several places at once,
  as the documents of H3 say; `FartherProverRejected` states it beside what the gates do exclude.
* `read_chrony_tracking` sums whichever of the fields it finds, so a partial output
  gives a smaller budget.

## 4. Theorems

Everything here is for all values of the constants.

**Kernel** (`LightConeProofs`).  The gate is transitive (`AdmissibleTransitive`):
from the Cauchy–Schwarz inequality in three dimensions, as a sum of squares, one
shows that lengths bounded by *x* and *y* add to a length bounded by *x + y*.
`LightTimeIsExact`: the light time is the least natural number that reaches.
`LightTimeTriangle`: so it is symmetric and obeys the triangle inequality, although
it is rounded.  `Faithfulness`, `FutureMonotone` and `KernelIsExact` are the claims of
`formal/kernel_proof.py` for every speed of light; its comparison with a real square root
is stated with the rationals below and above the root.

**Orderings** (`CausalStoreProofs`).  `GeoBefore` has an arithmetic form, "elapsed time
minus uncertainty is at least the floor, and time has advanced", from which
`GeometricIsStrict` follows by the triangle inequality.  `BeforeIsSure` and
`IndependenceIsSure`: the verdicts hold for all true times the clocks allow.
`LogicalIsStrict`: vector clocks over any sets of nodes, padding included.

**Store** (`CausalStoreProofs`), for every strict partial order.  "The frontier is
the set of maximal delivered writes" is not inductive, for the frontier is
defined by supersedes lists.  The inductive invariant is

    Inv == TypeOK /\ SupersedesIsCausal /\ NothingLost
                  /\ EarlierIsSuperseded /\ DeliveredIsAccounted

`NothingLost` is the well-foundedness that is needed, carried along instead of
derived: when an event is appended, what it displaces is before *it*.
`EarlierIsSuperseded` is where transitivity enters: a new event that is not before
any current event is not before any stored one, because each stored one is before
a current one.  `AppendKeepsInv` is the one step lemma; the four commits are
instances of it.  From `Inv` follow `Convergence`, `Refinement` (the store
implements MVRegister), `OnlySuccessorsReplaceHolds`, `StaleStaysStaleHolds` and
`SupersedeIsTotalHolds`.  `CommittedIsFinalHolds` needs no assumption on the order.

**Store on geometry and on the hybrid ordering** (`CausalStoreProofs`).  On geometry the
hypothesis on the order is discharged by `GeometricIsStrict`, and the labels mean what
they say: `CoordinationFreeIsSpacelikeHolds`, `ReplacedWasSurelyEarlierHolds`.  On the
hybrid ordering there is no strict order, so `Inv` is of no use;
`SupersededWasReachedHolds` has an invariant of its own, `HybridInv`: the events written
so far are pairwise of one execution, and what is superseded was ordered before by one
rule or the other.  Each rule alone implies that light had the time.

**Ledger** (`CausalLedgerProofs`).  `VerdictsAreFinalHolds` by the invariant "every
edge passed the gate on what is recorded now, and every rejected pair failed it".
`ReachableIsInfluenceHolds` for chains of any length: reachability is membership
in every transitive relation that contains the edges, and "a strictly later event in
the light cone" is such a relation, so no induction over paths is needed.
`SearchIsReachability`: the search of `precedes` is a recursive function of the number
of rounds; the set that is reached after as many rounds as there are events is closed
under edges, because a round that adds nothing is followed by rounds that add nothing,
and a round that adds something adds an event.  `QueriesAgreeHolds` adds the invariant
that a built index is the index of the present edges (`ViewsInv`).

**Memory** (`CausalLedgerProofs`), for every strict partial order on writes.  `MemInv`
is that claims are recorded and causally earlier, and that each write is current or
followed by a current one of its key.  `OnlyClaimsReplaceHolds` needs the second:
a write that claims the whole frontier cannot have been recorded before, since some
current write would be it or follow it, and so be in its own past.  For
`ProvenanceIsCausalHolds` the recursion over claims has to end: it is compared with
`Ancestors`, the least set closed under claims, by the number of writes in the causal
past, which falls at each claim.

**Measured verdicts** (`VerifierProofs`).  The invariant is that the reading is off by at most
the declared uncertainty, and that a session's agents are where they answer from; with
`LeastTimeIsLeast` (the floors exist and are least) and
`RoundTripOfLightTime` (the round trip rounded once is at most twice the light
time, and short of it by at most one) the five theorems on `Measurement` follow by
arithmetic; for sessions, that a round trip of twice the light time and no less reaches.
`SearchIsExact` is about the ceiling search itself: the loop down ends at or below the
least solution and the loop up ends there; by the lemmas on the two loops
(`WalkDownStops`, `WalkUpStops`) whatever the first guess.  So the floors of
the code are those of the verdicts (`LoopsAreExactHolds`).

**Trajectories** (`VerifierProofs`).
`TwoFloorIsSound`: a definitive verdict holds of every pair of points within the two
radii, for any radii; from the lemma that lengths add, applied along both offsets.
`VerdictHoldsEverywhereHolds` and `ProviderIsCertainHolds` are its consequence and the
provider's, by the invariant `TrajInv`: the case that is looked at is one that the
actions choose.
`SignalsWaitForTheLinkHolds`: a bisection between an instant outside a set and one
inside ends at two neighbours (`BisectFinds`), the two bisections therefore find the
first and the last instant of a blackout whose instants are consecutive
(`BlackoutIsExact`), and the rest is the triangle inequality of the light time.  In the
runs every ship keeps its signals in order; in general that takes a ship whose places,
rounded to the lattice, are not farther apart than light goes in a nanosecond, and the
property says so.
`ShipStaysInsideHolds`: "the ship is in the ball" says nothing of its speed and is
not inductive.  `LinkInv` says that the envelope has an anchor: an instant, a place and a
velocity, within the errors of the ship's true ones then, from which
the ship can have drifted by now by at most `v_unc · dt + a_max · dt² / 2`, and the same
of every signal that is still under way, so that a contact that arrives late is as good an
anchor as any.
`LineageSurvivesHolds`: `LineageInv` says of every vector clock, of a node, of a signal
under way or of a merged event, that light from whatever it counts has arrived there
(`Knows`); that the ship moves no faster than light makes this survive a nanosecond of
flight, and the element-wise maximum preserves it at a merge.  With the place of an event
within its radius of where its locator says, the two-floor verdict cannot contradict it;
the proper times of a node follow its events because the clock rate is positive in a weak
field.

**Commitment** (`VerifierProofs`).
`AnswersAreIsolatedHolds`: `CommitInv` is the schedule, that round *k* is at its site and
at *k* periods; the two gates then leave no room for light in either direction.
`OneOpeningPerBitHolds`: a response is the secret of its round plus the challenge times
the secret before it (at round 0, times the bit), so the bit determines the secrets one
after the other.  The secrets for the two bits differ at round 0 if its challenge is not
zero, and go on differing while challenges are not zero, because modulo a prime a product
of two elements that are not zero is not zero; this is where the field has to be one.
For `OnlyTheTranscriptPassesHolds`, `OpeningInv` says that what is submitted is the session
or differs from it in some round or in its length: the hash of a prefix binds each round,
and `RoundsComplete` binds the length.

**Certificates and beacon** (`VerifierProofs`).  `CertInv` is that a receipt which is
signed, of this event and from a station where it was surveyed was made by that station:
of the claim it was told, and not before light could have come (`ReceiptsAreMade`).
`HonestFleetSurvivesHolds` and `VerdictIsAboutThisEventHolds` follow by arithmetic on
floors, `TelemetryIsPossibleHolds` by comparing two floors of one distance.
`VerdictOnlyWorsensHolds`: each verdict is decided by what some receipt shows and by what
all of them show, and neither gets better with one more receipt.
`BlocksAreIndependentHolds`: `BeaconInv` is that every receipt of an entry was stamped
when light from the real emission had come (`IsHeard`), whatever the entry says.  If the
beacon passes, that stamp is in the cone of the *declared* emission, which cannot reach
the other's; so by transitivity the station could not have passed the block on in time
either, also when the entry is untrue.

**Harness** (`DriverProofs`, `SqlHarnessProofs`, `HarnessedStoreProofs`), for any number of
workers and any trace whose operations depend on earlier ones.  The driver's invariant:
the queue holds the last operations submitted in order, every busy worker has an operation
of its own, and an operation with the adapter has its dependencies behind it.
`DependenciesReturnedHolds` is this for the whole ancestry, which is shown to be the least
closed set.  `SqlHarnessProofs` adds the adapter's: there is one row for each operation
committed, at the step at which it says so; what had returned when a call began has the
smaller number and the earlier row; and without errors no connection is lost.
`RowsAreClosedHolds` uses that the row of the dependency was there when the insert was
reached, and that rows are only added.
`HarnessedStoreProofs` has every intermediate step of `apply_op` and `write`: copies
of the frontier hold stored events, an event is logged once, the events that one
supersedes were logged before it, and the commit numbers of accepted operations exceed
those of their dependencies.  `NothingLostByThreadsHolds` goes by the position of an event
in the log: what replaces it was logged later, so the last event without a chain to a
current one would be replaced by one that has such a chain.  For `FreshWritesAreAtomicHolds` CausalStore's counters are read
off the unlocked ones and the workers between load and store.

**Live capture** (`LiveCaptureProofs`), for any responders, positions, delays and
number of runs.  "Every responder is counted once" needs to know where every answer
is: the invariant says that a thread that waits has no receipt and no error yet, that
one that received has exactly one receipt and no error, and that a reply or a draft
for an open connection is of this run.  Messages carry times, and the invariant has
the lower bounds light imposes on each stage: a thread waits only from two light
times on, and a draft of this run is stamped from three on.
`OnlyEmitterClockRejectsHolds` adds that a receipt's uncertainty is the one its node
measured.

Assumptions, `ASSUME`d in the modules that declare the constants: `C` is a positive
integer; times are integers and places integer points; events have a key, and claims are
sets of events; a registry is finite, and so is the ledger's set of events; the field of a
commitment has prime order; a ship's clock runs forward (the velocity and the potential
are small against the square of the speed of light); the memory's order is strict;
workers are a finite set, and traces are those of `generate_trace`, or, for the SQL
point, sequences of operations that depend on earlier ones.

**Recursion.**  Recursive functions (the ceiling loops, the bisections, the search, the
generator of traces, ancestry and provenance) are proved about without induction
over data: a solution of the recursive equation is exhibited, as a least closed set, as
a closed form, or as the iteration of one step (`IterationExists`), and what every
solution satisfies is shown by a smallest counterexample (`SmallestOf`).

**Only model-checked.**  Liveness: `PointEnds`, `CaptureEnds`, which need fairness and
`ENABLED`.  Every other property of a passing run is also a theorem.

**What the models leave out.**  LiveCapture: `--responders` is a set, so the same node
listed twice is not modelled; the backlog of eight connections is never full;
connections of strangers and the `ERROR` reply to them; a message is one piece;
signatures and registered positions are those of honest nodes; an answer that is not a
receipt is one that `_one` counts as an error (a `RECEIPT` without its receipt raises
`KeyError`, an answer that is no JSON object `AttributeError`; `_one` catches neither, and
that responder would not be counted at all).  SpaceLink: the ship flies along one axis,
and its clock's rate is constant.  Beacon: at most one entry is spoilt.  Trajectories:
inputs the provider calls invalid (negative counters or uncertainties) are not given to
it; `ProviderIsCertain` promises nothing of `equivalent`, which the provider says of equal
readings whatever their uncertainty.  Certificates: a claim is restated, and a receipt
altered, in one way each.
SqlHarness: the three SQL systems differ in their DSN only; a serialization failure is
one of the errors.

## 5. Plan

1. Done: every component of the inventory; and every safety property and action
   property of the passing runs as a theorem.
2. Next, what the proofs are still silent about: that a retry of `put` or `write` is
   answered as the first call was; that a full backlog of connections changes nothing in
   LiveCapture; ships that fly in more than one dimension in SpaceLink.
3. The steps on which `PointEnds` and `CaptureEnds` rest as safety statements: some
   operation at the head of the queue can always run, and a bound on the steps that are
   left.
