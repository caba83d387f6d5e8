---------------------------- MODULE LiveCapture ----------------------------
(***************************************************************************)
(* scripts/live_orchestrate.py: an emitter stamps t0, asks every responder   *)
(* for a signed receipt, one thread and one connection each, and writes what *)
(* came back; scripts/verify_live.py then certifies the capture or refuses.  *)
(*                                                                         *)
(* A run's clock starts at its emission: `now` is the true time since then,  *)
(* and every node reads it with an error of its own, constant during a run    *)
(* and no larger than the uncertainty it measures.  A receipt records when it  *)
(* was really stamped; what its node reads there, under the clock errors e,     *)
(* is ReadAt.  No step but the verification depends on the errors, so they are   *)
(* chosen there.  The event hash a receipt signs binds the  *)
(* run's payload, t0 and p0, and is modelled as the number of the run.  Keys   *)
(* and registry positions are those of honest nodes, so the signature and      *)
(* position gates pass.                                                        *)
(***************************************************************************)
EXTENDS TimingGates, FiniteSets, Sequences

CONSTANTS Responders, Emitter,   \* registry nodes
          Pos, U,                \* node |-> position, measured_u_ns
          ClockErrors,           \* the functions node |-> clock error to consider
          Unsynced,              \* nodes where chronyc may be unavailable
          Timeout,               \* --timeout, of a connect and of a receive
          StampTime,             \* bound: what reading chrony takes before the threads start
          MaxTime,               \* bound on `now`; beyond every timeout
          Runs                   \* bound: captures made one after the other

Nodes == Responders \cup {Emitter}

ASSUME LiveAssumption ==
    /\ IsFiniteSet(Responders) /\ Emitter \notin Responders
    /\ Unsynced \subseteq Nodes /\ Pos \in [Nodes -> Point] /\ U \in [Nodes -> Nat]
    /\ \A e \in ClockErrors : \A n \in Nodes : e[n] \in (-U[n])..U[n]
    /\ Timeout \in Nat \ {0} /\ StampTime \in Nat /\ Runs \in Nat
    /\ MaxTime \in Nat /\ MaxTime > StampTime + 2 * Timeout

VARIABLES
    run, phase, \* the capture being made, and how far the emitter is
    now,        \* true time since the emission of this run
    thread,     \* responder |-> what its _one thread does
    since,      \* responder |-> when the thread's socket operation began
    receipts, errors,                    \* what the threads have appended
    queue, serving, stage, draft,        \* a responder: backlog, connection, step, receipt made
    reply,      \* responder |-> the answer on its way to the waiting thread
    certificate \* what verifying the capture came to; "refused": none is written

emitter == <<run, phase, thread, since, receipts, errors>>
responder == <<queue, serving, stage, draft>>
vars == <<emitter, now, responder, reply, certificate>>

NoBudget == -1                       \* no measured_u_ns

\* read_chrony_tracking: the sum of what chronyc reports, at least 1 us, or
\* nothing when it is missing, fails, hangs or prints what does not parse.
Budgets(n) == {U[n]} \cup (IF n \in Unsynced THEN {NoBudget} ELSE {})
NoReceipt == [node |-> Emitter, run |-> 0, at |-> 0, u |-> NoBudget]
NoReply == [receipt |-> NoReceipt, due |-> 0]

Receipt == [node : Nodes, run : 0..Runs, at : Nat, u : Nat \cup {NoBudget}]

Light(n) == MinLightTime(Pos[Emitter], Pos[n])

TypeOK ==
    /\ run \in 0..Runs /\ now \in 0..MaxTime
    /\ phase \in {"idle", "stamping", "collecting", "written"}
    /\ thread \in [Responders -> {"none", "connecting", "waiting", "received", "failed"}]
    /\ since \in [Responders -> Nat]
    /\ receipts \subseteq Receipt /\ errors \subseteq Responders
    /\ queue \in [Responders -> Seq(1..Runs)] /\ serving \in [Responders -> 0..Runs]
    /\ stage \in [Responders -> {"accepting", "serving", "stamped", "dead"}]
    /\ draft \in [Responders -> Receipt]
    /\ reply \in [Responders -> [receipt : Receipt, due : Nat]]
    /\ certificate \in {"unverified", "refused", "APPARATUS_LIMITED", "PASS"}

Init ==
    /\ run = 0 /\ phase = "idle" /\ now = 0
    /\ thread = [n \in Responders |-> "none"] /\ since = [n \in Responders |-> 0]
    /\ receipts = {} /\ errors = {}
    /\ queue = [n \in Responders |-> <<>>] /\ serving = [n \in Responders |-> 0]
    /\ stage = [n \in Responders |-> "accepting"] /\ draft = [n \in Responders |-> NoReceipt]
    /\ reply = [n \in Responders |-> NoReply]
    /\ certificate = "unverified"

---------------------------------------------------------------------------
(* The emitter. *)

\* t0 is read before anything is sent: the run's time starts here.
Emit ==
    /\ phase \in {"idle", "written"} /\ run < Runs
    /\ run' = run + 1 /\ phase' = "stamping" /\ now' = 0
    /\ thread' = [n \in Responders |-> "none"] /\ since' = [n \in Responders |-> 0]
    /\ receipts' = {} /\ errors' = {} /\ certificate' = "unverified"
    /\ reply' = [n \in Responders |-> NoReply]
    /\ UNCHANGED responder

\* The emitter's own receipt, unless --no-self-receipt; then all threads start.
StartThreads ==
    /\ phase = "stamping"
    /\ \/ \E u \in Budgets(Emitter) :
            receipts' = {[node |-> Emitter, run |-> run, at |-> now, u |-> u]}
       \/ receipts' = {}
    /\ phase' = "collecting"
    /\ thread' = [n \in Responders |-> "connecting"] /\ since' = [n \in Responders |-> now]
    /\ UNCHANGED <<run, errors, now, responder, reply, certificate>>

\* The handshake takes a round trip; sendall then only fills the socket's buffer.
Connect(n) ==
    /\ thread[n] = "connecting" /\ stage[n] # "dead"
    /\ now >= since[n] + 2 * Light(n)
    /\ thread' = [thread EXCEPT ![n] = "waiting"] /\ since' = [since EXCEPT ![n] = now]
    /\ queue' = [queue EXCEPT ![n] = Append(@, run)]
    /\ UNCHANGED <<run, phase, receipts, errors, now, serving, stage, draft, reply, certificate>>

\* A mutated form of Awaiting: the answer is taken from a thread that gave up.
AwaitingOrLate(n) == thread[n] \in {"waiting", "failed"}
Awaiting(n) == thread[n] = "waiting"

\* The lock makes a thread's updates one step.
ReceiveReply(n) ==
    /\ Awaiting(n) /\ reply[n] # NoReply /\ now >= reply[n].due
    /\ receipts' = receipts \cup {reply[n].receipt}
    /\ thread' = [thread EXCEPT ![n] = "received"] /\ since' = [since EXCEPT ![n] = 0]
    /\ reply' = [reply EXCEPT ![n] = NoReply]
    /\ UNCHANGED <<run, phase, errors, now, responder, certificate>>

Fail(n) ==
    /\ errors' = errors \cup {n}
    /\ thread' = [thread EXCEPT ![n] = "failed"] /\ since' = [since EXCEPT ![n] = 0]
    /\ UNCHANGED <<run, phase, receipts, now, responder, reply, certificate>>

\* A mutated form of Overdue: the timeout is not set on the connected socket.
OverdueConnect(n) == thread[n] = "connecting" /\ now >= since[n] + Timeout
Overdue(n) == thread[n] \in {"connecting", "waiting"} /\ now >= since[n] + Timeout

TimesOut(n) == Overdue(n) /\ Fail(n)

\* Refused, unreachable, reset, or closed before the answer was complete.
Reset(n) == thread[n] \in {"connecting", "waiting"} /\ Fail(n)

\* All threads joined: the capture is written, whatever it holds.
Write ==
    /\ phase = "collecting"
    /\ \A n \in Responders : thread[n] \in {"received", "failed"}
    /\ phase' = "written" /\ now' = 0
    /\ UNCHANGED <<run, thread, since, receipts, errors, responder, reply, certificate>>

---------------------------------------------------------------------------
(* A responder: one connection at a time, in the order they were made. *)

Accept(n) ==
    /\ stage[n] = "accepting" /\ queue[n] # <<>>
    /\ serving' = [serving EXCEPT ![n] = Head(queue[n])]
    /\ queue' = [queue EXCEPT ![n] = Tail(@)]
    /\ stage' = [stage EXCEPT ![n] = "serving"]
    /\ UNCHANGED <<emitter, now, draft, reply, certificate>>

\* A mutated form of StillOpen: answers are matched to the host, not the run.
StillOpenAnyRun(n) == thread[n] = "waiting"
\* The emitter still holds the connection being served.
StillOpen(n) == thread[n] = "waiting" /\ serving[n] = run

\* The request has arrived, no sooner than light takes; it is stamped and signed.
Stamp(n) ==
    /\ stage[n] = "serving"
    /\ StillOpen(n) => now >= since[n] + Light(n)
    /\ \E u \in Budgets(n) :
         draft' = [draft EXCEPT ![n] = [node |-> n, run |-> serving[n], at |-> now, u |-> u]]
    /\ stage' = [stage EXCEPT ![n] = "stamped"]
    /\ UNCHANGED <<emitter, now, queue, serving, reply, certificate>>

\* No complete request came before the receive timed out or the peer went away.
BadRequest(n) ==
    /\ stage[n] = "serving"
    /\ stage' = [stage EXCEPT ![n] = "accepting"]
    /\ UNCHANGED <<emitter, now, queue, serving, draft, reply, certificate>>

\* The answer is sent outside the try: with the peer gone it is lost, or the send
\* raises and ends the process.
Answer(n) ==
    /\ stage[n] = "stamped"
    /\ IF StillOpen(n)
       THEN /\ stage' = [stage EXCEPT ![n] = "accepting"]
            /\ reply' = [reply EXCEPT ![n] = [receipt |-> draft[n], due |-> now + Light(n)]]
       ELSE /\ \E s \in {"accepting", "dead"} : stage' = [stage EXCEPT ![n] = s]
            /\ UNCHANGED reply
    /\ draft' = [draft EXCEPT ![n] = NoReceipt]
    /\ UNCHANGED <<emitter, now, queue, serving, certificate>>

---------------------------------------------------------------------------
(* verify_live.py, on the capture just written. *)

\* recv_time_ns - t0_ns: both clocks' errors are in it.
ReadAt(r, e) == (r.at + e[r.node]) - e[Emitter]

Classified(r, e) ==
    classify(ReadAt(r, e), r.u, Light(r.node), TransitTime(Pos[Emitter], Pos[r.node], 3, 5))

Contributors == {r.node : r \in receipts}

\* authenticated_measured_u: the contributors whose signed body holds no
\* measured_u_ns; there is no nominal value to fall back on.
missing == {n \in Contributors : \A r \in receipts : r.node = n => r.u = NoBudget}

\* verify_capture: no receipt, a node that contributed twice and a receipt that
\* does not bind this run's event reject; otherwise the worst verdict counts.
aggregate(e) ==
    LET verdicts == {IF r.run = run THEN Classified(r, e) ELSE "REJECTED" : r \in receipts}
    IN  IF receipts = {} \/ Cardinality(Contributors) # Cardinality(receipts) \/ "REJECTED" \in verdicts
        THEN "REJECTED"
        ELSE IF "APPARATUS_LIMITED" \in verdicts THEN "APPARATUS_LIMITED" ELSE "PASS"

\* A rejected run is not certified, nor is one of fewer than three nodes
\* (gate H8-LIVE-A); the other gates repeat what was tested before.
verify_live(e) ==
    IF missing # {} \/ aggregate(e) = "REJECTED" \/ Cardinality(Contributors) < 3
    THEN "refused"
    ELSE aggregate(e)

Verify ==
    /\ phase = "written" /\ certificate = "unverified"
    /\ \E e \in ClockErrors : certificate' = verify_live(e)
    /\ UNCHANGED <<emitter, now, responder, reply>>

---------------------------------------------------------------------------

\* Time passes, but not beyond a socket timeout that is due.
Tick ==
    /\ phase \in {"stamping", "collecting"} /\ now < MaxTime
    /\ phase = "stamping" => now < StampTime
    /\ \A n \in Responders : ~Overdue(n)
    /\ now' = now + 1
    /\ UNCHANGED <<emitter, responder, reply, certificate>>

EmitterNext ==
    \/ Emit \/ StartThreads \/ Write
    \/ \E n \in Responders : Connect(n) \/ ReceiveReply(n) \/ TimesOut(n) \/ Reset(n)

ResponderNext == \E n \in Responders : Accept(n) \/ Stamp(n) \/ BadRequest(n) \/ Answer(n)

Next == EmitterNext \/ ResponderNext \/ Verify \/ Tick

\* The emitter's main thread runs, its socket timeouts fire, and time passes.
\* Nothing is assumed about the responders or the network.
Fairness ==
    /\ WF_vars(Tick) /\ WF_vars(StartThreads) /\ WF_vars(Write)
    /\ \A n \in Responders : WF_vars(TimesOut(n))

Spec == Init /\ [][Next]_vars /\ Fairness

---------------------------------------------------------------------------
(* Properties. *)

\* When a capture is written, every responder has been counted exactly once, with
\* a receipt or with an error, however late its answer or its failure came.
EveryResponderCounted ==
    phase = "written" =>
      \A n \in Responders :
        /\ n \in errors <=> n \notin Contributors
        /\ Cardinality({r \in receipts : r.node = n}) <= 1

\* What a capture holds was stamped for this capture: by the run's claim, and
\* after a handshake and a request that started after t0 - never by a responder
\* that is still busy with an earlier run.
ReceiptsFollowEmission ==
    \A r \in receipts :
      /\ r.run = run
      /\ r.node # Emitter => r.at >= 3 * Light(r.node)

\* A receipt of an honest node is called impossible only because the emitter's
\* clock ran ahead by more than the light takes there and back.
OnlyEmitterClockRejects ==
    \A r \in receipts, e \in ClockErrors :
      r.u # NoBudget /\ Classified(r, e) = "REJECTED" => e[Emitter] > 2 * Light(r.node)

\* No honest receipt is rejected: every clock is within the uncertainty it
\* measured.
HonestNeverRejected ==
    \A r \in receipts, e \in ClockErrors : r.u # NoBudget => Classified(r, e) # "REJECTED"

\* Every capture that is begun is written, even when responders hang, die or are
\* busy with the connections of an earlier run.
CaptureEnds == phase \in {"stamping", "collecting"} ~> phase = "written"
=============================================================================
