---------------------------- MODULE Measurement ----------------------------
(***************************************************************************)
(* One measurement and what it was in truth.  Receive: a receipt claims a    *)
(* signal from p0; it really took `elapsed`, and the clock readings differ   *)
(* by that plus an error within the declared uncertainty u.  Challenge: a    *)
(* prover, really at q, claims p; each verifier times its own challenge.     *)
(* RunSession: db_sim.py's sessions, in which agents that are in several      *)
(* places may answer for one claim.  The verdicts of TimingGates see the      *)
(* readings only; the properties compare them with the truth.                *)
(***************************************************************************)
EXTENDS TimingGates

CONSTANTS Emitters, Stations,   \* points
          Agents,               \* the points of the sessions
          Uncertainties,        \* declared u_ns
          MaxElapsed,           \* bound: the true time a signal takes
          MaxDelay,             \* bound: how long a prover waits before it answers
          Proc,                 \* proc_ns, the processing time a prover is granted
          Num, Den              \* the speed in fibre, C * Num / Den

ASSUME MeasurementAssumption ==
    /\ Emitters \subseteq Point /\ Stations \subseteq Point /\ Agents \subseteq Point
    /\ Uncertainties \subseteq Nat /\ MaxElapsed \in Nat /\ MaxDelay \in Nat /\ Proc \in Nat
    /\ Num \in Nat \ {0} /\ Den \in Nat \ {0} /\ Num <= Den

NoMeasurement == [kind |-> "none"]

VARIABLE measured

vars == <<measured>>

Receipts ==
    [kind : {"receipt"}, p0 : Emitters, station : Stations, elapsed : Nat, u : Uncertainties, err : Int]
Rounds ==
    [kind : {"round"}, p : Stations, q : Stations, delay : Nat, u : Uncertainties, err : Int]
Sessions ==
    [kind : {"session"}, p : Agents, at : [Emitters -> Agents], delayed : BOOLEAN]

TypeOK == measured \in {NoMeasurement} \cup Receipts \cup Rounds \cup Sessions

Init == measured = NoMeasurement

Receive ==
    \E p0 \in Emitters, s \in Stations, e \in 0..MaxElapsed, u \in Uncertainties :
      \E err \in (-u)..u :
        measured' = [kind |-> "receipt", p0 |-> p0, station |-> s, elapsed |-> e, u |-> u, err |-> err]

Challenge ==
    \E p \in Stations, q \in Stations, d \in 0..MaxDelay, u \in Uncertainties :
      \E err \in (-u)..u :
        measured' = [kind |-> "round", p |-> p, q |-> q, delay |-> d, u |-> u, err |-> err]

\* One prover, where it claims to be or elsewhere, answers at once or delays to the
\* deadline; a pair, which shares the answers, delays.
RunSession ==
    \E p \in Agents, at \in [Emitters -> Agents], delayed \in BOOLEAN :
      /\ delayed \/ \A v, w \in Emitters : at[v] = at[w]
      /\ measured' = [kind |-> "session", p |-> p, at |-> at, delayed |-> delayed]

Next == measured = NoMeasurement /\ (Receive \/ Challenge \/ RunSession)

Spec == Init /\ [][Next]_vars

---------------------------------------------------------------------------
(* What the verdicts are given. *)

IsReceipt == measured.kind = "receipt"
IsRound == measured.kind = "round"
IsSession == measured.kind = "session"

\* t_recv - t0, as read.
dt == measured.elapsed + measured.err
vacuum_floor_ns == MinLightTime(measured.p0, measured.station)
typical_floor_ns == TransitTime(measured.p0, measured.station, Num, Den)

\* The challenge and the answer each take the light time, the answer waits.
rtt(v) == 2 * MinLightTime(v, measured.q) + measured.delay

\* _respond: the deadline, if the agent can wait for it, or as soon as light allows.
respond(v) ==
    LET floor == 2 * MinLightTime(v, measured.at[v]) + Proc
        deadline == deadline_ns(v, measured.p, Proc)
    IN  IF measured.delayed /\ deadline > floor THEN deadline ELSE floor

---------------------------------------------------------------------------
(* Properties. *)

\* A signal no faster than light is never called impossible, whatever the clock
\* error within the declared uncertainty: by measure.py, by capture_verify.py
\* and, once the readings are in order, by latency_gate.py, whose band adds no
\* doubt to it.
HonestSignalSurvives ==
    IsReceipt /\ measured.elapsed >= vacuum_floor_ns =>
      /\ budget_witness(dt, measured.u, vacuum_floor_ns, typical_floor_ns) # "REJECTED"
      /\ classify(dt, measured.u, vacuum_floor_ns, typical_floor_ns) # "REJECTED"
      /\ dt >= 0 => telemetry_consistent(dt, measured.u, 0, vacuum_floor_ns) = "ADMITTED"

\* A receipt that capture_verify.py admits is resolved: every true duration the
\* readings allow is on one and the same side of fibre's floor.
AdmittedIsResolved ==
    IsReceipt /\ classify(dt, measured.u, vacuum_floor_ns, typical_floor_ns) = "ADMITTED" =>
      LET truths == {dt - err : err \in (-measured.u)..measured.u}
      IN  \/ \A t \in truths : t > typical_floor_ns
          \/ \A t \in truths : t < typical_floor_ns

\* A better clock cannot unresolve: what is admitted with one uncertainty is not
\* undecided with a smaller one on the same readings (the tier transition of H8
\* goes one way).
BetterClocksResolve ==
    IsReceipt /\ classify(dt, measured.u, vacuum_floor_ns, typical_floor_ns) = "ADMITTED" =>
      \A u \in 0..measured.u :
        classify(dt, u, vacuum_floor_ns, typical_floor_ns) # "APPARATUS_LIMITED"

\* A prover at the claimed place that takes exactly the granted time is admitted
\* by all verifiers together, and attested or at worst undecided by each when the
\* band covers the nanosecond that rounding each way can add (an answer read as
\* earlier than its challenge is refused before that).
HonestProverAdmitted ==
    IsRound /\ measured.q = measured.p /\ measured.delay = Proc =>
      /\ multilateration([v \in Emitters |-> rtt(v)], Proc, Emitters, measured.p) = "ADMITTED"
      /\ \A v \in Emitters :
           rtt(v) + measured.err >= 0 =>
             trajectory_attested(rtt(v) + measured.err, Proc, measured.u, 1, RoundTripTime(v, measured.p))
               # "REJECTED"

\* A prover farther from a verifier than its claim allows is rejected, however
\* quickly it answers: by the deadline in distance.py, and in latency_gate.py as
\* soon as it is farther by more than the band and the clock error.  With agents in
\* several places no verifier is answered from farther than the claim, in light
\* time; and agents that are near enough and wait are admitted, which is the
\* collusion that the gates do not claim to exclude.
FartherProverRejected ==
    /\ IsRound =>
      \A v \in Emitters :
        LET least == RoundTripTime(v, measured.q)
            required == RoundTripTime(v, measured.p)
        IN  /\ least > deadline_ns(v, measured.p, Proc) =>
                 multilateration([w \in Emitters |-> rtt(w)], Proc, Emitters, measured.p) = "REJECTED"
            /\ \A resolve \in 0..1 :
                 least > required + resolve + 2 * measured.u + Proc =>
                   trajectory_attested(rtt(v) + measured.err, Proc, measured.u, resolve, required) = "REJECTED"
    /\ IsSession =>
      LET verdict == multilateration([v \in Emitters |-> respond(v)], Proc, Emitters, measured.p)
          near(v) == MinLightTime(v, measured.at[v]) <= MinLightTime(v, measured.p)
      IN  /\ verdict = "ADMITTED" => \A v \in Emitters : near(v)
          /\ measured.delayed /\ (\A v \in Emitters : near(v)) => verdict = "ADMITTED"
=============================================================================
