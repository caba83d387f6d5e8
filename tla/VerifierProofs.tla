--------------------------- MODULE VerifierProofs ---------------------------
(***************************************************************************)
(* Proofs about the verifiers of horizon/: measured receipts and timing gates, *)
(* the two ceiling loops, the two floors and the provider, the envelope of a   *)
(* ship and the lineage of its link, bit commitment, the beacon, and cone      *)
(* certificates; for every speed of light, every geometry and every bound of   *)
(* the modules.                                                              *)
(***************************************************************************)
EXTENDS LightTimeLoops, SpaceLink, Commitment, Beacon, LightConeProofs, FiniteSetTheorems,
        SequenceTheorems

(* The floors are well defined: the ceiling search has a smallest answer. *)

LEMMA LeastTimeIsLeast ==
    ASSUME NEW speed \in Nat \ {0}, NEW rhs \in Nat
    PROVE  /\ LeastTime(speed, rhs) \in 0..rhs
           /\ (speed * LeastTime(speed, rhs)) * (speed * LeastTime(speed, rhs)) >= rhs
           /\ \A s \in Nat : (speed * s) * (speed * s) >= rhs => LeastTime(speed, rhs) <= s
<1> DEFINE Enough(t) == (speed * t) * (speed * t) >= rhs
           T == {t \in 0..rhs : Enough(t)}
<1>1. Enough(rhs)
  <2>1. speed * rhs \in Nat /\ speed * rhs >= rhs
    OBVIOUS
  <2>2. (speed * rhs) * (speed * rhs) >= rhs * rhs
    BY <2>1, SquareMonotone
  <2>3. rhs * rhs >= rhs
    <3>1. CASE rhs = 0
      BY <3>1
    <3>2. CASE rhs >= 1
      BY <3>2
    <3> QED
      BY <3>1, <3>2
  <2> QED
    BY <2>1, <2>2, <2>3
<1> HIDE DEF Enough
<1>2. T \in SUBSET Nat /\ T # {}
  <2>1. rhs \in T
    BY <1>1
  <2> QED
    BY <2>1
<1>3. \E m \in T : \A k \in T : m <= k
  <2> HIDE DEF T
  <2> QED
    BY <1>2, SmallestOf
<1>4. \E t \in 0..rhs : Enough(t) /\ \A s \in 0..rhs : Enough(s) => t <= s
  BY <1>3
<1>5. LeastTime(speed, rhs) = CHOOSE t \in 0..rhs : Enough(t) /\ \A s \in 0..rhs : Enough(s) => t <= s
  BY DEF LeastTime, Enough
<1> DEFINE m == LeastTime(speed, rhs)
<1>6. m \in 0..rhs /\ Enough(m) /\ \A s \in 0..rhs : Enough(s) => m <= s
  BY <1>4, <1>5
<1> HIDE DEF m
<1>7. \A s \in Nat : Enough(s) => m <= s
  BY <1>6
<1> QED
  BY <1>6, <1>7 DEF Enough, m

\* Out and back in whole nanoseconds: twice the light time reaches there and back,
\* and exceeds the exact round trip by at most one.
LEMMA RoundTripOfLightTime ==
    ASSUME NEW p \in Point, NEW q \in Point
    PROVE  /\ MinLightTime(p, q) \in Nat /\ RoundTripTime(p, q) \in Nat
           /\ Reaches(2 * MinLightTime(p, q), 4 * Dist2(p, q))
           /\ RoundTripTime(p, q) <= 2 * MinLightTime(p, q)
           /\ 2 * MinLightTime(p, q) <= RoundTripTime(p, q) + 1
<1> DEFINE d2 == Dist2(p, q)
           m == MinLightTime(p, q)
           r == RoundTripTime(p, q)
<1>1. C \in Nat \ {0} /\ d2 \in Nat /\ 4 * d2 \in Nat
  BY CAssumption, DistIsNatural
<1>2. m \in Nat /\ Reaches(m, d2) /\ \A s \in Nat : Reaches(s, d2) => m <= s
  BY LightTimeIsExact DEF IsLightTime
<1>3. r \in Nat /\ Reaches(r, 4 * d2) /\ \A s \in Nat : Reaches(s, 4 * d2) => r <= s
  <2> HIDE DEF d2
  <2>1. r = LeastTime(C, 4 * d2)
    BY DEF RoundTripTime, d2
  <2> HIDE DEF r
  <2> QED
    BY <1>1, <2>1, LeastTimeIsLeast DEF Reaches
<1> HIDE DEF d2, m, r
<1>4. \A s \in Nat : Reaches(2 * s, 4 * d2) <=> Reaches(s, d2)
  <2> SUFFICES ASSUME NEW s \in Nat PROVE Reaches(2 * s, 4 * d2) <=> Reaches(s, d2)
    OBVIOUS
  <2>1. (C * (2 * s)) * (C * (2 * s)) = 4 * ((C * s) * (C * s)) /\ (C * s) * (C * s) \in Nat
    BY <1>1
  <2> QED
    BY <1>1, <2>1 DEF Reaches
<1>5. Reaches(2 * m, 4 * d2) /\ r <= 2 * m
  BY <1>2, <1>3, <1>4
<1>6. 2 * m <= r + 1
  <2> SUFFICES ASSUME r <= 2 * m - 2 PROVE FALSE
    BY <1>2, <1>3
  <2>1. m - 1 \in Nat
    BY <1>2, <1>3
  <2>2. C * r \in Nat /\ C * (2 * (m - 1)) \in Nat /\ C * r <= C * (2 * (m - 1))
    <3> DEFINE k == 2 * (m - 1)
    <3>1. k \in Nat /\ r <= k
      BY <1>2, <1>3, <2>1
    <3> HIDE DEF k
    <3>2. C * r \in Nat /\ C * k \in Nat /\ C * r <= C * k
      BY <1>1, <1>3, <3>1, ProductMonotone
    <3> QED
      BY <3>2 DEF k
  <2>3. (C * r) * (C * r) <= (C * (2 * (m - 1))) * (C * (2 * (m - 1)))
    BY <2>2, SquareMonotone
  <2>4. (C * r) * (C * r) \in Nat /\ (C * (2 * (m - 1))) * (C * (2 * (m - 1))) \in Nat
    BY <2>2
  <2>5. Reaches(2 * (m - 1), 4 * d2)
    BY <1>1, <1>3, <2>3, <2>4 DEF Reaches
  <2>6. m <= m - 1
    BY <1>2, <1>4, <2>1, <2>5
  <2> QED
    BY <1>2, <2>6
<1> QED
  BY <1>2, <1>3, <1>5, <1>6 DEF d2, m, r

---------------------------------------------------------------------------
(* Every measurement keeps the error within the declared uncertainty. *)

MeasurementInv ==
    /\ TypeOK
    /\ IsReceipt \/ IsRound => measured.err \in (-measured.u)..measured.u

LEMMA KindsDiffer ==
    /\ \A r \in Receipts : r.kind = "receipt" /\ r # NoMeasurement
    /\ \A r \in Rounds : r.kind = "round" /\ r # NoMeasurement
    /\ \A r \in Sessions : r.kind = "session" /\ r # NoMeasurement
    /\ NoMeasurement.kind = "none"
BY DEF Receipts, Rounds, Sessions, NoMeasurement

THEOREM MeasurementInvariance == Spec => []MeasurementInv
<1>1. Init => MeasurementInv
  BY DEF Init, MeasurementInv, TypeOK, NoMeasurement, IsReceipt, IsRound
<1>2. MeasurementInv /\ [Next]_vars => MeasurementInv'
  <2> SUFFICES ASSUME MeasurementInv, [Next]_vars PROVE MeasurementInv'
    OBVIOUS
  <2> USE MeasurementAssumption
  <2>1. CASE Receive
    <3>0. PICK p0 \in Emitters, s \in Stations, e \in 0..MaxElapsed, u \in Uncertainties : \E err \in (-u)..u :
            measured' = [kind |-> "receipt", p0 |-> p0, station |-> s, elapsed |-> e, u |-> u, err |-> err]
      BY <2>1 DEF Receive
    <3>1. PICK err \in (-u)..u :
            measured' = [kind |-> "receipt", p0 |-> p0, station |-> s, elapsed |-> e, u |-> u, err |-> err]
      BY <3>0
    <3>2. measured' \in Receipts
      BY <3>1 DEF Receipts
    <3>3. measured'.err \in (-measured'.u)..measured'.u
      BY <3>1
    <3> QED
      BY <3>2, <3>3 DEF MeasurementInv, TypeOK
  <2>2. CASE Challenge
    <3>0. PICK p \in Stations, q \in Stations, d \in 0..MaxDelay, u \in Uncertainties : \E err \in (-u)..u :
            measured' = [kind |-> "round", p |-> p, q |-> q, delay |-> d, u |-> u, err |-> err]
      BY <2>2 DEF Challenge
    <3>1. PICK err \in (-u)..u :
            measured' = [kind |-> "round", p |-> p, q |-> q, delay |-> d, u |-> u, err |-> err]
      BY <3>0
    <3>2. measured' \in Rounds
      BY <3>1 DEF Rounds
    <3>3. measured'.err \in (-measured'.u)..measured'.u
      BY <3>1
    <3> QED
      BY <3>2, <3>3 DEF MeasurementInv, TypeOK
  <2>3. CASE RunSession
    <3>1. PICK p \in Agents, at \in [Emitters -> Agents], delayed \in BOOLEAN :
            measured' = [kind |-> "session", p |-> p, at |-> at, delayed |-> delayed]
      BY <2>3 DEF RunSession
    <3>2. measured' \in Sessions
      BY <3>1 DEF Sessions
    <3>3. measured'.kind = "session"
      BY <3>1
    <3> QED
      BY <3>2, <3>3 DEF MeasurementInv, TypeOK, IsReceipt, IsRound
  <2>4. CASE UNCHANGED vars
    BY <2>4 DEF vars, MeasurementInv, TypeOK, IsReceipt, IsRound
  <2> QED
    BY <2>1, <2>2, <2>3, <2>4 DEF Next
<1> QED
  BY <1>1, <1>2, PTL DEF Spec

\* The numbers of a receipt.
LEMMA ReceiptNumbers ==
    ASSUME MeasurementInv, IsReceipt
    PROVE  /\ measured.elapsed \in Nat /\ measured.u \in Nat /\ measured.err \in Int
           /\ measured.err \in (-measured.u)..measured.u /\ dt \in Int
           /\ vacuum_floor_ns \in Nat /\ typical_floor_ns \in Nat
           /\ vacuum_floor_ns <= typical_floor_ns
<1> USE MeasurementAssumption
<1>1. measured \in Receipts /\ measured # NoMeasurement
  BY KindsDiffer DEF MeasurementInv, TypeOK, IsReceipt
<1>2. /\ measured.p0 \in Point /\ measured.station \in Point
      /\ measured.elapsed \in Nat /\ measured.u \in Nat /\ measured.err \in Int
  BY <1>1 DEF Receipts
<1> DEFINE d2 == Dist2(measured.p0, measured.station)
           v == vacuum_floor_ns
           t == typical_floor_ns
<1>3. /\ v \in Nat
      /\ \A s \in Nat : Reaches(s, d2) => v <= s
  BY <1>2, LightTimeIsExact DEF IsLightTime, vacuum_floor_ns
<1>4. d2 \in Nat
  BY <1>2, DistIsNatural
<1>5. t = LeastTime(C * Num, Den * Den * d2)
  BY DEF typical_floor_ns, TransitTime
<1> HIDE DEF d2, v, t
<1>6. C * Num \in Nat \ {0} /\ Den * Den * d2 \in Nat
  BY <1>4, CAssumption
<1>7. t \in Nat /\ (C * Num * t) * (C * Num * t) >= Den * Den * d2
  <2> DEFINE speed == C * Num
             rhs == Den * Den * d2
  <2>1. speed \in Nat \ {0} /\ rhs \in Nat /\ t = LeastTime(speed, rhs)
    BY <1>5, <1>6
  <2> HIDE DEF speed, rhs
  <2>2. t \in Nat /\ (speed * t) * (speed * t) >= rhs
    BY <2>1, LeastTimeIsLeast
  <2> QED
    BY <2>2 DEF speed, rhs
<1>8. Reaches(t, d2)
  <2>1. C * t \in Nat /\ Num * (C * t) \in Nat /\ Den * (C * t) \in Nat /\ Num * (C * t) <= Den * (C * t)
    BY <1>7, CAssumption
  <2>2. (Num * (C * t)) * (Num * (C * t)) <= (Den * (C * t)) * (Den * (C * t))
    BY <2>1, SquareMonotone
  <2> DEFINE w == C * t
             s == w * w
             dd == Den * Den
  <2>3. (Num * w) * (Num * w) >= dd * d2
    BY <1>7, CAssumption
  <2>4. (Den * w) * (Den * w) = dd * s
    BY <2>1
  <2>5. s \in Nat /\ dd \in Nat \ {0} /\ (Num * w) * (Num * w) \in Nat
    BY <2>1
  <2> HIDE DEF s, dd
  <2>6. dd * d2 <= dd * s
    BY <1>4, <2>2, <2>3, <2>4, <2>5
  <2>7. d2 <= s
    BY <1>4, <2>5, <2>6
  <2> QED
    BY <2>7 DEF Reaches, s
<1> QED
  BY <1>1, <1>2, <1>3, <1>7, <1>8 DEF v, t, dt, MeasurementInv

---------------------------------------------------------------------------
(* The verdicts. *)

\* A real signal within its declared uncertainty is never called impossible.
THEOREM HonestSignalSurvivesHolds == Spec => []HonestSignalSurvives
<1>1. MeasurementInv => HonestSignalSurvives
  <2> SUFFICES ASSUME MeasurementInv, IsReceipt, measured.elapsed >= vacuum_floor_ns
               PROVE  HonestSignalSurvives
    BY DEF HonestSignalSurvives
  <2> DEFINE u == measured.u
             v == vacuum_floor_ns
             t == typical_floor_ns
             d == dt
  <2>1. u \in Nat /\ d \in Int /\ v \in Nat /\ t \in Nat /\ d + u >= v /\ v <= t
    BY ReceiptNumbers DEF dt
  <2> HIDE DEF u, v, t, d
  <2>2. budget_witness(d, u, v, t) # "REJECTED"
    BY <2>1 DEF budget_witness
  <2>3. classify(d, u, v, t) # "REJECTED"
    BY <2>1 DEF classify
  <2>4. d >= 0 => telemetry_consistent(d, u, 0, v) = "ADMITTED"
    BY <2>1 DEF telemetry_consistent
  <2> QED
    BY <2>2, <2>3, <2>4 DEF HonestSignalSurvives, u, v, t, d
<1> QED
  BY <1>1, MeasurementInvariance, PTL

\* An admitted receipt is on a known side of fibre's floor.
THEOREM AdmittedIsResolvedHolds == Spec => []AdmittedIsResolved
<1>1. MeasurementInv => AdmittedIsResolved
  <2> SUFFICES ASSUME MeasurementInv, IsReceipt,
                      classify(dt, measured.u, vacuum_floor_ns, typical_floor_ns) = "ADMITTED"
               PROVE  AdmittedIsResolved
    BY DEF AdmittedIsResolved
  <2> DEFINE u == measured.u
             v == vacuum_floor_ns
             t == typical_floor_ns
             d == dt
             truths == {d - err : err \in (-u)..u}
  <2>1. u \in Nat /\ d \in Int /\ v \in Nat /\ t \in Nat /\ classify(d, u, v, t) = "ADMITTED"
    BY ReceiptNumbers
  <2> HIDE DEF u, v, t, d
  <2>2. d + u > t + 2 * u \/ d + u < t - 2 * u
    BY <2>1 DEF classify
  <2>3. (\A x \in truths : x > t) \/ (\A x \in truths : x < t)
    BY <2>1, <2>2
  <2> QED
    BY <2>3 DEF AdmittedIsResolved, u, v, t, d
<1> QED
  BY <1>1, MeasurementInvariance, PTL

\* A smaller uncertainty never makes an admitted receipt undecided.
THEOREM BetterClocksResolveHolds == Spec => []BetterClocksResolve
<1>1. MeasurementInv => BetterClocksResolve
  <2> SUFFICES ASSUME MeasurementInv, IsReceipt,
                      classify(dt, measured.u, vacuum_floor_ns, typical_floor_ns) = "ADMITTED",
                      NEW w \in 0..measured.u
               PROVE  classify(dt, w, vacuum_floor_ns, typical_floor_ns) # "APPARATUS_LIMITED"
    BY DEF BetterClocksResolve
  <2> DEFINE u == measured.u
             v == vacuum_floor_ns
             t == typical_floor_ns
             d == dt
  <2>1. /\ u \in Nat /\ d \in Int /\ v \in Nat /\ t \in Nat /\ w \in 0..u
        /\ classify(d, u, v, t) = "ADMITTED"
    BY ReceiptNumbers
  <2> HIDE DEF u, v, t, d
  <2>2. d + u > t + 2 * u \/ d + u < t - 2 * u
    BY <2>1 DEF classify
  <2>3. d + w > t + 2 * w \/ d + w < t - 2 * w
    BY <2>1, <2>2
  <2>4. classify(d, w, v, t) # "APPARATUS_LIMITED"
    BY <2>1, <2>3 DEF classify
  <2> QED
    BY <2>4 DEF v, t, d
<1> QED
  BY <1>1, MeasurementInvariance, PTL

\* The numbers of a round of distance bounding.
LEMMA RoundNumbers ==
    ASSUME MeasurementInv, IsRound
    PROVE  /\ measured.p \in Point /\ measured.q \in Point /\ measured.delay \in Nat
           /\ measured.u \in Nat /\ measured.err \in (-measured.u)..measured.u
BY MeasurementAssumption, KindsDiffer DEF MeasurementInv, TypeOK, IsRound, Rounds

\* An honest prover at the claimed place is admitted by all verifiers.
THEOREM HonestProverAdmittedHolds == Spec => []HonestProverAdmitted
<1>1. MeasurementInv => HonestProverAdmitted
  <2> SUFFICES ASSUME MeasurementInv, IsRound, measured.q = measured.p, measured.delay = Proc
               PROVE  HonestProverAdmitted
    BY DEF HonestProverAdmitted
  <2> USE MeasurementAssumption
  <2>1. ASSUME NEW v \in Emitters
        PROVE  /\ rtt_bound_witness(rtt(v), Proc, v, measured.p) = "ADMITTED"
               /\ rtt(v) + measured.err >= 0 =>
                    trajectory_attested(rtt(v) + measured.err, Proc, measured.u, 1,
                                        RoundTripTime(v, measured.p)) # "REJECTED"
    <3> DEFINE m == MinLightTime(v, measured.p)
               r == RoundTripTime(v, measured.p)
               u == measured.u
               err == measured.err
    <3>1. /\ m \in Nat /\ r \in Nat /\ r <= 2 * m /\ 2 * m <= r + 1
          /\ Reaches(2 * m, 4 * Dist2(v, measured.p))
      BY <2>1, RoundNumbers, RoundTripOfLightTime
    <3>2. rtt(v) = 2 * m + Proc /\ deadline_ns(v, measured.p, Proc) = 2 * m + Proc
      BY DEF rtt, deadline_ns
    <3>3. u \in Nat /\ err \in (-u)..u
      BY RoundNumbers
    <3> HIDE DEF m, r, u, err
    <3>4. rtt(v) - Proc = 2 * m /\ ~(rtt(v) < Proc) /\ ~(rtt(v) > deadline_ns(v, measured.p, Proc))
      BY <3>1, <3>2
    <3>5. rtt_bound_witness(rtt(v), Proc, v, measured.p) = "ADMITTED"
      BY <3>1, <3>4 DEF rtt_bound_witness
    <3>6. 2 * m + Proc + err >= 0 => trajectory_attested(2 * m + Proc + err, Proc, u, 1, r) # "REJECTED"
      BY <3>1, <3>3 DEF trajectory_attested
    <3> QED
      BY <3>2, <3>5, <3>6 DEF r, u, err
  <2> QED
    BY <2>1 DEF HonestProverAdmitted, multilateration
<1> QED
  BY <1>1, MeasurementInvariance, PTL

\* The points of a session.
LEMMA SessionPoints ==
    ASSUME MeasurementInv, IsSession
    PROVE  measured.p \in Point /\ \A v \in Emitters : measured.at[v] \in Point
<1>1. measured \in Sessions
  BY KindsDiffer DEF MeasurementInv, TypeOK, IsSession
<1> QED
  BY <1>1, MeasurementAssumption DEF Sessions

\* An agent of a session that is farther than the claim misses the deadline; one
\* that is not, and waits, meets both gates.
LEMMA SessionWitness ==
    ASSUME MeasurementInv, IsSession, NEW v \in Emitters
    PROVE  LET near == MinLightTime(v, measured.at[v]) <= MinLightTime(v, measured.p)
               verdict == rtt_bound_witness(respond(v), Proc, v, measured.p)
           IN  /\ ~near => verdict = "REJECTED"
               /\ near /\ measured.delayed => verdict = "ADMITTED"
<1> DEFINE a == MinLightTime(v, measured.at[v])
           m == MinLightTime(v, measured.p)
<1>1. /\ a \in Nat /\ m \in Nat /\ Proc \in Nat
      /\ Reaches(2 * m, 4 * Dist2(v, measured.p))
  BY SessionPoints, RoundTripOfLightTime, MeasurementAssumption
<1>2. deadline_ns(v, measured.p, Proc) = 2 * m + Proc
  BY DEF deadline_ns
<1>3. respond(v) = IF measured.delayed /\ 2 * m + Proc > 2 * a + Proc THEN 2 * m + Proc ELSE 2 * a + Proc
  BY <1>2 DEF respond
<1> HIDE DEF a, m
<1>4. ASSUME ~(a <= m) PROVE rtt_bound_witness(respond(v), Proc, v, measured.p) = "REJECTED"
  <2>1. respond(v) > 2 * m + Proc
    BY <1>1, <1>3, <1>4
  <2> QED
    BY <1>2, <2>1 DEF rtt_bound_witness
<1>5. ASSUME a <= m, measured.delayed PROVE rtt_bound_witness(respond(v), Proc, v, measured.p) = "ADMITTED"
  <2>1. respond(v) = 2 * m + Proc
    BY <1>1, <1>3, <1>5
  <2>2. respond(v) - Proc = 2 * m /\ ~(respond(v) < Proc) /\ ~(respond(v) > 2 * m + Proc)
    BY <1>1, <2>1
  <2> QED
    BY <1>1, <1>2, <2>2 DEF rtt_bound_witness
<1> QED
  BY <1>4, <1>5 DEF a, m

\* A prover farther away than the claim allows is rejected however it answers, and
\* so are agents of which one is.
THEOREM FartherProverRejectedHolds == Spec => []FartherProverRejected
<1>0. ASSUME MeasurementInv, IsSession
      PROVE  LET verdict == multilateration([v \in Emitters |-> respond(v)], Proc, Emitters, measured.p)
                 near(v) == MinLightTime(v, measured.at[v]) <= MinLightTime(v, measured.p)
             IN  /\ verdict = "ADMITTED" => \A v \in Emitters : near(v)
                 /\ measured.delayed /\ (\A v \in Emitters : near(v)) => verdict = "ADMITTED"
  BY <1>0, SessionWitness DEF multilateration
<1>1. MeasurementInv => FartherProverRejected
  <2> SUFFICES ASSUME MeasurementInv, IsRound, NEW v \in Emitters
               PROVE  LET least == RoundTripTime(v, measured.q)
                          required == RoundTripTime(v, measured.p)
                      IN  /\ least > deadline_ns(v, measured.p, Proc) =>
                               multilateration([w \in Emitters |-> rtt(w)], Proc, Emitters, measured.p) = "REJECTED"
                          /\ \A resolve \in 0..1 :
                               least > required + resolve + 2 * measured.u + Proc =>
                                 trajectory_attested(rtt(v) + measured.err, Proc, measured.u, resolve, required) = "REJECTED"
    BY <1>0 DEF FartherProverRejected
  <2> USE MeasurementAssumption
  <2> DEFINE m == MinLightTime(v, measured.q)
             least == RoundTripTime(v, measured.q)
             required == RoundTripTime(v, measured.p)
             u == measured.u
             err == measured.err
             delay == measured.delay
             due == deadline_ns(v, measured.p, Proc)
  <2>1. m \in Nat /\ least \in Nat /\ least <= 2 * m
    BY RoundNumbers, RoundTripOfLightTime
  <2>2. required \in Nat /\ due \in Nat
    BY RoundNumbers, RoundTripOfLightTime DEF deadline_ns
  <2>3. u \in Nat /\ err \in (-u)..u /\ delay \in Nat /\ rtt(v) = 2 * m + delay
    BY RoundNumbers DEF rtt
  <2> HIDE DEF m, least, required, u, err, delay, due
  <2>4. rtt(v) >= least /\ rtt(v) \in Nat
    BY <2>1, <2>3
  <2>5. ASSUME least > due
        PROVE  multilateration([w \in Emitters |-> rtt(w)], Proc, Emitters, measured.p) = "REJECTED"
    <3>1. rtt(v) > deadline_ns(v, measured.p, Proc)
      BY <2>1, <2>2, <2>4, <2>5 DEF due
    <3>2. rtt_bound_witness(rtt(v), Proc, v, measured.p) = "REJECTED"
      BY <3>1 DEF rtt_bound_witness
    <3> QED
      BY <3>2 DEF multilateration
  <2>6. ASSUME NEW resolve \in 0..1, least > required + resolve + 2 * u + Proc
        PROVE  trajectory_attested(rtt(v) + err, Proc, u, resolve, required) = "REJECTED"
    BY <2>1, <2>2, <2>3, <2>4, <2>6 DEF trajectory_attested
  <2> QED
    BY <2>5, <2>6 DEF least, required, u, err, due
<1> QED
  BY <1>1, MeasurementInvariance, PTL

---------------------------------------------------------------------------
(* The two floors *)

IsTriple(p) == p[1] \in Int /\ p[2] \in Int /\ p[3] \in Int

\* Distances are natural numbers, the same in both directions.
LEMMA SpanIsNatural ==
    ASSUME NEW p, NEW q, IsTriple(p), IsTriple(q)
    PROVE  Dist2(p, q) \in Nat /\ Dist2(p, q) = Dist2(q, p)
<1>1. \A i \in Int : i * i \in Nat
  OBVIOUS
<1>2. \A i \in {1, 2, 3} : /\ (q[i] - p[i]) * (q[i] - p[i]) \in Nat
                          /\ (q[i] - p[i]) * (q[i] - p[i]) = (p[i] - q[i]) * (p[i] - q[i])
  BY <1>1 DEF IsTriple
<1> QED
  BY <1>2 DEF Dist2

\* The triangle inequality, with bounds a and b on the lengths of the two sides.
LEMMA SpanTriangle ==
    ASSUME NEW p, NEW q, NEW r, IsTriple(p), IsTriple(q), IsTriple(r),
           NEW a \in Nat, NEW b \in Nat, a * a >= Dist2(p, q), b * b >= Dist2(q, r)
    PROVE  (a + b) * (a + b) >= Dist2(p, r)
<1> DEFINE d(i) == q[i] - p[i]
           e(i) == r[i] - q[i]
<1>1. /\ d(1) \in Int /\ d(2) \in Int /\ d(3) \in Int
      /\ e(1) \in Int /\ e(2) \in Int /\ e(3) \in Int
  BY DEF IsTriple
<1>2. /\ a * a >= d(1)*d(1) + d(2)*d(2) + d(3)*d(3)
      /\ b * b >= e(1)*e(1) + e(2)*e(2) + e(3)*e(3)
  BY DEF Dist2
<1>3. /\ r[1] - p[1] = d(1) + e(1)
      /\ r[2] - p[2] = d(2) + e(2)
      /\ r[3] - p[3] = d(3) + e(3)
  BY DEF IsTriple
<1> HIDE DEF d, e
<1>4. (a + b) * (a + b)
        >= (d(1)+e(1))*(d(1)+e(1)) + (d(2)+e(2))*(d(2)+e(2)) + (d(3)+e(3))*(d(3)+e(3))
  BY <1>1, <1>2, LengthOfSum
<1> QED
  BY <1>3, <1>4 DEF Dist2

\* From x to y by way of p and q.
LEMMA SpanByTwo ==
    ASSUME NEW x, NEW p, NEW q, NEW y, IsTriple(x), IsTriple(p), IsTriple(q), IsTriple(y),
           NEW a \in Nat, NEW b \in Nat, NEW c \in Nat,
           a * a >= Dist2(x, p), b * b >= Dist2(p, q), c * c >= Dist2(q, y)
    PROVE  (a + b + c) * (a + b + c) >= Dist2(x, y)
<1>1. (a + b) * (a + b) >= Dist2(x, q)
  BY SpanTriangle
<1>2. a + b \in Nat
  OBVIOUS
<1> HIDE DEF IsTriple
<1> QED
  BY <1>1, <1>2, SpanTriangle

\* A definitive verdict of two_floor_verdict is true of all places within the two
\* radii: what it admits light can cover from anywhere to anywhere, and what it
\* rejects light can cover from nowhere to nowhere.
THEOREM TwoFloorIsSound ==
    ASSUME NEW p, NEW q, NEW x, NEW y, IsTriple(p), IsTriple(q), IsTriple(x), IsTriple(y),
           NEW r1 \in Nat, NEW r2 \in Nat, NEW lapse \in Int,
           r1 * r1 >= Dist2(p, x), r2 * r2 >= Dist2(q, y)
    PROVE  /\ two_floor(lapse, p, r1, q, r2) = "ADMITTED" => CausallyAdmissible(0, x, lapse, y)
           /\ two_floor(lapse, p, r1, q, r2) = "REJECTED" => ~CausallyAdmissible(0, x, lapse, y)
<1> DEFINE r == r1 + r2
           L == C * lapse
           d2 == Dist2(p, q)
<1>1. r \in Nat /\ L \in Int /\ d2 \in Nat /\ (lapse >= 0 => L \in Nat)
  BY SpanIsNatural, CAssumption
<1>2. Dist2(x, p) = Dist2(p, x) /\ Dist2(y, q) = Dist2(q, y) /\ Dist2(x, y) \in Nat
  BY SpanIsNatural
<1>3. two_floor(lapse, p, r1, q, r2) = "ADMITTED" => lapse >= 0 /\ L >= r /\ (L - r) * (L - r) >= d2
  BY DEF two_floor
<1>4. two_floor(lapse, p, r1, q, r2) = "REJECTED" => lapse < 0 \/ (L + r) * (L + r) < d2
  BY DEF two_floor
<1>5. CausallyAdmissible(0, x, lapse, y) <=> lapse >= 0 /\ L * L >= Dist2(x, y)
  BY DEF CausallyAdmissible
<1> HIDE DEF L, d2, IsTriple
<1>6. ASSUME lapse >= 0, L >= r, (L - r) * (L - r) >= d2 PROVE L * L >= Dist2(x, y)
  <2>1. L - r \in Nat /\ r1 + (L - r) + r2 = L
    BY <1>1, <1>6
  <2>2. (r1 + (L - r) + r2) * (r1 + (L - r) + r2) >= Dist2(x, y)
    BY <1>2, <1>6, <2>1, SpanByTwo DEF d2
  <2> QED
    BY <2>1, <2>2
<1>7. ASSUME lapse >= 0, L * L >= Dist2(x, y) PROVE ~((L + r) * (L + r) < d2)
  <2>1. L \in Nat /\ r1 + L + r2 = L + r
    BY <1>1, <1>7
  <2>2. (r1 + L + r2) * (r1 + L + r2) >= d2
    BY <1>2, <1>7, <2>1, SpanByTwo DEF d2
  <2>3. (L + r) * (L + r) \in Nat
    BY <1>1, <2>1
  <2> QED
    BY <1>1, <2>1, <2>2, <2>3
<1> QED
  BY <1>3, <1>4, <1>5, <1>6, <1>7

\* What a case that module Trajectories looks at consists of.
TrajInv ==
    /\ subject.kind = "flyby" =>
         /\ subject.ship \in Ships /\ subject.steps \in Nat \ {0}
         /\ subject.hint \in {-1} \cup 0..Window
    /\ subject.kind = "places" =>
         /\ subject.p \in Centers /\ subject.q \in Centers
         /\ subject.r1 \in 0..MaxRadius /\ subject.r2 \in 0..MaxRadius /\ subject.dt \in Int
    /\ subject.kind = "clocks" =>
         /\ subject.a.pos_nm \in ClockPlaces /\ subject.b.pos_nm \in ClockPlaces
         /\ subject.a.u_ns \in 0..1 /\ subject.b.u_ns \in 0..1 /\ subject.lag \in Int
         /\ subject.a.time_ns \in (-subject.a.u_ns)..subject.a.u_ns
         /\ \E f \in (-subject.b.u_ns)..subject.b.u_ns : subject.b.time_ns = subject.lag + f

\* Every case is of its kind.
LEMMA TrajInvariance == TrajSpec => []TrajInv
<1>1. TrajInit => TrajInv
  BY DEF TrajInit, NoSubject, TrajInv
<1>2. TrajInv /\ [TrajNext]_trajVars => TrajInv'
  <2> SUFFICES ASSUME TrajInv, [TrajNext]_trajVars PROVE TrajInv'
    OBVIOUS
  <2>1. CASE Fly
    <3>1. PICK w \in Ships, b \in Bodies, r \in Radii, n \in ScanSteps, h \in {-1, Window \div 2} :
            subject' = [kind |-> "flyby", ship |-> w, body |-> b, radius |-> r, steps |-> n, hint |-> h]
      BY <2>1 DEF Fly
    <3>2. n \in Nat \ {0} /\ h \in {-1} \cup 0..Window
      <4>1. Window \in Nat /\ n \in Nat \ {0}
        BY TrajectoriesAssumption
      <4>2. Window \div 2 \in 0..Window
        BY <4>1
      <4> QED
        BY <4>1, <4>2
    <3> QED
      BY <3>1, <3>2 DEF TrajInv
  <2>2. CASE Locate
    BY <2>2, TrajectoriesAssumption DEF Locate, TrajInv
  <2>3. CASE Compare
    BY <2>3, TrajectoriesAssumption DEF Compare, TrajInv
  <2>4. CASE CompareVectors
    BY <2>4 DEF CompareVectors, TrajInv
  <2>5. CASE UNCHANGED trajVars
    BY <2>5 DEF trajVars, TrajInv
  <2> QED
    BY <2>1, <2>2, <2>3, <2>4, <2>5 DEF TrajNext
<1> QED
  BY <1>1, <1>2, PTL DEF TrajSpec

\* two_floor.py: a definitive verdict holds for every pair of places in the balls.
THEOREM VerdictHoldsEverywhereHolds == TrajSpec => []VerdictHoldsEverywhere
<1>1. TrajInv => VerdictHoldsEverywhere
  <2> SUFFICES ASSUME TrajInv, subject.kind = "places",
                      NEW x \in Around(subject.p, subject.r1), NEW y \in Around(subject.q, subject.r2)
               PROVE  LET verdict == two_floor(subject.dt, subject.p, subject.r1, subject.q, subject.r2)
                      IN  /\ verdict = "ADMITTED" => CausallyAdmissible(0, x, subject.dt, y)
                          /\ verdict = "REJECTED" => ~CausallyAdmissible(0, x, subject.dt, y)
    BY DEF VerdictHoldsEverywhere
  <2>1. /\ subject.p \in Point /\ subject.q \in Point /\ subject.dt \in Int
        /\ subject.r1 \in Nat /\ subject.r2 \in Nat
    BY TrajectoriesAssumption DEF TrajInv
  <2>2. ASSUME NEW c \in Point, NEW r \in Nat, NEW z \in Around(c, r)
        PROVE  IsTriple(c) /\ IsTriple(z) /\ r * r >= Dist2(c, z)
    <3>1. PICK o \in Ball : Dot(o, o) <= r * r /\ z = [i \in 1..3 |-> c[i] + o[i]]
      BY DEF Around
    <3>2. IsTriple(c) /\ IsTriple(o)
      BY <3>1, TrajectoriesAssumption DEF IsTriple, Point
    <3>3. z[1] = c[1] + o[1] /\ z[2] = c[2] + o[2] /\ z[3] = c[3] + o[3]
      BY <3>1
    <3>4. z[1] - c[1] = o[1] /\ z[2] - c[2] = o[2] /\ z[3] - c[3] = o[3]
      BY <3>2, <3>3 DEF IsTriple
    <3>5. Dist2(c, z) = Dot(o, o)
      BY <3>4 DEF Dist2, Dot
    <3>6. Dist2(c, z) \in Nat /\ IsTriple(z)
      BY <3>2, <3>3, SpanIsNatural DEF IsTriple
    <3> QED
      BY <3>1, <3>2, <3>5, <3>6
  <2> QED
    BY <2>1, <2>2, TwoFloorIsSound
<1> QED
  BY <1>1, TrajInvariance, PTL

---------------------------------------------------------------------------
(* The provider *)

\* Only a place and itself are at no light time from each other.
LEMMA NoLightTimeOneScene ==
    ASSUME NEW p \in Point, NEW q \in Point, MinLightTime(p, q) = 0
    PROVE  p = q
<1>1. Dist2(p, q) = 0
  <2>1. Reaches(0, Dist2(p, q)) /\ Dist2(p, q) \in Nat
    BY LightTimeIsExact, DistIsNatural DEF IsLightTime
  <2> QED
    BY <2>1, CAssumption DEF Reaches
<1>2. \A i \in Int : i * i >= 0 /\ (i * i = 0 => i = 0)
  OBVIOUS
<1>3. p[1] \in Int /\ p[2] \in Int /\ p[3] \in Int /\ q[1] \in Int /\ q[2] \in Int /\ q[3] \in Int
  BY DEF Point
<1> DEFINE d(i) == q[i] - p[i]
<1>4. d(1) \in Int /\ d(2) \in Int /\ d(3) \in Int
  BY <1>3
<1>5. d(1) * d(1) + d(2) * d(2) + d(3) * d(3) = 0
  BY <1>1 DEF Dist2
<1>6. d(1) * d(1) >= 0 /\ d(2) * d(2) >= 0 /\ d(3) * d(3) >= 0
      /\ d(1) * d(1) \in Int /\ d(2) * d(2) \in Int /\ d(3) * d(3) \in Int
  BY <1>2, <1>4
<1>7. d(1) * d(1) = 0 /\ d(2) * d(2) = 0 /\ d(3) * d(3) = 0
  <2> HIDE DEF d
  <2> QED
    BY <1>5, <1>6
<1>8. d(1) = 0 /\ d(2) = 0 /\ d(3) = 0
  <2> HIDE DEF d
  <2> QED
    BY <1>2, <1>4, <1>7
<1>9. p[1] = q[1] /\ p[2] = q[2] /\ p[3] = q[3]
  BY <1>3, <1>8
<1> QED
  BY <1>9 DEF Point

\* Admissibility is a comparison with the light time.
LEMMA AdmissibleFromLightTimeOn ==
    ASSUME NEW p \in Point, NEW q \in Point, NEW s \in Int, NEW t \in Int
    PROVE  CausallyAdmissible(s, p, t, q) <=> t - s >= MinLightTime(p, q)
<1>1. MinLightTime(p, q) \in Nat
  BY LightTimeIsExact DEF IsLightTime
<1>2. CASE t - s >= 0
  <2>1. t - s \in Nat
    BY <1>2
  <2>2. Reaches(t - s, Dist2(p, q)) <=> t - s >= MinLightTime(p, q)
    BY <2>1, ReachesFromLightTimeOn
  <2> QED
    BY <1>2, <2>2 DEF CausallyAdmissible, Reaches
<1>3. CASE ~(t - s >= 0)
  BY <1>1, <1>3 DEF CausallyAdmissible
<1> QED
  BY <1>2, <1>3

\* causal_kernel_provider.py: what the provider calls certain is true of the events
\* behind the clocks, symmetric, and never at odds with the store's orderings.
THEOREM ProviderIsCertainHolds == TrajSpec => []ProviderIsCertain
<1>1. ASSUME TrajInv, subject.kind = "clocks"
      PROVE  LET a == subject.a   b == subject.b
                 relation == classify_geometric(a, b)
             IN  /\ relation = "before" => CausallyAdmissible(0, a.pos_nm, subject.lag, b.pos_nm) /\ GeoResolves(a, b)
                 /\ relation = "spacelike" =>
                      /\ ~CausallyAdmissible(0, a.pos_nm, subject.lag, b.pos_nm)
                      /\ ~CausallyAdmissible(subject.lag, b.pos_nm, 0, a.pos_nm)
                 /\ classify_geometric(b, a) = Opposite(relation)
                 /\ GeoBefore(a, b) => relation = "before"
  <2> DEFINE a == subject.a
             b == subject.b
             p == a.pos_nm
             q == b.pos_nm
             F == MinLightTime(p, q)
             s == a.time_ns
             t == b.time_ns
             u == CombinedU(a, b)
             lag == subject.lag
             same == s = t /\ p = q
  <2>1. p \in Point /\ q \in Point /\ s \in Int /\ t \in Int /\ lag \in Int
    BY <1>1, TrajectoriesAssumption DEF TrajInv
  <2>2. u \in Nat /\ lag - u <= t - s /\ t - s <= lag + u
    <3>1. PICK f \in (-b.u_ns)..b.u_ns : t = lag + f
      BY <1>1 DEF TrajInv
    <3>2. s \in (-a.u_ns)..a.u_ns /\ a.u_ns \in Nat /\ b.u_ns \in Nat
      BY <1>1 DEF TrajInv
    <3> HIDE DEF s, t, a, b, lag
    <3> QED
      BY <2>1, <3>1, <3>2 DEF CombinedU
  <2>3. F \in Nat /\ MinLightTime(q, p) = F /\ (F = 0 => p = q)
    BY <2>1, LightTimeIsExact, LightTimeTriangle, NoLightTimeOneScene DEF IsLightTime
  <2>4. /\ CausallyAdmissible(0, p, lag, q) <=> lag >= F
        /\ CausallyAdmissible(lag, q, 0, p) <=> -lag >= F
        /\ CausallyAdmissible(s, p, t, q) <=> t - s >= F
    <3>1. lag - 0 = lag /\ 0 - lag = -lag
      BY <2>1
    <3> HIDE DEF p, q, s, t, lag
    <3> QED
      BY <2>1, <2>3, <3>1, AdmissibleFromLightTimeOn
  <2>5. u = CombinedU(b, a)
    <3>1. a.u_ns \in Nat /\ b.u_ns \in Nat
      BY <1>1 DEF TrajInv
    <3> QED
      BY <3>1 DEF CombinedU
  <2>6. classify_geometric(a, b) =
          CASE same -> "equivalent"
            [] OTHER ->
               CASE t - s + u < F /\ u - (t - s) < F -> "spacelike"
                 [] t - s - u >= F -> "before"
                 [] -(t - s) - u >= F /\ ~(t - s - u >= F) -> "after"
                 [] OTHER -> "apparatus_limited"
    BY DEF classify_geometric, Elapsed, Floor
  <2>7. classify_geometric(b, a) =
          CASE same -> "equivalent"
            [] OTHER ->
               CASE s - t + u < F /\ u - (s - t) < F -> "spacelike"
                 [] s - t - u >= F -> "before"
                 [] -(s - t) - u >= F /\ ~(s - t - u >= F) -> "after"
                 [] OTHER -> "apparatus_limited"
    <3>1. (t = s /\ q = p) <=> same
      OBVIOUS
    <3> QED
      BY <2>3, <2>5, <3>1 DEF classify_geometric, Elapsed, Floor
  <2>8. /\ GeoResolves(a, b) <=> t - s - u >= F \/ t - s + u < F
        /\ GeoBefore(a, b) <=> t > s /\ GeoResolves(a, b) /\ CausallyAdmissible(s, p, t, q)
    BY DEF GeoBefore, GeoResolves, Elapsed, Floor
  <2> HIDE DEF a, b, p, q, F, s, t, u, lag
  <2>9. same => s = t
    OBVIOUS
  <2>10. F = 0 /\ s = t => same
    BY <2>3
  <2> HIDE DEF same
  <2>11. classify_geometric(b, a) = Opposite(classify_geometric(a, b))
    BY <2>1, <2>2, <2>3, <2>6, <2>7, <2>9, <2>10 DEF Opposite
  <2>12. classify_geometric(a, b) = "before" =>
           CausallyAdmissible(0, p, lag, q) /\ GeoResolves(a, b)
    BY <2>1, <2>2, <2>3, <2>4, <2>6, <2>8
  <2>13. classify_geometric(a, b) = "spacelike" =>
           ~CausallyAdmissible(0, p, lag, q) /\ ~CausallyAdmissible(lag, q, 0, p)
    BY <2>1, <2>2, <2>3, <2>4, <2>6
  <2>14. GeoBefore(a, b) => classify_geometric(a, b) = "before"
    BY <2>1, <2>2, <2>3, <2>4, <2>6, <2>8, <2>9
  <2> QED
    BY <2>11, <2>12, <2>13, <2>14 DEF a, b, p, q, lag
<1>2. ASSUME subject.kind = "vectors"
      PROVE  LET relation == classify_logical(subject.a, subject.b)
             IN  /\ relation = "before" <=> LogBefore([vc |-> subject.a], [vc |-> subject.b])
                 /\ classify_logical(subject.b, subject.a) = Opposite(relation)
  <2> DEFINE x == subject.a
             y == subject.b
  <2>1. LogBefore([vc |-> x], [vc |-> y]) <=> LogLeq(x, y) /\ ~LogLeq(y, x)
    BY DEF LogBefore
  <2> HIDE DEF x, y
  <2>2. /\ classify_logical(x, y) = "before" <=> LogLeq(x, y) /\ ~LogLeq(y, x)
        /\ classify_logical(y, x) = Opposite(classify_logical(x, y))
    BY DEF classify_logical, Opposite
  <2> QED
    BY <2>1, <2>2 DEF x, y
<1>3. TrajInv => ProviderIsCertain
  BY <1>1, <1>2 DEF ProviderIsCertain
<1> QED
  BY <1>3, TrajInvariance, PTL

---------------------------------------------------------------------------
(* The bisection. *)

Pairs == Nat \X Nat

\* One round of the bisection, and the size of what is left to search.
Halve(inside, r) ==
    LET mid == (r[1] + r[2]) \div 2
    IN  IF r[2] - r[1] <= 1 THEN r ELSE IF mid \in inside THEN <<r[1], mid>> ELSE <<mid, r[2]>>

Width(r) == IF r[2] - r[1] \in Nat THEN r[2] - r[1] ELSE 0

LEMMA HalveNarrows ==
    ASSUME NEW inside, NEW r \in Pairs
    PROVE  /\ Width(r) \in Nat /\ Halve(inside, r) \in Pairs
           /\ r[2] - r[1] <= 1 <=> Width(r) <= 1
           /\ Width(r) <= 1 => Halve(inside, r) = r
           /\ Width(r) > 1 => Width(Halve(inside, r)) < Width(r)
<1> DEFINE lo == r[1]
           hi == r[2]
           mid == (lo + hi) \div 2
<1>1. lo \in Nat /\ hi \in Nat /\ r = <<lo, hi>>
  BY DEF Pairs
<1>2. mid \in Nat /\ (hi - lo > 1 => lo < mid /\ mid < hi)
  BY <1>1
<1>3. Halve(inside, r) = IF hi - lo <= 1 THEN r ELSE IF mid \in inside THEN <<lo, mid>> ELSE <<mid, hi>>
  BY DEF Halve
<1>4. Width(r) = IF hi - lo \in Nat THEN hi - lo ELSE 0
  BY DEF Width
<1>5. Width(<<lo, mid>>) = (IF mid - lo \in Nat THEN mid - lo ELSE 0)
      /\ Width(<<mid, hi>>) = (IF hi - mid \in Nat THEN hi - mid ELSE 0)
  BY DEF Width
<1> HIDE DEF lo, hi, mid
<1>6. Halve(inside, r) \in Pairs
  BY <1>1, <1>2, <1>3 DEF Pairs
<1>7. hi - lo <= 1 <=> Width(r) <= 1
  BY <1>1, <1>4
<1>8. Width(r) <= 1 => Halve(inside, r) = r
  BY <1>3, <1>7
<1>9. ASSUME Width(r) > 1 PROVE Width(Halve(inside, r)) < Width(r)
  <2>1. hi - lo > 1
    BY <1>1, <1>4, <1>9
  <2>2. lo < mid /\ mid < hi /\ Width(r) = hi - lo
    BY <1>1, <1>2, <1>4, <2>1
  <2>3. Width(<<lo, mid>>) < Width(r) /\ Width(<<mid, hi>>) < Width(r)
    BY <1>1, <1>2, <1>5, <2>2
  <2> QED
    BY <1>1, <1>3, <2>1, <2>3
<1> QED
  BY <1>1, <1>4, <1>6, <1>7, <1>8, <1>9 DEF lo, hi

\* The bisection is defined: after as many rounds as there are instants between the
\* ends, another round changes nothing.
LEMMA BisectionExists ==
    ASSUME NEW inside
    PROVE  \E f \in [Pairs -> Pairs] :
             \A r \in Pairs : f[r] = IF r[2] - r[1] <= 1 THEN r ELSE f[Halve(inside, r)]
<1> DEFINE X == [Pairs -> Pairs]
           step(r) == Halve(inside, r)
           G == [g \in X |-> [r \in Pairs |-> g[step(r)]]]
           id == [r \in Pairs |-> r]
<1>1. \A r \in Pairs : step(r) \in Pairs /\ Width(r) \in Nat
  BY HalveNarrows
<1>2. \A r \in Pairs : /\ r[2] - r[1] <= 1 <=> Width(r) <= 1
                       /\ Width(r) <= 1 => step(r) = r
                       /\ Width(r) > 1 => Width(step(r)) < Width(r)
  BY HalveNarrows
<1> HIDE DEF step
<1>3. G \in [X -> X] /\ id \in X
  BY <1>1
<1>4. PICK h : IsIteration(X, G, id, h)
  <2> HIDE DEF X, G, id
  <2> QED
    BY <1>3, IterationExists
<1>5. /\ \A n \in Nat : h[n] \in X
      /\ \A r \in Pairs : h[0][r] = r
      /\ \A n \in Nat : h[n + 1] = G[h[n]]
  BY <1>4 DEF IsIteration
<1>6. \A n \in Nat, r \in Pairs : h[n + 1][r] = h[n][step(r)]
  <2> SUFFICES ASSUME NEW n \in Nat, NEW r \in Pairs PROVE h[n + 1][r] = h[n][step(r)]
    OBVIOUS
  <2>1. h[n] \in X /\ h[n + 1] = G[h[n]]
    BY <1>5
  <2>2. G[h[n]] = [q \in Pairs |-> h[n][step(q)]]
    BY <2>1
  <2> HIDE DEF X, G
  <2> QED
    BY <2>1, <2>2
<1> HIDE DEF X, G, id
<1> DEFINE Settled(n) == \A r \in Pairs : Width(r) <= n => h[n][r] = h[Width(r)][r]
           Off == {n \in Nat : ~Settled(n)}
<1>7. Off = {}
  <2>1. SUFFICES ASSUME Off # {} PROVE FALSE
    OBVIOUS
  <2>2. Off \in SUBSET Nat
    OBVIOUS
  <2>3. PICK m \in Off : \A k \in Off : m <= k
    <3> HIDE DEF Off
    <3> QED
      BY <2>1, <2>2, SmallestOf
  <2>4. m \in Nat /\ ~Settled(m)
    BY <2>3
  <2>5. \A k \in Nat : k < m => Settled(k)
    <3> SUFFICES ASSUME NEW k \in Nat, k < m, ~Settled(k) PROVE FALSE
      OBVIOUS
    <3>1. k \in Off
      OBVIOUS
    <3> HIDE DEF Off, Settled
    <3> QED
      BY <2>3, <2>4, <3>1
  <2>6. PICK r \in Pairs : Width(r) <= m /\ h[m][r] # h[Width(r)][r]
    BY <2>4
  <2> DEFINE w == Width(r)
  <2>7. w \in Nat /\ w < m /\ m - 1 \in Nat /\ m - 1 < m /\ (m - 1) + 1 = m /\ w <= m - 1
    BY <1>1, <2>4, <2>6
  <2>8. h[m][r] = h[m - 1][step(r)]
    BY <1>6, <2>7
  <2>9. CASE w <= 1
    <3>1. step(r) = r
      BY <1>2, <2>9
    <3>2. h[m - 1][r] = h[w][r]
      BY <2>5, <2>7
    <3> QED
      BY <2>6, <2>8, <3>1, <3>2
  <2>10. CASE w > 1
    <3> DEFINE v == Width(step(r))
    <3>1. v \in Nat /\ v < w /\ v <= m - 1 /\ v <= w - 1 /\ w - 1 \in Nat /\ w - 1 < m /\ (w - 1) + 1 = w
          /\ step(r) \in Pairs
      BY <1>1, <1>2, <2>7, <2>10
    <3>2. h[m - 1][step(r)] = h[v][step(r)] /\ h[w - 1][step(r)] = h[v][step(r)]
      BY <2>5, <2>7, <3>1
    <3>3. h[w][r] = h[w - 1][step(r)]
      BY <1>6, <3>1
    <3> QED
      BY <2>6, <2>8, <3>2, <3>3
  <2> QED
    BY <2>7, <2>9, <2>10
<1> DEFINE f == [r \in Pairs |-> h[Width(r)][r]]
<1>8. f \in [Pairs -> Pairs]
  BY <1>1, <1>5 DEF X
<1>9. ASSUME NEW r \in Pairs
      PROVE  f[r] = IF r[2] - r[1] <= 1 THEN r ELSE f[step(r)]
  <2> DEFINE w == Width(r)
  <2>1. w \in Nat /\ step(r) \in Pairs
    BY <1>1
  <2>2. CASE w = 0
    BY <1>2, <1>5, <2>2
  <2>3. CASE w # 0
    <3>1. w - 1 \in Nat /\ (w - 1) + 1 = w
      BY <2>1, <2>3
    <3>2. f[r] = h[w - 1][step(r)]
      BY <1>6, <3>1
    <3>3. CASE w = 1
      <4>1. step(r) = r /\ w - 1 = 0 /\ r[2] - r[1] <= 1
        BY <1>2, <3>3
      <4>2. h[w - 1][step(r)] = r
        BY <1>5, <4>1
      <4> QED
        BY <3>2, <4>1, <4>2
    <3>4. CASE w # 1
      <4> DEFINE v == Width(step(r))
      <4>1. w > 1 /\ v \in Nat /\ v <= w - 1
        BY <1>1, <1>2, <2>1, <2>3, <3>4
      <4>2. h[w - 1][step(r)] = h[v][step(r)]
        <5>1. Settled(w - 1)
          BY <1>7, <3>1
        <5> QED
          BY <2>1, <4>1, <5>1
      <4>3. f[step(r)] = h[v][step(r)]
        BY <2>1
      <4>4. ~(r[2] - r[1] <= 1)
        BY <1>2, <4>1
      <4> HIDE DEF f
      <4> QED
        BY <3>2, <4>2, <4>3, <4>4
    <3> QED
      BY <3>3, <3>4
  <2> QED
    BY <2>2, <2>3
<1> HIDE DEF f
<1> QED
  BY <1>8, <1>9 DEF step

LEMMA BisectUnfolds ==
    ASSUME NEW inside
    PROVE  \A r \in Pairs :
             Bisect(inside)[r] = IF r[2] - r[1] <= 1 THEN r ELSE Bisect(inside)[Halve(inside, r)]
<1> DEFINE IsSearch(f) ==
             f = [r \in Nat \X Nat |->
                    IF r[2] - r[1] <= 1 THEN r
                    ELSE LET mid == (r[1] + r[2]) \div 2
                         IN  IF mid \in inside THEN f[<<r[1], mid>>] ELSE f[<<mid, r[2]>>]]
           search == Bisect(inside)
<1>1. search = CHOOSE f : IsSearch(f)
  BY DEF Bisect
<1>2. \A f, r : r[2] - r[1] <= 1 \/ f[Halve(inside, r)] =
                 LET mid == (r[1] + r[2]) \div 2
                 IN  IF mid \in inside THEN f[<<r[1], mid>>] ELSE f[<<mid, r[2]>>]
  BY DEF Halve
<1>3. PICK g \in [Pairs -> Pairs] :
        \A r \in Pairs : g[r] = IF r[2] - r[1] <= 1 THEN r ELSE g[Halve(inside, r)]
  BY BisectionExists
<1>4. IsSearch(g)
  BY <1>2, <1>3 DEF Pairs
<1>5. IsSearch(search)
  <2> HIDE DEF search, IsSearch
  <2> QED
    BY <1>1, <1>4
<1> HIDE DEF search
<1>6. \A r \in Pairs : search[r] = IF r[2] - r[1] <= 1 THEN r ELSE search[Halve(inside, r)]
  <2> SUFFICES ASSUME NEW r \in Pairs
               PROVE  search[r] = IF r[2] - r[1] <= 1 THEN r ELSE search[Halve(inside, r)]
    OBVIOUS
  <2>1. search[r] = IF r[2] - r[1] <= 1 THEN r
                    ELSE LET mid == (r[1] + r[2]) \div 2
                         IN  IF mid \in inside THEN search[<<r[1], mid>>] ELSE search[<<mid, r[2]>>]
    <3>1. r \in Nat \X Nat
      BY DEF Pairs
    <3> QED
      BY <1>5, <3>1
  <2> QED
    BY <1>2, <2>1
<1> QED
  BY <1>6 DEF search

\* Between an instant outside the set and a later one inside, the bisection finds
\* two neighbours of which the first is outside and the second inside.
LEMMA BisectFinds ==
    ASSUME NEW inside, NEW lo \in Nat, NEW hi \in Nat, lo < hi, lo \notin inside, hi \in inside
    PROVE  \E t \in Nat :
             /\ Bisect(inside)[<<lo, hi>>] = <<t, t + 1>>
             /\ lo <= t /\ t + 1 <= hi /\ t \notin inside /\ t + 1 \in inside
<1> DEFINE search == Bisect(inside)
           Open(r) == r[1] < r[2] /\ r[1] \notin inside /\ r[2] \in inside
           Found(r) == \E t \in Nat : /\ search[r] = <<t, t + 1>>
                                      /\ r[1] <= t /\ t + 1 <= r[2] /\ t \notin inside /\ t + 1 \in inside
           Off == {n \in Nat : \E r \in Pairs : Width(r) = n /\ Open(r) /\ ~Found(r)}
<1>1. \A r \in Pairs : search[r] = IF r[2] - r[1] <= 1 THEN r ELSE search[Halve(inside, r)]
  BY BisectUnfolds
<1> HIDE DEF search
<1>2. Off = {}
  <2>1. SUFFICES ASSUME Off # {} PROVE FALSE
    OBVIOUS
  <2>2. Off \in SUBSET Nat
    OBVIOUS
  <2>3. PICK m \in Off : \A k \in Off : m <= k
    <3> HIDE DEF Off
    <3> QED
      BY <2>1, <2>2, SmallestOf
  <2>4. PICK r \in Pairs : Width(r) = m /\ Open(r) /\ ~Found(r)
    BY <2>3
  <2> DEFINE a == r[1]
             b == r[2]
             mid == (a + b) \div 2
             q == Halve(inside, r)
  <2>5. a \in Nat /\ b \in Nat /\ r = <<a, b>> /\ a < b /\ a \notin inside /\ b \in inside
    BY <2>4 DEF Pairs
  <2>6. CASE b - a <= 1
    <3>1. b = a + 1
      BY <2>5, <2>6
    <3>2. search[r] = <<a, a + 1>>
      BY <1>1, <2>5, <2>6, <3>1
    <3>3. Found(r)
      BY <2>5, <3>1, <3>2
    <3> QED
      BY <2>4, <3>3
  <2>7. CASE ~(b - a <= 1)
    <3>1. mid \in Nat /\ a < mid /\ mid < b
      BY <2>5, <2>7
    <3>2. q = IF mid \in inside THEN <<a, mid>> ELSE <<mid, b>>
      BY <2>7 DEF Halve
    <3>3. /\ Width(r) \in Nat /\ q \in Pairs /\ Width(q) \in Nat
          /\ b - a <= 1 <=> Width(r) <= 1
          /\ Width(r) > 1 => Width(q) < Width(r)
      BY HalveNarrows
    <3>4. Width(q) < m
      BY <2>4, <2>7, <3>3
    <3>5. search[r] = search[q]
      BY <1>1, <2>7
    <3> HIDE DEF mid, q
    <3>6. Open(q) /\ a <= q[1] /\ q[2] <= b /\ q[1] \in Nat /\ q[2] \in Nat
      BY <2>5, <3>1, <3>2
    <3>7. Found(q)
      <4>1. ~(m <= Width(q)) /\ Width(q) \in Nat
        BY <2>3, <3>3, <3>4
      <4>2. Width(q) \notin Off
        <5> HIDE DEF Off
        <5> QED
          BY <2>3, <4>1
      <4> HIDE DEF Open, Found
      <4> QED
        BY <3>3, <3>6, <4>2
    <3>8. PICK t \in Nat : /\ search[q] = <<t, t + 1>>
                           /\ q[1] <= t /\ t + 1 <= q[2] /\ t \notin inside /\ t + 1 \in inside
      BY <3>7
    <3>9. a <= t /\ t + 1 <= b
      BY <2>5, <3>6, <3>8
    <3>10. Found(r)
      BY <3>5, <3>8, <3>9
    <3> QED
      BY <2>4, <3>10
  <2> QED
    BY <2>6, <2>7
<1> DEFINE r == <<lo, hi>>
<1>3. r \in Pairs /\ Open(r)
  BY DEF Pairs
<1>4. Width(r) \in Nat
  BY <1>3, HalveNarrows
<1>5. Found(r)
  <2>1. Width(r) \notin Off
    BY <1>2
  <2> HIDE DEF r, Open, Found
  <2> QED
    BY <1>3, <1>4, <2>1
<1> QED
  BY <1>5 DEF search

Consecutive(S) == \A t, s \in S : t..s \subseteq S

DownSet(w, body, radius) == {t \in 0..Window : Down(w, body, radius, t)}

\* The search returned what there is: nothing, and then no scanned instant is in the
\* set, or the first and the last instant of the set.
IsExact(blackout, down, steps) ==
    \/ blackout = {} /\ Scanned(steps) \cap down = {}
    \/ \E lo, hi \in 0..Window : blackout = {<<lo, hi>>} /\ down = lo..hi

\* occultation.py: if the instants without a link are consecutive, the search
\* returns the first and the last of them; and it returns nothing only if no scanned
\* instant is one of them.
THEOREM BlackoutIsExact ==
    ASSUME NEW w, NEW body, NEW radius, NEW steps \in Nat \ {0}, NEW hint \in {-1} \cup 0..Window,
           Consecutive(DownSet(w, body, radius))
    PROVE  IsExact(occultation_interval(w, body, radius, steps, hint), DownSet(w, body, radius), steps)
<1> DEFINE down == DownSet(w, body, radius)
           up == {t \in 0..Window : ~Down(w, body, radius, t)}
           found == {t \in Scanned(steps) : Down(w, body, radius, t)}
           hinted == hint # -1 /\ Down(w, body, radius, hint)
           anchor == IF hinted THEN hint ELSE CHOOSE t \in found : \A s \in found : t <= s
           enter == IF Down(w, body, radius, 0) THEN 0 ELSE Bisect(down)[<<0, anchor>>][2]
           exit == IF Down(w, body, radius, Window) THEN Window ELSE Bisect(up)[<<anchor, Window>>][1]
<1>1. occultation_interval(w, body, radius, steps, hint) =
        IF found = {} /\ ~hinted THEN {} ELSE {<<enter, exit>>}
  <2>1. down = {t \in 0..Window : Down(w, body, radius, t)}
    BY DEF DownSet
  <2> QED
    BY <2>1 DEF occultation_interval
<1>2. Window \in Nat
  BY TrajectoriesAssumption
<1>3. Scanned(steps) \subseteq 0..Window
  BY DEF Scanned
<1>4. found = Scanned(steps) \cap down
  BY <1>3 DEF DownSet
<1>5. \A t, s \in down : t..s \subseteq down
  BY DEF Consecutive
<1>6. /\ \A t \in 0..Window : t \in down <=> Down(w, body, radius, t)
      /\ \A t \in 0..Window : t \in up <=> t \notin down
      /\ down \subseteq 0..Window /\ up \subseteq 0..Window
  BY DEF DownSet
<1>7. ASSUME ~(found = {} /\ ~hinted) PROVE anchor \in down
  <2>1. CASE hinted
    <3>1. hint \in 0..Window
      BY <2>1
    <3> QED
      BY <2>1, <3>1 DEF DownSet
  <2>2. CASE ~hinted
    <3>1. found \in SUBSET Nat /\ found # {}
      BY <1>2, <1>3, <1>7, <2>2
    <3> HIDE DEF found
    <3>2. \E t \in found : \A s \in found : t <= s
      BY <3>1, SmallestOf
    <3>3. anchor \in found
      BY <2>2, <3>2
    <3> QED
      BY <1>4, <3>3
  <2> QED
    BY <2>1, <2>2
<1>8. (0 \in down <=> Down(w, body, radius, 0)) /\ (Window \in down <=> Down(w, body, radius, Window))
  BY <1>2, <1>6
<1> DEFINE lower == IF 0 \in down THEN 0 ELSE Bisect(down)[<<0, anchor>>][2]
           upper == IF Window \in down THEN Window ELSE Bisect(up)[<<anchor, Window>>][1]
<1>9. enter = lower /\ exit = upper
  BY <1>8
<1> HIDE DEF found, down, up, hinted, anchor, enter, exit
<1>10. ASSUME anchor \in down PROVE lower \in down /\ \A x \in down : lower <= x
  <2>1. CASE 0 \in down
    BY <1>2, <1>6, <2>1
  <2>2. CASE 0 \notin down
    <3>1. anchor \in Nat /\ 0 < anchor
      BY <1>2, <1>6, <1>10, <2>2
    <3>2. PICK t \in Nat : /\ Bisect(down)[<<0, anchor>>] = <<t, t + 1>>
                           /\ t + 1 <= anchor /\ t \notin down /\ t + 1 \in down
      BY <1>10, <2>2, <3>1, BisectFinds
    <3>3. lower = t + 1
      BY <2>2, <3>2
    <3>4. ASSUME NEW x \in down PROVE lower <= x
      <4>1. x \in Nat
        BY <1>2, <1>6
      <4>2. ASSUME x <= t PROVE FALSE
        <5>1. t \in x..(t + 1) /\ x..(t + 1) \subseteq down
          BY <1>5, <3>2, <4>1, <4>2
        <5> QED
          BY <3>2, <5>1
      <4> QED
        BY <3>3, <4>1, <4>2
    <3> QED
      BY <3>2, <3>3, <3>4
  <2> QED
    BY <2>1, <2>2
<1>11. ASSUME anchor \in down PROVE upper \in down /\ \A x \in down : x <= upper
  <2>1. CASE Window \in down
    <3>1. upper = Window
      BY <2>1
    <3> HIDE DEF upper
    <3>2. \A x \in down : x <= Window
      BY <1>2, <1>6
    <3> QED
      BY <2>1, <3>1, <3>2
  <2>2. CASE Window \notin down
    <3>1. anchor \in Nat /\ anchor < Window /\ anchor \notin up /\ Window \in up
      BY <1>2, <1>6, <1>11, <2>2
    <3>2. PICK t \in Nat : /\ Bisect(up)[<<anchor, Window>>] = <<t, t + 1>>
                           /\ t + 1 <= Window /\ t \notin up /\ t + 1 \in up
      BY <1>2, <3>1, BisectFinds
    <3>3. upper = t /\ t \in down /\ t + 1 \notin down
      BY <1>2, <1>6, <2>2, <3>2
    <3>4. ASSUME NEW x \in down PROVE x <= upper
      <4>1. x \in Nat
        BY <1>2, <1>6
      <4>2. ASSUME x > t PROVE FALSE
        <5>1. t + 1 \in t..x /\ t..x \subseteq down
          BY <1>5, <3>2, <3>3, <4>1, <4>2
        <5> QED
          BY <3>3, <5>1
      <4> QED
        BY <3>2, <3>3, <4>1, <4>2
    <3> QED
      BY <3>3, <3>4
  <2> QED
    BY <2>1, <2>2
<1> HIDE DEF lower, upper
<1>12. ASSUME anchor \in down PROVE down = lower..upper /\ lower \in 0..Window /\ upper \in 0..Window
  <2>1. lower \in 0..Window /\ upper \in 0..Window
    BY <1>6, <1>10, <1>11, <1>12
  <2>2. lower..upper \subseteq down
    BY <1>5, <1>10, <1>11, <1>12
  <2>3. \A x \in down : x \in lower..upper
    BY <1>2, <1>6, <1>10, <1>11, <1>12, <2>1
  <2> QED
    BY <2>1, <2>2, <2>3
<1>13. CASE found = {} /\ ~hinted
  BY <1>1, <1>4, <1>13 DEF down, IsExact
<1>14. CASE ~(found = {} /\ ~hinted)
  <2>1. occultation_interval(w, body, radius, steps, hint) = {<<lower, upper>>}
    BY <1>1, <1>9, <1>14
  <2>2. down = lower..upper /\ lower \in 0..Window /\ upper \in 0..Window
    BY <1>7, <1>12, <1>14
  <2> QED
    BY <2>1, <2>2 DEF down, IsExact
<1> QED
  BY <1>13, <1>14

\* What is sent in a blackout arrives as if it were sent again when the link is back,
\* if not later still; anything else takes the time that light takes.
LEMMA DeliveryTime ==
    ASSUME NEW w \in Ships, NEW t \in Int, NEW lo \in Int, NEW hi \in Int
    PROVE  LET naive == t + LightFrom(w, t)
               again == hi + 1 + LightFrom(w, hi + 1)
               late == delivery_time_ns(w, t, {<<lo, hi>>})
           IN  /\ LightFrom(w, t) \in Nat /\ LightFrom(w, hi + 1) \in Nat
               /\ delivery_time_ns(w, t, {}) = naive
               /\ ~(lo <= t /\ t <= hi) => late = naive
               /\ lo <= t /\ t <= hi => late = IF naive <= again THEN again ELSE naive
<1> DEFINE naive == t + LightFrom(w, t)
           again == hi + 1 + LightFrom(w, hi + 1)
           held(B) == {o \in B : o[1] <= t /\ t <= o[2]}
           reopened(o) == o[2] + 1 + LightFrom(w, o[2] + 1)
           chosen(B) == CHOOSE d \in {naive} \cup {reopened(o) : o \in held(B)} :
                           \A o \in held(B) : naive <= d /\ reopened(o) <= d
<1>1. \A s \in Int : LightFrom(w, s) \in Nat
  <2> SUFFICES ASSUME NEW s \in Int PROVE LightFrom(w, s) \in Nat
    OBVIOUS
  <2>1. position_at(w, s) \in Point /\ Ground \in Point
    BY TrajectoriesAssumption DEF position_at, Point
  <2> QED
    BY <2>1, LightTimeIsExact DEF LightFrom, IsLightTime
<1>2. naive \in Int /\ again \in Int
  BY <1>1
<1>3. \A B : delivery_time_ns(w, t, B) = chosen(B)
  BY DEF delivery_time_ns
<1> HIDE DEF naive
<1>4. ASSUME NEW B, held(B) = {} PROVE chosen(B) = naive
  BY <1>4
<1>5. held({}) = {}
  OBVIOUS
<1>6. ~(lo <= t /\ t <= hi) => held({<<lo, hi>>}) = {}
  OBVIOUS
<1>7. ASSUME lo <= t, t <= hi PROVE chosen({<<lo, hi>>}) = IF naive <= again THEN again ELSE naive
  <2> DEFINE B == {<<lo, hi>>}
  <2>1. held(B) = B
    BY <1>7
  <2>2. reopened(<<lo, hi>>) = again
    OBVIOUS
  <2>3. chosen(B) = CHOOSE d \in {naive, again} : naive <= d /\ again <= d
    <3>1. {naive} \cup {reopened(o) : o \in held(B)} = {naive, again}
      BY <2>1, <2>2
    <3>2. \A d : (\A o \in held(B) : naive <= d /\ reopened(o) <= d) <=> naive <= d /\ again <= d
      BY <2>1, <2>2
    <3> HIDE DEF held, reopened, again, B
    <3> QED
      BY <3>1, <3>2
  <2> HIDE DEF again, chosen
  <2> DEFINE top == CHOOSE d \in {naive, again} : naive <= d /\ again <= d
  <2>4. \E d \in {naive, again} : naive <= d /\ again <= d
    BY <1>2
  <2>5. top \in {naive, again} /\ naive <= top /\ again <= top
    BY <2>4
  <2>6. chosen(B) = top
    BY <2>3
  <2> HIDE DEF top
  <2> QED
    BY <1>2, <2>5, <2>6
<1> HIDE DEF chosen, held, again
<1> QED
  BY <1>1, <1>3, <1>4, <1>5, <1>6, <1>7 DEF naive, again

\* A node that covers in one nanosecond no more than light does is seen in order.
LEMMA NextSignalIsLater ==
    ASSUME NEW w \in Ships, NEW t \in Int, causally_admissible_wl(w, t - 1, w, t)
    PROVE  (t - 1) + LightFrom(w, t - 1) <= t + LightFrom(w, t)
<1> DEFINE p == position_at(w, t - 1)
           q == position_at(w, t)
<1>1. p \in Point /\ q \in Point /\ Ground \in Point
  BY TrajectoriesAssumption DEF position_at, Point
<1>2. CausallyAdmissible(t - 1, p, t, q)
  BY DEF causally_admissible_wl
<1>3. LightFrom(w, t - 1) = MinLightTime(p, Ground) /\ LightFrom(w, t) = MinLightTime(q, Ground)
  BY DEF LightFrom
<1> HIDE DEF p, q
<1>4. t - 1 \in Int /\ t - (t - 1) = 1
  OBVIOUS
<1>5. 1 >= MinLightTime(p, q)
  BY <1>1, <1>2, <1>4, AdmissibleFromLightTimeOn
<1>6. /\ MinLightTime(p, Ground) \in Nat /\ MinLightTime(q, Ground) \in Nat /\ MinLightTime(p, q) \in Nat
      /\ MinLightTime(p, Ground) <= MinLightTime(p, q) + MinLightTime(q, Ground)
  BY <1>1, LightTimeIsExact, LightTimeTriangle DEF IsLightTime
<1> QED
  BY <1>3, <1>5, <1>6

\* A signal has arrived from the light time on, at the receiver that stays.
LEMMA ArrivedAtGround ==
    ASSUME NEW w \in Ships, NEW s \in Int, NEW d \in Int, d >= s + LightFrom(w, s)
    PROVE  causally_admissible_wl(w, s, FixedAt(Ground), d)
<1> DEFINE p == position_at(w, s)
           g == position_at(FixedAt(Ground), d)
<1>1. p \in Point /\ Ground \in Point
  BY TrajectoriesAssumption DEF position_at, Point
<1>2. g = Ground
  <2>1. Ground = <<Ground[1], Ground[2], Ground[3]>> /\ \A i \in 1..3 : Ground[i] \in Int
    BY <1>1 DEF Point
  <2>2. \A i \in 1..3 : (<<0, 0, 0>>[i] * (d - 0)) \div 1 = 0
    OBVIOUS
  <2>3. g = [i \in 1..3 |-> Ground[i] + (<<0, 0, 0>>[i] * (d - 0)) \div 1]
    BY DEF position_at, FixedAt
  <2>4. \A i \in 1..3 : g[i] = Ground[i]
    BY <2>1, <2>2, <2>3
  <2>5. g = [i \in 1..3 |-> Ground[i]]
    BY <2>3, <2>4
  <2> HIDE DEF g
  <2> QED
    BY <2>1, <2>5
<1>3. LightFrom(w, s) = MinLightTime(p, Ground)
  BY DEF LightFrom
<1> HIDE DEF p
<1>4. MinLightTime(p, Ground) \in Nat
  BY <1>1, LightTimeIsExact DEF IsLightTime
<1>5. d - s >= MinLightTime(p, Ground)
  BY <1>3, <1>4
<1>6. CausallyAdmissible(s, p, d, Ground)
  BY <1>1, <1>5, AdmissibleFromLightTimeOn
<1> QED
  BY <1>2, <1>6 DEF causally_admissible_wl, p

\* occultation.py, light_delay.py: for every ship, body and window, the search finds the
\* blackout to the nanosecond wherever its scan or its hint first hits it, and signals
\* leave when the link is up, take at least the light time, and keep their order.
THEOREM SignalsWaitForTheLinkHolds == TrajSpec => []SignalsWaitForTheLink
<1>1. TrajInv => SignalsWaitForTheLink
  <2> SUFFICES ASSUME TrajInv, subject.kind = "flyby",
                      \A t \in DownTimes, s \in DownTimes : t..s \subseteq DownTimes
               PROVE  LET w == subject.ship
                          delivered == [t \in 0..Window |-> delivery_time_ns(w, t, Blackout)]
                      IN  /\ \A o \in Blackout : DownTimes = o[1]..o[2]
                          /\ Blackout = {} => Scanned(subject.steps) \cap DownTimes = {}
                          /\ Blackout # {} /\ Window \notin DownTimes =>
                               \A t \in 0..Window : \E left \in t..(delivered[t]) :
                                 /\ ~Down(w, subject.body, subject.radius, left)
                                 /\ causally_admissible_wl(w, left, FixedAt(Ground), delivered[t])
                          /\ \A t \in 1..Window :
                               causally_admissible_wl(w, t - 1, w, t) => delivered[t - 1] <= delivered[t]
    BY DEF SignalsWaitForTheLink
  <2> DEFINE w == subject.ship
             delivered == [t \in 0..Window |-> delivery_time_ns(w, t, Blackout)]
             down == DownTimes
             naive(t) == t + LightFrom(w, t)
  <2>1. w \in Ships /\ Window \in Nat /\ subject.steps \in Nat \ {0} /\ subject.hint \in {-1} \cup 0..Window
    BY TrajectoriesAssumption DEF TrajInv
  <2>2. \/ Blackout = {} /\ Scanned(subject.steps) \cap down = {}
        \/ \E lo, hi \in 0..Window : Blackout = {<<lo, hi>>} /\ down = lo..hi
    <3>1. /\ down = DownSet(w, subject.body, subject.radius)
          /\ Blackout = occultation_interval(w, subject.body, subject.radius, subject.steps, subject.hint)
      BY DEF DownTimes, Blackout, DownSet
    <3>2. Consecutive(down)
      BY DEF Consecutive
    <3> HIDE DEF w, down
    <3>3. IsExact(Blackout, down, subject.steps)
      BY <2>1, <3>1, <3>2, BlackoutIsExact
    <3> QED
      BY <3>3 DEF IsExact
  <2>3. \A t \in Int : LightFrom(w, t) \in Nat
    BY <2>1, DeliveryTime
  <2>4. \A t \in 0..Window : t \in down <=> Down(w, subject.body, subject.radius, t)
    BY DEF DownTimes
  <2>5. \A t \in 0..Window : delivered[t] = delivery_time_ns(w, t, Blackout)
    OBVIOUS
  <2>6. \A t \in 1..Window : causally_admissible_wl(w, t - 1, w, t) => naive(t - 1) <= naive(t)
    BY <2>1, NextSignalIsLater
  <2>7. \A s, d \in Int : d >= naive(s) => causally_admissible_wl(w, s, FixedAt(Ground), d)
    BY <2>1, ArrivedAtGround
  <2>8. \A t \in 1..Window : t \in 0..Window /\ t - 1 \in 0..Window
    BY <2>1
  <2> HIDE DEF w, delivered, down
  <2>9. CASE Blackout = {} /\ Scanned(subject.steps) \cap down = {}
    <3>1. \A t \in 0..Window : delivered[t] = naive(t)
      <4> SUFFICES ASSUME NEW t \in 0..Window PROVE delivered[t] = naive(t)
        OBVIOUS
      <4>1. t \in Int /\ 0 \in Int
        BY <2>1
      <4>2. delivery_time_ns(w, t, {}) = naive(t)
        BY <2>1, <4>1, DeliveryTime
      <4> QED
        BY <2>5, <2>9, <4>2
    <3>2. \A t \in 1..Window : causally_admissible_wl(w, t - 1, w, t) => delivered[t - 1] <= delivered[t]
      BY <2>6, <2>8, <3>1
    <3> QED
      BY <2>9, <3>2 DEF w, delivered, down
  <2>10. ASSUME NEW lo \in 0..Window, NEW hi \in 0..Window, Blackout = {<<lo, hi>>}, down = lo..hi
         PROVE  /\ Window \notin down =>
                     \A t \in 0..Window : \E left \in t..(delivered[t]) :
                       /\ ~Down(w, subject.body, subject.radius, left)
                       /\ causally_admissible_wl(w, left, FixedAt(Ground), delivered[t])
                /\ \A t \in 1..Window :
                     causally_admissible_wl(w, t - 1, w, t) => delivered[t - 1] <= delivered[t]
    <3> DEFINE again == naive(hi + 1)
    <3>1. /\ hi \in Int /\ lo \in Int /\ hi + 1 \in Int
          /\ \A t \in 0..Window : t \in Int /\ naive(t) \in Int /\ t <= naive(t)
          /\ again \in Int /\ hi + 1 <= again
      BY <2>1, <2>3
    <3>2. ASSUME NEW t \in 0..Window
          PROVE  /\ t \notin down => delivered[t] = naive(t)
                 /\ t \in down => delivered[t] = IF naive(t) <= again THEN again ELSE naive(t)
      <4>1. delivered[t] = delivery_time_ns(w, t, {<<lo, hi>>})
        BY <2>5, <2>10
      <4>2. t \in down <=> lo <= t /\ t <= hi
        BY <2>10, <3>1
      <4> QED
        BY <2>1, <3>1, <4>1, <4>2, DeliveryTime
    <3>3. ASSUME Window \notin down, NEW t \in 0..Window
          PROVE  \E left \in t..(delivered[t]) :
                   /\ ~Down(w, subject.body, subject.radius, left)
                   /\ causally_admissible_wl(w, left, FixedAt(Ground), delivered[t])
      <4>1. CASE t \notin down
        <5>1. delivered[t] = naive(t) /\ t \in t..(delivered[t])
          BY <3>1, <3>2, <4>1
        <5>2. causally_admissible_wl(w, t, FixedAt(Ground), delivered[t])
          BY <2>7, <3>1, <5>1
        <5> QED
          BY <2>4, <4>1, <5>1, <5>2
      <4>2. CASE t \in down
        <5>1. t <= hi /\ hi + 1 \in 0..Window /\ hi + 1 \notin down
          BY <2>1, <2>10, <3>1, <3>3, <4>2
        <5>2. delivered[t] \in Int /\ delivered[t] >= again
          BY <3>1, <3>2, <4>2
        <5>3. hi + 1 \in t..(delivered[t])
          BY <3>1, <5>1, <5>2
        <5>4. causally_admissible_wl(w, hi + 1, FixedAt(Ground), delivered[t])
          BY <2>7, <3>1, <5>2
        <5> QED
          BY <2>4, <5>1, <5>3, <5>4
      <4> QED
        BY <4>1, <4>2
    <3>4. ASSUME NEW t \in 1..Window, causally_admissible_wl(w, t - 1, w, t)
          PROVE  delivered[t - 1] <= delivered[t]
      <4>1. naive(t - 1) <= naive(t) /\ t \in 0..Window /\ t - 1 \in 0..Window
        BY <2>6, <2>8, <3>4
      <4>2. naive(t) \in Int /\ naive(t - 1) \in Int /\ delivered[t] \in Int /\ naive(t) <= delivered[t]
        BY <3>1, <3>2, <4>1
      <4>3. CASE t - 1 \notin down
        BY <3>2, <4>1, <4>2, <4>3
      <4>4. CASE t - 1 \in down /\ t \in down
        BY <3>1, <3>2, <4>1, <4>2, <4>4
      <4>5. CASE t - 1 \in down /\ t \notin down
        <5>1. t = hi + 1
          BY <2>10, <3>1, <4>1, <4>5
        <5>2. delivered[t] = again
          BY <3>2, <4>1, <4>5, <5>1
        <5> QED
          BY <3>1, <3>2, <4>1, <4>2, <4>5, <5>2, <5>1
      <4> QED
        BY <4>3, <4>4, <4>5
    <3> QED
      BY <3>3, <3>4
  <2>11. CASE \E lo, hi \in 0..Window : Blackout = {<<lo, hi>>} /\ down = lo..hi
    <3>1. PICK lo \in 0..Window, hi \in 0..Window : Blackout = {<<lo, hi>>} /\ down = lo..hi
      BY <2>11
    <3>2. \A o \in Blackout : DownTimes = o[1]..o[2]
      BY <3>1 DEF down
    <3>3. Blackout # {}
      BY <3>1
    <3> QED
      BY <2>10, <3>1, <3>2, <3>3 DEF w, delivered, down
  <2> QED
    BY <2>2, <2>9, <2>11
<1> QED
  BY <1>1, TrajInvariance, PTL

---------------------------------------------------------------------------
(* The loops *)

\* Every natural number has an integer square root.
LEMMA RootExists ==
    ASSUME NEW rhs \in Nat
    PROVE  \E r \in 0..rhs : r * r <= rhs /\ rhs < (r + 1) * (r + 1)
<1> DEFINE T == {n \in Nat : rhs < (n + 1) * (n + 1)}
<1>1. rhs \in T
  <2>1. (rhs + 1) * (rhs + 1) = rhs * rhs + 2 * rhs + 1
    OBVIOUS
  <2>2. rhs * rhs \in Nat
    OBVIOUS
  <2> QED
    BY <2>1, <2>2
<1>2. PICK m \in T : \A k \in T : m <= k
  <2>1. T \in SUBSET Nat /\ T # {}
    BY <1>1
  <2> HIDE DEF T
  <2> QED
    BY <2>1, SmallestOf
<1>3. m \in Nat /\ rhs < (m + 1) * (m + 1) /\ m <= rhs
  BY <1>1, <1>2
<1>4. m * m <= rhs
  <2>1. CASE m = 0
    BY <2>1
  <2>2. CASE m # 0
    <3>1. m - 1 \in Nat /\ ~(m <= m - 1) /\ (m - 1) + 1 = m
      BY <1>3, <2>2
    <3>2. m - 1 \notin T
      <4> HIDE DEF T
      <4> QED
        BY <1>2, <3>1
    <3>3. ~(rhs < m * m)
      BY <3>1, <3>2
    <3>4. m * m \in Nat
      BY <1>3
    <3> QED
      BY <3>3, <3>4
  <2> QED
    BY <2>1, <2>2
<1> QED
  BY <1>3, <1>4

\* The guess the loops start with is a number of nanoseconds.
LEMMA GuessIsNatural ==
    ASSUME NEW speed \in Nat \ {0}, NEW rhs \in Nat
    PROVE  CeilDiv(CeilSqrt(rhs), speed) \in Nat
<1>1. CeilSqrt(rhs) \in Nat
  <2> DEFINE R == {r \in 0..rhs : r * r <= rhs /\ rhs < (r + 1) * (r + 1)}
             root == CHOOSE r \in 0..rhs : r * r <= rhs /\ rhs < (r + 1) * (r + 1)
  <2>1. root \in 0..rhs
    BY RootExists
  <2>2. CeilSqrt(rhs) = IF root * root < rhs THEN root + 1 ELSE root
    BY DEF CeilSqrt
  <2> HIDE DEF root
  <2> QED
    BY <2>1, <2>2
<1>2. \A r \in Nat : (-r) \div speed \in Int /\ (-r) \div speed <= 0
  OBVIOUS
<1> QED
  BY <1>1, <1>2 DEF CeilDiv

\* What covers the distance goes on covering it.
LEMMA CoversUp ==
    ASSUME NEW speed \in Nat \ {0}, NEW rhs \in Nat, NEW t \in Nat
    PROVE  /\ LeastTime(speed, rhs) \in Nat
           /\ Covers(speed, t, rhs) <=> t >= LeastTime(speed, rhs)
<1> DEFINE m == LeastTime(speed, rhs)
<1>1. m \in Nat /\ Covers(speed, m, rhs) /\ (Covers(speed, t, rhs) => m <= t)
  BY LeastTimeIsLeast DEF Covers
<1> HIDE DEF m
<1>2. ASSUME t >= m PROVE Covers(speed, t, rhs)
  <2>1. speed * m \in Nat /\ speed * t \in Nat /\ speed * m <= speed * t
    BY <1>1, <1>2
  <2>2. (speed * m) * (speed * m) <= (speed * t) * (speed * t)
    BY <2>1, SquareMonotone
  <2>3. /\ (speed * m) * (speed * m) \in Nat /\ (speed * t) * (speed * t) \in Nat
        /\ (speed * m) * (speed * m) >= rhs
    BY <1>1, <2>1 DEF Covers
  <2>4. (speed * t) * (speed * t) >= rhs
    BY <2>2, <2>3
  <2> QED
    BY <2>4 DEF Covers
<1> QED
  BY <1>1, <1>2 DEF m

\* The loop down ends at the least time, or where it started if that is earlier.
LEMMA WalkDownStops ==
    ASSUME NEW speed \in Nat \ {0}, NEW rhs \in Nat, NEW t \in Nat
    PROVE  WalkDown(speed, rhs)[t] \in Nat /\ WalkDown(speed, rhs)[t] <= LeastTime(speed, rhs)
<1> DEFINE L == LeastTime(speed, rhs)
           down == WalkDown(speed, rhs)
           IsDown(f) == f = [n \in Nat |-> IF n > 0 /\ Covers(speed, n - 1, rhs) THEN f[n - 1] ELSE n]
           end == [n \in Nat |-> IF n <= L THEN n ELSE L]
<1>1. L \in Nat /\ \A n \in Nat : Covers(speed, n, rhs) <=> n >= L
  BY CoversUp
<1> HIDE DEF L
<1>2. IsDown(end)
  <2>1. ASSUME NEW n \in Nat
        PROVE  end[n] = IF n > 0 /\ Covers(speed, n - 1, rhs) THEN end[n - 1] ELSE n
    <3>1. CASE n = 0
      BY <1>1, <3>1
    <3>2. CASE n # 0
      <4>1. n - 1 \in Nat /\ n > 0 /\ (Covers(speed, n - 1, rhs) <=> n - 1 >= L)
        BY <1>1, <3>2
      <4> QED
        BY <1>1, <4>1
    <3> QED
      BY <3>1, <3>2
  <2> QED
    BY <2>1
<1>3. down = CHOOSE f : IsDown(f)
  BY DEF WalkDown
<1>4. IsDown(down)
  <2> HIDE DEF end, down, IsDown
  <2> QED
    BY <1>2, <1>3
<1> HIDE DEF end, down
<1>5. \A n \in Nat : down[n] = IF n > 0 /\ Covers(speed, n - 1, rhs) THEN down[n - 1] ELSE n
  BY <1>4
<1> DEFINE Off == {n \in Nat : ~(down[n] \in Nat /\ down[n] <= L)}
<1>6. Off = {}
  <2>1. SUFFICES ASSUME Off # {} PROVE FALSE
    OBVIOUS
  <2>2. Off \in SUBSET Nat
    OBVIOUS
  <2>3. PICK m \in Off : \A k \in Off : m <= k
    <3> HIDE DEF Off
    <3> QED
      BY <2>1, <2>2, SmallestOf
  <2>4. m \in Nat /\ ~(down[m] \in Nat /\ down[m] <= L)
    BY <2>3
  <2>5. m > 0 /\ Covers(speed, m - 1, rhs)
    <3>1. CASE m = 0
      BY <1>1, <1>5, <2>4, <3>1
    <3>2. CASE m # 0 /\ ~Covers(speed, m - 1, rhs)
      <4>1. m - 1 \in Nat /\ ~(m - 1 >= L)
        BY <1>1, <2>4, <3>2
      <4>2. down[m] = m /\ m <= L
        BY <1>1, <1>5, <2>4, <3>2, <4>1
      <4> QED
        BY <2>4, <4>2
    <3> QED
      BY <2>4, <3>1, <3>2
  <2>6. m - 1 \in Nat /\ ~(m <= m - 1) /\ down[m] = down[m - 1]
    BY <1>5, <2>4, <2>5
  <2>7. m - 1 \notin Off
    <3> HIDE DEF Off
    <3> QED
      BY <2>3, <2>6
  <2> QED
    BY <2>4, <2>6, <2>7
<1> QED
  BY <1>6 DEF L, down

\* The loop up ends at the least time, if it does not start beyond it.
LEMMA WalkUpStops ==
    ASSUME NEW speed \in Nat \ {0}, NEW rhs \in Nat, NEW t \in Nat, t <= LeastTime(speed, rhs)
    PROVE  WalkUp(speed, rhs)[t] = LeastTime(speed, rhs)
<1> DEFINE L == LeastTime(speed, rhs)
           up == WalkUp(speed, rhs)
           IsUp(f) == f = [n \in Nat |-> IF Covers(speed, n, rhs) THEN n ELSE f[n + 1]]
           end == [n \in Nat |-> IF n >= L THEN n ELSE L]
<1>1. L \in Nat /\ \A n \in Nat : Covers(speed, n, rhs) <=> n >= L
  BY CoversUp
<1>0. t <= L
  OBVIOUS
<1> HIDE DEF L
<1>2. IsUp(end)
  <2>1. ASSUME NEW n \in Nat
        PROVE  end[n] = IF Covers(speed, n, rhs) THEN n ELSE end[n + 1]
    <3>1. n + 1 \in Nat /\ (Covers(speed, n, rhs) <=> n >= L)
      BY <1>1
    <3> QED
      BY <1>1, <3>1
  <2> QED
    BY <2>1
<1>3. up = CHOOSE f : IsUp(f)
  BY DEF WalkUp
<1>4. IsUp(up)
  <2> HIDE DEF end, up, IsUp
  <2> QED
    BY <1>2, <1>3
<1> HIDE DEF end, up
<1>5. \A n \in Nat : up[n] = IF Covers(speed, n, rhs) THEN n ELSE up[n + 1]
  BY <1>4
<1> DEFINE Off == {n \in Nat : n <= L /\ up[L - n] # L}
<1>6. Off = {}
  <2>1. SUFFICES ASSUME Off # {} PROVE FALSE
    OBVIOUS
  <2>2. Off \in SUBSET Nat
    OBVIOUS
  <2>3. PICK m \in Off : \A k \in Off : m <= k
    <3> HIDE DEF Off
    <3> QED
      BY <2>1, <2>2, SmallestOf
  <2>4. m \in Nat /\ m <= L /\ up[L - m] # L
    BY <2>3
  <2>5. CASE m = 0
    <3>1. L - m = L /\ Covers(speed, L, rhs)
      BY <1>1, <2>5
    <3> QED
      BY <1>1, <1>5, <2>4, <3>1
  <2>6. CASE m # 0
    <3>1. /\ L - m \in Nat /\ ~(L - m >= L) /\ (L - m) + 1 = L - (m - 1)
          /\ m - 1 \in Nat /\ m - 1 <= L /\ ~(m <= m - 1)
      BY <1>1, <2>4, <2>6
    <3>2. up[L - m] = up[L - (m - 1)]
      <4>1. ~Covers(speed, L - m, rhs)
        BY <1>1, <3>1
      <4> QED
        BY <1>5, <3>1, <4>1
    <3>3. m - 1 \notin Off
      <4> HIDE DEF Off
      <4> QED
        BY <2>3, <3>1
    <3> QED
      BY <2>4, <3>1, <3>2, <3>3
  <2> QED
    BY <2>5, <2>6
<1>7. L - t \in Nat /\ L - t <= L /\ L - (L - t) = t
  BY <1>0, <1>1
<1>8. up[t] = L
  BY <1>6, <1>7
<1> QED
  BY <1>8 DEF L, up

\* geometry.py, measure.py, distance.py: the ceiling search returns the least time.
\* WalkDownStops and WalkUpStops say so of any first guess.
THEOREM SearchIsExact ==
    ASSUME NEW speed \in Nat \ {0}, NEW rhs \in Nat
    PROVE  Search(speed, rhs) = LeastTime(speed, rhs)
<1>1. CASE rhs = 0
  <2>1. LeastTime(speed, rhs) \in 0..rhs
    BY LeastTimeIsLeast
  <2> QED
    BY <1>1, <2>1 DEF Search
<1>2. CASE rhs # 0
  <2> DEFINE g == CeilDiv(CeilSqrt(rhs), speed)
             d == WalkDown(speed, rhs)[g]
  <2>1. g \in Nat
    BY GuessIsNatural
  <2> HIDE DEF g
  <2>2. d \in Nat /\ d <= LeastTime(speed, rhs)
    BY <2>1, WalkDownStops
  <2> HIDE DEF d
  <2>3. WalkUp(speed, rhs)[d] = LeastTime(speed, rhs)
    BY <2>2, WalkUpStops
  <2> QED
    BY <1>2, <2>3 DEF Search, d, g
<1> QED
  BY <1>1, <1>2

\* The two definitions of the light time are one.
LEMMA LightTimeIsLeastTime ==
    ASSUME NEW p \in Point, NEW q \in Point
    PROVE  MinLightTime(p, q) = LeastTime(C, Dist2(p, q))
BY DEF MinLightTime, LeastTime, Reaches

\* geometry.py, measure.py, distance.py: the floors of every receipt are computed
\* exactly, and comparing times with them is the test of the light cone.
THEOREM LoopsAreExactHolds == Spec => []LoopsAreExact
<1>1. MeasurementInv => LoopsAreExact
  <2> SUFFICES ASSUME MeasurementInv, IsReceipt PROVE LoopsAreExact
    BY DEF LoopsAreExact
  <2> DEFINE p == measured.p0
             q == measured.station
             d2 == Dist2(p, q)
  <2>1. p \in Point /\ q \in Point /\ measured.elapsed \in Nat
    <3>1. measured \in Receipts
      BY KindsDiffer DEF MeasurementInv, TypeOK, IsReceipt
    <3> QED
      BY <3>1, MeasurementAssumption DEF Receipts
  <2>2. d2 \in Nat
    BY <2>1, DistIsNatural
  <2>3. C \in Nat \ {0} /\ C * Num \in Nat \ {0} /\ Den * Den * d2 \in Nat /\ 4 * d2 \in Nat
    BY <2>2, CAssumption, MeasurementAssumption
  <2>4. min_light_time_ns(p, q) = MinLightTime(p, q)
    BY <2>1, <2>2, <2>3, SearchIsExact, LightTimeIsLeastTime DEF min_light_time_ns
  <2>5. min_transit_time_ns_eff(p, q, Num, Den) = TransitTime(p, q, Num, Den)
    <3> DEFINE speed == C * Num
               rhs == Den * Den * d2
    <3>1. speed \in Nat \ {0} /\ rhs \in Nat
      BY <2>3
    <3> HIDE DEF speed, rhs
    <3>2. Search(speed, rhs) = LeastTime(speed, rhs)
      BY <3>1, SearchIsExact
    <3> QED
      BY <3>2 DEF min_transit_time_ns_eff, TransitTime, speed, rhs
  <2>6. min_round_trip_ns(p, q) = RoundTripTime(p, q)
    BY <2>3, SearchIsExact DEF min_round_trip_ns, RoundTripTime
  <2>7. CausallyAdmissible(0, p, measured.elapsed, q) <=> measured.elapsed >= MinLightTime(p, q)
    <3>1. measured.elapsed - 0 = measured.elapsed
      BY <2>1
    <3> HIDE DEF p, q
    <3> QED
      BY <2>1, <3>1, AdmissibleFromLightTimeOn
  <2> QED
    BY <2>4, <2>5, <2>6, <2>7 DEF LoopsAreExact, vacuum_floor_ns, typical_floor_ns
<1> QED
  BY <1>1, MeasurementInvariance, PTL

---------------------------------------------------------------------------
(* The envelope of a ship *)

Within(d, b) == -b <= d /\ d <= b

\* A factor bounded by q stays so after both sides are multiplied.
LEMMA WithinProduct ==
    ASSUME NEW w \in Int, NEW q \in Nat, NEW k \in Nat, Within(w, q)
    PROVE  Within(w * k, q * k)
<1>1. 0 <= (q - w) * k /\ 0 <= (q + w) * k
  <2>1. q - w \in Nat /\ q + w \in Nat
    BY DEF Within
  <2>2. \A i \in Nat : i * k \in Nat
    OBVIOUS
  <2> QED
    BY <2>1, <2>2
<1>2. (q - w) * k = q * k - w * k /\ (q + w) * k = q * k + w * k
  OBVIOUS
<1>3. q * k \in Int /\ w * k \in Int
  OBVIOUS
<1> QED
  BY <1>1, <1>2, <1>3 DEF Within

\* A ship at x2 and V (doubled place, speed) has flown for k nanoseconds since it
\* was known to be at x0 and v, within e and q, with its engine in between.
Near(x2, V, x0, v, e, q, k) ==
    /\ Within(x2 - (x0 + 2 * (v * k)), 2 * e + 2 * (q * k) + a_max * (k * k))
    /\ Within(V - v, q + a_max * k)

\* One more nanosecond of flight.
LEMMA Drift ==
    ASSUME NEW x2 \in Int, NEW V \in Int, NEW w \in Int, NEW x0 \in Int, NEW v \in Int,
           NEW e \in Nat, NEW q \in Nat, NEW k \in Nat, a_max \in Nat,
           Near(x2, V, x0, v, e, q, k), Within(w, a_max)
    PROVE  Near(x2 + 2 * V + w, V + w, x0, v, e, q, k + 1)
<1> DEFINE a == a_max
<1>1. a \in Nat
  OBVIOUS
<1>2. /\ Within(x2 - (x0 + 2 * (v * k)), 2 * e + 2 * (q * k) + a * (k * k))
      /\ Within(V - v, q + a * k) /\ Within(w, a)
  BY DEF Near
<1> HIDE DEF a
<1>3. /\ v * (k + 1) = v * k + v /\ q * (k + 1) = q * k + q
      /\ a * (k + 1) = a * k + a
      /\ a * ((k + 1) * (k + 1)) = a * (k * k) + 2 * (a * k) + a
  BY <1>1
<1>4. v * k \in Int /\ q * k \in Int /\ a * k \in Int /\ a * (k * k) \in Int
  BY <1>1
<1>5. /\ Within(x2 + 2 * V + w - (x0 + 2 * (v * (k + 1))),
                2 * e + 2 * (q * (k + 1)) + a * ((k + 1) * (k + 1)))
      /\ Within(V + w - v, q + a * (k + 1))
  BY <1>1, <1>2, <1>3, <1>4 DEF Within
<1> QED
  BY <1>5 DEF Near, a

\* Where the ship is follows from where a signal left it, up to its engine.
SignalTrue(s) ==
    /\ s.t \in Int /\ s.t <= now /\ s.v \in Int /\ s.at[1] \in Int
    /\ Near(ship.x2, ship.v, s.at[1], s.v, 0, 0, now - s.t)

\* An anchor (x, v) of the time t is as good as its errors and the engine allow.
AnchorTrue(x, v, t) ==
    t <= now /\ Near(ship.x2, ship.v, 2 * x, v, u_measured, v_unc, now - t)

LinkInv ==
    /\ now \in Int /\ ship.x2 \in Int /\ ship.v \in Int
    /\ \A s \in flying : s.from \in Nodes /\ (s.from = "ship" => SignalTrue(s))
    /\ \E x, v, t \in Int : envelope = Envelope(x, v, t) /\ AnchorTrue(x, v, t)

LEMMA LinkInitial == ASSUME LinkInit PROVE LinkInv
<1>1. PICK v \in ((-C)..C) \cap ((-v_unc)..v_unc) : ship = [x2 |-> 2 * Start, v |-> v]
  BY DEF LinkInit
<1>2. ship.x2 = 2 * Start /\ ship.v = v /\ v \in Int /\ Within(v, v_unc)
  BY <1>1, SpaceLinkAssumption, CAssumption DEF Within
<1>3. AnchorTrue(Start, 0, 0)
  BY <1>2, SpaceLinkAssumption DEF AnchorTrue, Near, LinkInit, Within
<1> QED
  BY <1>2, <1>3, SpaceLinkAssumption DEF LinkInv, LinkInit

LEMMA FlyStep == ASSUME LinkInv, Fly1 PROVE LinkInv'
<1> DEFINE X == ship.x2
           V == ship.v
<1>1. PICK a \in (-a_max)..a_max : ship' = [x2 |-> ship.x2 + 2 * ship.v + a, v |-> ship.v + a]
  BY DEF Fly1
<1>2. now \in Int /\ X \in Int /\ V \in Int /\ a_max \in Nat /\ v_unc \in Nat /\ u_measured \in Nat
  BY SpaceLinkAssumption DEF LinkInv
<1>3. /\ a \in Int /\ Within(a, a_max) /\ now' = now + 1
      /\ ship'.x2 = X + 2 * V + a /\ ship'.v = V + a
      /\ flying' = flying /\ envelope' = envelope
  BY <1>1, <1>2 DEF Fly1, Within
<1>4. ASSUME NEW s \in flying, SignalTrue(s) PROVE SignalTrue(s)'
  <2> DEFINE k == now - s.t
  <2>1. k \in Nat /\ now' - s.t = k + 1 /\ s.t <= now'
    BY <1>2, <1>3, <1>4 DEF SignalTrue
  <2>2. s.t \in Int /\ s.v \in Int /\ s.at[1] \in Int /\ Near(X, V, s.at[1], s.v, 0, 0, k)
    BY <1>4 DEF SignalTrue
  <2> HIDE DEF k, X, V
  <2>3. Near(X + 2 * V + a, V + a, s.at[1], s.v, 0, 0, k + 1)
    BY <1>2, <1>3, <2>1, <2>2, Drift
  <2>4. Near(ship'.x2, ship'.v, s.at[1], s.v, 0, 0, now' - s.t)
    BY <1>3, <2>1, <2>3
  <2> QED
    BY <2>1, <2>2, <2>4 DEF SignalTrue, Near
<1>5. ASSUME NEW x \in Int, NEW v \in Int, NEW t \in Int, AnchorTrue(x, v, t) PROVE AnchorTrue(x, v, t)'
  <2> DEFINE k == now - t
             y == 2 * x
  <2>1. k \in Nat /\ now' - t = k + 1 /\ t <= now' /\ y \in Int
    BY <1>2, <1>3, <1>5 DEF AnchorTrue
  <2>2. Near(X, V, y, v, u_measured, v_unc, k)
    BY <1>5 DEF AnchorTrue
  <2> HIDE DEF k, X, V, y
  <2>3. Near(X + 2 * V + a, V + a, y, v, u_measured, v_unc, k + 1)
    BY <1>2, <1>3, <2>1, <2>2, Drift
  <2>4. Near(ship'.x2, ship'.v, y, v, u_measured, v_unc, now' - t)
    BY <1>3, <2>1, <2>3
  <2> QED
    BY <2>1, <2>4 DEF AnchorTrue, Near, y
<1>6. \A s \in flying' : s.from \in Nodes /\ (s.from = "ship" => SignalTrue(s)')
  BY <1>3, <1>4 DEF LinkInv
<1>7. \E x, v, t \in Int : envelope' = Envelope(x, v, t) /\ AnchorTrue(x, v, t)'
  BY <1>3, <1>5 DEF LinkInv
<1>8. now' \in Int /\ ship'.x2 \in Int /\ ship'.v \in Int
  BY <1>2, <1>3
<1> QED
  BY <1>6, <1>7, <1>8 DEF LinkInv, Envelope

LEMMA SayStep == ASSUME LinkInv, NEW node \in Nodes, Say(node) PROVE LinkInv'
<1> USE SpaceLinkAssumption
<1> DEFINE vc == Ticked(clocks[node], node)
           new == [from |-> node, t |-> now, v |-> ship.v, at |-> TruePlace(node), vc |-> vc]
<1>1. now' = now /\ ship' = ship /\ envelope' = envelope /\ flying' = flying \cup {new}
  BY DEF Say
<1>2. new.from = node /\ new.t = now /\ new.v = ship.v /\ new.at = TruePlace(node)
  OBVIOUS
<1> HIDE DEF new, vc
<1>3. node = "ship" => SignalTrue(new)
  <2> SUFFICES ASSUME node = "ship" PROVE SignalTrue(new)
    OBVIOUS
  <2>1. new.at[1] = ship.x2 /\ now - new.t = 0
    BY <1>2 DEF TruePlace, LinkInv
  <2> QED
    BY <1>2, <2>1 DEF SignalTrue, Near, LinkInv, Within
<1> QED
  BY <1>1, <1>2, <1>3 DEF LinkInv, SignalTrue, AnchorTrue, Near

LEMMA HearStep == ASSUME LinkInv, NEW node \in Nodes, Hear(node) PROVE LinkInv'
<1> USE SpaceLinkAssumption
<1>1. PICK s \in flying :
        /\ s.from # node /\ now' = now /\ ship' = ship /\ flying' = flying \ {s}
        /\ IF node = "ground" THEN envelope' \in Collapsed(s) ELSE envelope' = envelope
  BY DEF Hear
<1>2. \A z \in flying' : z.from \in Nodes /\ (z.from = "ship" => SignalTrue(z)')
  BY <1>1 DEF LinkInv, SignalTrue, Near
<1>3. CASE node = "ground"
  <2>1. s.from = "ship" /\ SignalTrue(s)
    BY <1>1, <1>3 DEF LinkInv, Nodes
  <2> DEFINE k == now - s.t
  <2>2. /\ k \in Nat /\ s.t \in Int /\ s.t <= now /\ s.v \in Int /\ s.at[1] \in Int
        /\ Within(ship.x2 - (s.at[1] + 2 * (s.v * k)), a_max * (k * k))
        /\ Within(ship.v - s.v, a_max * k)
    BY <2>1 DEF SignalTrue, Near, LinkInv
  <2>3. PICK x \in (Start - C * Horizon)..(Start + C * Horizon), v \in (s.v - v_unc)..(s.v + v_unc) :
          /\ 2 * x - s.at[1] \in (-(2 * u_measured))..(2 * u_measured)
          /\ envelope' = Envelope(x, v, s.t)
    BY <1>1, <1>3 DEF Collapsed
  <2>4. x \in Int /\ v \in Int /\ Within(2 * x - s.at[1], 2 * u_measured) /\ Within(s.v - v, v_unc)
    BY <2>2, <2>3, CAssumption DEF Within
  <2> HIDE DEF k
  <2>5. Within((s.v - v) * k, v_unc * k)
    <3>1. s.v - v \in Int
      BY <2>2, <2>4
    <3> QED
      BY <2>2, <2>4, <3>1, WithinProduct
  <2>6. (s.v - v) * k = s.v * k - v * k
    BY <2>2, <2>4
  <2>7. /\ ship.x2 \in Int /\ ship.v \in Int /\ s.v * k \in Int /\ v * k \in Int
        /\ v_unc * k \in Int /\ a_max * (k * k) \in Int /\ a_max * k \in Int
    BY <2>2, <2>4 DEF LinkInv
  <2>8. /\ Within(ship.x2 - (2 * x + 2 * (v * k)), 2 * u_measured + 2 * (v_unc * k) + a_max * (k * k))
        /\ Within(ship.v - v, v_unc + a_max * k)
    BY <2>2, <2>4, <2>5, <2>6, <2>7 DEF Within
  <2>9. AnchorTrue(x, v, s.t)'
    BY <1>1, <2>2, <2>4, <2>8 DEF AnchorTrue, Near, k
  <2> QED
    BY <1>1, <1>2, <2>2, <2>3, <2>4, <2>9 DEF LinkInv
<1>4. CASE node # "ground"
  BY <1>1, <1>2, <1>4 DEF LinkInv, AnchorTrue, Near
<1> QED
  BY <1>3, <1>4

LEMMA LinkInvariance == LinkSpec => []LinkInv
<1>1. LinkInv /\ [LinkNext]_linkVars => LinkInv'
  <2> SUFFICES ASSUME LinkInv, [LinkNext]_linkVars PROVE LinkInv'
    OBVIOUS
  <2>1. CASE Fly1
    BY <2>1, FlyStep
  <2>2. ASSUME NEW node \in Nodes, Say(node) \/ Hear(node) PROVE LinkInv'
    BY <2>2, SayStep, HearStep
  <2>3. CASE UNCHANGED linkVars
    BY <2>3 DEF linkVars, LinkInv, SignalTrue, AnchorTrue, Near
  <2> QED
    BY <2>1, <2>2, <2>3 DEF LinkNext
<1> QED
  BY <1>1, LinkInitial, PTL DEF LinkSpec

\* The envelope's place is a point, its radius a natural number, and the ship is
\* inside the ball: the manoeuvre term covers what the engine can have done.
LEMMA InsideEnvelope ==
    ASSUME LinkInv
    PROVE  /\ IsTriple(position_at(envelope.nominal, now))
           /\ radius_at(envelope, now) \in Nat
           /\ ShipStaysInside
<1> USE SpaceLinkAssumption
<1>1. PICK x, v, t \in Int : envelope = Envelope(x, v, t) /\ AnchorTrue(x, v, t)
  BY DEF LinkInv
<1> DEFINE k == now - t
           nom == envelope.nominal
           place == position_at(nom, now)
           R == 2 * radius_at(envelope, now)
           d == ship.x2 - (2 * x + 2 * (v * k))
<1>2. k \in Nat /\ ship.x2 \in Int /\ v * k \in Int
  BY <1>1 DEF LinkInv, AnchorTrue, Near
<1>3. Within(d, 2 * u_measured + 2 * (v_unc * k) + a_max * (k * k)) /\ d \in Int
  BY <1>1, <1>2 DEF AnchorTrue, Near
<1>4. place[1] = x + v * k /\ place[2] = Track /\ place[3] = 0
  <2>1. /\ nom.p0 = <<x, Track, 0>> /\ nom.t0 = t /\ nom.num = <<v, 0, 0>> /\ nom.den = 1
    BY <1>1 DEF Envelope
  <2>2. place = [i \in 1..3 |-> nom.p0[i] + (nom.num[i] * k) \div 1]
    BY <2>1 DEF position_at
  <2>3. /\ place[1] = x + (v * k) \div 1 /\ place[2] = Track + (0 * k) \div 1
        /\ place[3] = 0 + (0 * k) \div 1
    BY <2>1, <2>2
  <2>4. \A i \in Int : i \div 1 = i
    OBVIOUS
  <2>5. 0 * k = 0
    BY <1>2
  <2> QED
    BY <1>2, <2>3, <2>4, <2>5
<1>5. Dist2(Twice(place), TruePlace("ship")) = d * d
  <2>1. /\ TruePlace("ship")[1] = ship.x2 /\ TruePlace("ship")[2] = 2 * Track
        /\ TruePlace("ship")[3] = 0
    BY DEF TruePlace
  <2>2. /\ Twice(place)[1] = 2 * (x + v * k) /\ Twice(place)[2] = 2 * Track /\ Twice(place)[3] = 0
    BY <1>4 DEF Twice
  <2>3. /\ TruePlace("ship")[1] - Twice(place)[1] = d
        /\ TruePlace("ship")[2] - Twice(place)[2] = 0
        /\ TruePlace("ship")[3] - Twice(place)[3] = 0
    BY <1>2, <2>1, <2>2
  <2> HIDE DEF d
  <2> QED
    BY <1>3, <2>3 DEF Dist2
<1>6. /\ R \in Nat /\ R >= 2 * u_measured + 2 * (v_unc * k) + a_max * (k * k)
      /\ radius_at(envelope, now) \in Nat
  <2> DEFINE m == a_max * k * k
  <2>1. m = a_max * (k * k) /\ m \in Nat /\ v_unc * k \in Nat
    BY <1>2
  <2>2. radius_at(envelope, now) = u_measured + v_unc * k - ((-m) \div 2)
    BY <1>1 DEF Envelope, radius_at
  <2>3. R = 2 * radius_at(envelope, now)
    OBVIOUS
  <2> HIDE DEF m, R
  <2>4. (-m) \div 2 \in Int /\ 2 * ((-m) \div 2) <= -m
    BY <2>1
  <2> QED
    BY <2>1, <2>2, <2>3, <2>4
<1>9. IsTriple(place)
  BY <1>1, <1>2, <1>4 DEF IsTriple
<1> HIDE DEF d, R, k
<1>7. Within(d, R)
  BY <1>2, <1>3, <1>6 DEF Within
<1>8. d * d <= R * R
  <2>1. CASE d >= 0
    BY <1>3, <1>6, <1>7, <2>1, SquareMonotone DEF Within
  <2>2. CASE d < 0
    <3>1. -d \in Nat /\ -d <= R
      BY <1>3, <1>6, <1>7, <2>2 DEF Within
    <3>2. (-d) * (-d) <= R * R
      BY <1>6, <3>1, SquareMonotone
    <3>3. (-d) * (-d) = d * d
      BY <1>3
    <3> QED
      BY <3>2, <3>3
  <2> QED
    BY <1>3, <2>1, <2>2
<1> QED
  BY <1>5, <1>6, <1>8, <1>9 DEF ShipStaysInside, R

\* uncertainty.py: however the ship flies and whichever signal was heard last, the
\* ship is inside the ball of the envelope's radius, half nanometres included.
THEOREM ShipStaysInsideHolds == LinkSpec => []ShipStaysInside
  BY InsideEnvelope, LinkInvariance, PTL

---------------------------------------------------------------------------
(* The isolation of a commitment's rounds *)

SentRounds ==
    [k : Nat, site_nm : Point, r : Field, y : Int, t_challenge_ns : Int, t_response_ns : Int]

\* The rounds run on the session's schedule, at its two sites in turn.
CommitInv ==
    /\ config \in Configs \cup {NoSession} /\ bit \in Bit
    /\ phase = "rounds" => secrets \in Secrets
    /\ phase = "idle" => sent = <<>>
    /\ sent \in Seq(SentRounds)
    /\ \A i \in 1..Len(sent) :
         /\ sent[i].site_nm = SiteOf(i - 1)
         /\ sent[i].t_challenge_ns = (i - 1) * config.dt_round_ns
         /\ sent[i].t_response_ns = (i - 1) * config.dt_round_ns + config.proc_ns

LEMMA ConfigTypes ==
    ASSUME config \in Configs \cup {NoSession}
    PROVE  /\ config.site_1 \in Point /\ config.site_2 \in Point
           /\ config.dt_round_ns \in Nat /\ config.dt_resp_ns \in Nat /\ config.proc_ns \in Nat
<1>1. <<0, 0, 0>> \in Point
  BY DEF Point
<1> QED
  BY <1>1, CommitmentAssumption DEF NoSession

LEMMA RoundStep == ASSUME CommitInv, DoRound PROVE CommitInv'
<1> DEFINE k == Len(sent)
           t == k * config.dt_round_ns
<1>1. PICK r \in Field :
        sent' = Append(sent, [k |-> k, site_nm |-> SiteOf(k), r |-> r, y |-> Answer(k, bit, secrets, r),
                              t_challenge_ns |-> t, t_response_ns |-> t + config.proc_ns])
  BY DEF DoRound
<1> DEFINE new == [k |-> k, site_nm |-> SiteOf(k), r |-> r, y |-> Answer(k, bit, secrets, r),
                   t_challenge_ns |-> t, t_response_ns |-> t + config.proc_ns]
<1>2. k \in Nat /\ k <= K /\ t \in Int /\ config' = config /\ bit' = bit /\ secrets' = secrets /\ phase' = phase
      /\ phase = "rounds"
  BY ConfigTypes DEF DoRound, CommitInv
<1>3. SiteOf(k) \in Point
  BY ConfigTypes DEF SiteOf, CommitInv
<1>4. Answer(k, bit, secrets, r) \in Int
  <2>1. \A i \in 1..(K + 1) : secrets[i] \in Int
    BY <1>2 DEF CommitInv, Secrets, Field
  <2>2. r \in Int /\ bit \in Int
    BY DEF Field, CommitInv, Bit
  <2>3. \A m \in Int : m % P \in Int
    BY CommitmentAssumption
  <2>4. k = 0 => secrets[1] + bit * r \in Int
    BY <2>1, <2>2, CommitmentAssumption
  <2>5. k # 0 => secrets[k + 1] + secrets[k] * r \in Int
    BY <1>2, <2>1, <2>2, CommitmentAssumption
  <2> QED
    BY <2>3, <2>4, <2>5 DEF Answer, commit_response, sustain_response
<1>5. new \in SentRounds
  BY <1>2, <1>3, <1>4, ConfigTypes DEF SentRounds, CommitInv
<1>6. /\ sent' \in Seq(SentRounds) /\ Len(sent') = k + 1 /\ sent'[k + 1] = new
      /\ \A i \in 1..k : sent'[i] = sent[i]
  <2> HIDE DEF new
  <2>1. sent \in Seq(SentRounds) /\ sent' = Append(sent, new)
    BY <1>1 DEF CommitInv, new
  <2> QED
    BY <1>5, <2>1
<1>7. ASSUME NEW i \in 1..Len(sent')
      PROVE  /\ sent'[i].site_nm = SiteOf(i - 1)'
             /\ sent'[i].t_challenge_ns = (i - 1) * config'.dt_round_ns
             /\ sent'[i].t_response_ns = (i - 1) * config'.dt_round_ns + config'.proc_ns
  <2>1. CASE i <= k
    BY <1>2, <1>6, <2>1 DEF CommitInv, SiteOf
  <2>2. CASE i = k + 1
    <3>1. i - 1 = k
      BY <1>2, <2>2
    <3> QED
      BY <1>2, <1>6, <2>2, <3>1 DEF SiteOf
  <2> QED
    BY <1>2, <1>6, <2>1, <2>2
<1> QED
  BY <1>2, <1>6, <1>7 DEF CommitInv

LEMMA CommitInvariance == CommitSpec => []CommitInv
<1>1. CommitInit => CommitInv
  BY DEF CommitInit, CommitInv, Bit
<1>2. CommitInv /\ [CommitNext]_commitVars => CommitInv'
  <2> SUFFICES ASSUME CommitInv, [CommitNext]_commitVars PROVE CommitInv'
    OBVIOUS
  <2>1. CASE Begin
    BY <2>1 DEF Begin, CommitInv
  <2>2. CASE DoRound
    BY <2>2, RoundStep
  <2>3. CASE Chain \/ Reveal \/ Submit \/ UNCHANGED commitVars
    BY <2>3 DEF Chain, Reveal, Submit, commitVars, CommitInv, SiteOf
  <2> QED
    BY <2>1, <2>2, <2>3 DEF CommitNext
<1> QED
  BY <1>1, <1>2, PTL DEF CommitSpec

\* A gate that light does not pass in the time lapse, it does not pass in less, in
\* either direction.
LEMMA GateCoversLess ==
    ASSUME NEW p \in Point, NEW q \in Point, NEW lapse \in Nat, ~CausallyAdmissible(0, p, lapse, q),
           NEW a \in Int, NEW b \in Int, b - a <= lapse
    PROVE  ~CausallyAdmissible(a, p, b, q) /\ ~CausallyAdmissible(a, q, b, p)
<1>1. Dist2(p, q) \in Nat /\ Dist2(p, q) = Dist2(q, p)
  BY DistIsNatural
<1>2. ~Reaches(lapse, Dist2(p, q))
  BY DEF CausallyAdmissible, Reaches
<1>3. ASSUME b - a >= 0 PROVE ~Reaches(b - a, Dist2(p, q))
  <2>1. b - a \in Nat /\ b - a <= lapse
    BY <1>3
  <2> QED
    BY <1>1, <1>2, <2>1, FutureMonotone DEF T4_future_monotone
<1> QED
  BY <1>1, <1>3 DEF CausallyAdmissible, Reaches

LEMMA NeighboursAlternate == ASSUME NEW n \in Nat PROVE (n % 2 = 0) <=> ((n + 1) % 2 # 0)
OBVIOUS

\* commitment.py: when both gates pass and every response keeps its window, no
\* round is answered with a neighbouring round's challenge, for every schedule.
THEOREM AnswersAreIsolatedHolds == CommitSpec => []AnswersAreIsolated
<1>1. CommitInv => AnswersAreIsolated
  <2> SUFFICES ASSUME CommitInv, Timed, NEW i \in DOMAIN sent, NEW j \in DOMAIN sent, i \in {j - 1, j + 1}
               PROVE  ~CausallyAdmissible(sent[i].t_challenge_ns, sent[i].site_nm,
                                          sent[j].t_response_ns, sent[j].site_nm)
    BY DEF AnswersAreIsolated
  <2> DEFINE d == config.dt_round_ns
             w == config.dt_resp_ns
             a == (i - 1) * d
             b == (j - 1) * d + config.proc_ns
  <2>1. /\ config.site_1 \in Point /\ config.site_2 \in Point
        /\ d \in Nat /\ w \in Nat /\ config.proc_ns \in Nat
    BY ConfigTypes DEF CommitInv
  <2>2. /\ i \in Nat \ {0} /\ j \in Nat \ {0} /\ i \in 1..Len(sent) /\ j \in 1..Len(sent)
    BY DEF CommitInv
  <2>3. /\ sent[i].t_challenge_ns = a /\ sent[i].site_nm = SiteOf(i - 1)
        /\ sent[j].t_response_ns = b /\ sent[j].site_nm = SiteOf(j - 1)
        /\ sent[j].t_challenge_ns = (j - 1) * d
    BY <2>2 DEF CommitInv
  <2>4. config.proc_ns < w
    <3>1. response_in_window(sent[j]) = "ADMITTED"
      BY DEF Timed
    <3>2. sent[j].t_response_ns - sent[j].t_challenge_ns < w
      BY <3>1 DEF response_in_window
    <3>3. (j - 1) * d \in Int
      BY <2>1, <2>2
    <3> QED
      BY <2>1, <2>3, <3>2, <3>3
  <2>5. /\ ~CausallyAdmissible(0, config.site_1, w, config.site_2)
        /\ ~CausallyAdmissible(0, config.site_1, d + w, config.site_2)
    BY DEF Timed, isolation_gate, sustained_isolation_gate
  <2>6. \/ SiteOf(i - 1) = config.site_1 /\ SiteOf(j - 1) = config.site_2
        \/ SiteOf(i - 1) = config.site_2 /\ SiteOf(j - 1) = config.site_1
    <3>1. CASE i = j - 1
      <4>1. (i - 1) \in Nat /\ j - 1 = (i - 1) + 1
        BY <2>2, <3>1
      <4> QED
        BY <4>1, NeighboursAlternate DEF SiteOf
    <3>2. CASE i = j + 1
      <4>1. (j - 1) \in Nat /\ i - 1 = (j - 1) + 1
        BY <2>2, <3>2
      <4> QED
        BY <4>1, NeighboursAlternate DEF SiteOf
    <3> QED
      BY <3>1, <3>2
  <2> HIDE DEF d, w
  <2>7. a \in Int /\ b \in Int
    BY <2>1, <2>2
  <2>8. CASE i = j - 1
    <3>1. (j - 1) * d = (i - 1) * d + d
      BY <2>1, <2>2, <2>8
    <3>2. /\ b = a + d + config.proc_ns
          /\ b \in Int /\ a \in Int /\ d \in Nat /\ w \in Nat /\ config.proc_ns \in Nat
      BY <2>1, <2>7, <3>1 DEF d, w
    <3>3. b - a <= d + w /\ d + w \in Nat
      <4> HIDE DEF a, b
      <4> QED
        BY <2>4, <3>2
    <3> HIDE DEF a, b
    <3> QED
      BY <2>1, <2>3, <2>5, <2>6, <2>7, <3>3, GateCoversLess
  <2>9. CASE i = j + 1
    <3>1. (i - 1) * d = (j - 1) * d + d
      BY <2>1, <2>2, <2>9
    <3>2. /\ a = (j - 1) * d + d
          /\ b \in Int /\ a \in Int /\ d \in Nat /\ w \in Nat /\ config.proc_ns \in Nat
      BY <2>1, <2>7, <3>1 DEF d, w
    <3>3. b - a <= w
      <4> DEFINE c == (j - 1) * d
      <4>1. a = c + d /\ b = c + config.proc_ns /\ c \in Int
        BY <2>1, <2>2, <3>2 DEF d
      <4> HIDE DEF a, b, c
      <4> QED
        BY <2>4, <3>2, <4>1
    <3> HIDE DEF a, b
    <3> QED
      BY <2>1, <2>3, <2>5, <2>6, <2>7, <3>3, GateCoversLess
  <2> QED
    BY <2>8, <2>9
<1> QED
  BY <1>1, CommitInvariance, PTL
---------------------------------------------------------------------------
(* The openings of a commitment *)

\* Division with remainder.
LEMMA DivMod ==
    ASSUME NEW n \in Nat \ {0}, NEW x \in Int
    PROVE  /\ x % n \in 0..(n - 1)
           /\ x \div n \in Int
           /\ x = n * (x \div n) + (x % n)
<1>1. x % n \in 0..(n - 1)
  OBVIOUS
<1>2. x \div n \in Int
  OBVIOUS
<1>3. x = n * (x \div n) + (x % n)
  OBVIOUS
<1> QED
  BY <1>1, <1>2, <1>3

\* The only small multiple is zero.
LEMMA SmallMultiple ==
    ASSUME NEW n \in Nat \ {0}, NEW q \in Int, NEW d \in Int, d = n * q, -n < d, d < n
    PROVE  d = 0
<1>1. CASE q >= 1
  <2>1. n * q >= n
    BY <1>1
  <2> QED
    BY <2>1
<1>2. CASE q <= -1
  <2>1. n * q <= -n
    BY <1>2
  <2> QED
    BY <2>1
<1>3. CASE q = 0
  BY <1>3
<1> QED
  BY <1>1, <1>2, <1>3

Congruent(x, y) == \E q \in Int : x - y = P * q

\* Remainders are equal exactly when the difference is a multiple.
LEMMA SameRemainder ==
    ASSUME NEW x \in Int, NEW y \in Int
    PROVE  x % P = y % P <=> Congruent(x, y)
<1> DEFINE xq == x \div P
           xr == x % P
           yq == y \div P
           yr == y % P
<1>1. P \in Nat \ {0}
  BY CommitmentAssumption
<1>2. /\ xr \in 0..(P - 1) /\ xq \in Int /\ x = P * xq + xr
      /\ yr \in 0..(P - 1) /\ yq \in Int /\ y = P * yq + yr
  BY <1>1, DivMod
<1> HIDE DEF xq, xr, yq, yr
<1>3. x - y = P * (xq - yq) + (xr - yr) /\ xq - yq \in Int
  BY <1>1, <1>2
<1>4. ASSUME xr = yr PROVE Congruent(x, y)
  <2>1. x - y = P * (xq - yq)
    BY <1>1, <1>2, <1>3, <1>4
  <2> QED
    BY <1>3, <2>1 DEF Congruent
<1>5. ASSUME Congruent(x, y) PROVE xr = yr
  <2>1. PICK q \in Int : x - y = P * q
    BY <1>5 DEF Congruent
  <2>2. q - (xq - yq) \in Int /\ xr - yr = P * (q - (xq - yq)) /\ xr - yr \in Int
    BY <1>1, <1>2, <1>3, <2>1
  <2>3. -P < xr - yr /\ xr - yr < P
    BY <1>1, <1>2
  <2>4. xr - yr = 0
    BY <1>1, <2>2, <2>3, SmallMultiple
  <2> QED
    BY <1>2, <2>4
<1> QED
  BY <1>4, <1>5 DEF xr, yr

\* Elements of the field that are congruent are equal.
LEMMA FieldIsReduced ==
    ASSUME NEW x \in Field, NEW y \in Field, Congruent(x, y)
    PROVE  x = y
<1>1. PICK q \in Int : x - y = P * q
  BY DEF Congruent
<1>2. P \in Nat \ {0} /\ x \in Int /\ y \in Int /\ x - y \in Int /\ -P < x - y /\ x - y < P
  BY CommitmentAssumption DEF Field
<1>3. x - y = 0
  BY <1>1, <1>2, SmallMultiple
<1> QED
  BY <1>2, <1>3

\* The field has no divisors of zero.
LEMMA NoZeroDivisors ==
    ASSUME NEW x \in Field, NEW y \in Field, NEW e \in Field, e # 0, Congruent((x - y) * e, 0)
    PROVE  x = y
<1>1. PICK q \in Int : (x - y) * e - 0 = P * q
  BY DEF Congruent
<1>2. P \in Nat \ {0} /\ x \in 0..(P - 1) /\ y \in 0..(P - 1) /\ e \in 1..(P - 1)
  BY CommitmentAssumption DEF Field
<1>3. ASSUME NEW d \in 1..(P - 1), NEW k \in Int, d * e = P * k PROVE FALSE
  <2>1. (d * e) % P # 0 /\ d * e \in Int
    BY <1>2, CommitmentAssumption
  <2>2. Congruent(d * e, 0)
    <3>1. d * e - 0 = P * k
      BY <1>3, <2>1
    <3> QED
      BY <3>1 DEF Congruent
  <2>3. 0 % P = 0
    <3>1. 0 % P \in Field /\ Congruent(0 % P, 0)
      <4>1. 0 % P \in 0..(P - 1) /\ 0 \div P \in Int /\ 0 = P * (0 \div P) + (0 % P)
        BY <1>2, DivMod
      <4>2. (0 % P) - 0 = P * (-(0 \div P))
        BY <1>2, <4>1
      <4> QED
        BY <4>1, <4>2 DEF Field, Congruent
    <3>2. 0 \in Field
      BY <1>2 DEF Field
    <3> QED
      BY <3>1, <3>2, FieldIsReduced
  <2> QED
    BY <2>1, <2>2, <2>3, SameRemainder
<1>4. (x - y) * e = P * q
  BY <1>1, <1>2
<1>5. CASE x > y
  <2>1. x - y \in 1..(P - 1)
    BY <1>2, <1>5
  <2> QED
    BY <1>3, <1>4, <2>1
<1>6. CASE y > x
  <2>1. y - x \in 1..(P - 1) /\ (y - x) * e = P * (-q) /\ -q \in Int
    BY <1>2, <1>4, <1>6
  <2> QED
    BY <1>3, <2>1
<1> QED
  BY <1>2, <1>5, <1>6

\* A response, as the equation of its round has it: by the secret, plus the one
\* before it, or the bit, times the challenge.
LEMMA ResponseDetermines ==
    ASSUME NEW x \in Field, NEW y \in Field, NEW c \in Int, NEW d \in Int, NEW r \in Field,
           (x + c * r) % P = (y + d * r) % P
    PROVE  /\ c = d => x = y
           /\ x = y => Congruent((c - d) * r, 0)
<1>1. P \in Nat \ {0} /\ x \in Int /\ y \in Int /\ r \in Int /\ c * r \in Int /\ d * r \in Int
  BY CommitmentAssumption DEF Field
<1>2. PICK q \in Int : (x + c * r) - (y + d * r) = P * q
  <2>1. x + c * r \in Int /\ y + d * r \in Int
    BY <1>1
  <2>2. Congruent(x + c * r, y + d * r)
    BY <2>1, SameRemainder
  <2> QED
    BY <2>2 DEF Congruent
<1>3. ASSUME c = d PROVE x = y
  <2>1. x - y = P * q
    BY <1>1, <1>2, <1>3
  <2> QED
    BY <2>1, FieldIsReduced DEF Congruent
<1>4. ASSUME x = y PROVE Congruent((c - d) * r, 0)
  <2>1. (c - d) * r = c * r - d * r
    BY <1>1
  <2>2. (c - d) * r - 0 = P * q
    BY <1>1, <1>2, <1>4, <2>1
  <2> QED
    BY <2>2 DEF Congruent
<1> QED
  BY <1>3, <1>4

RoundCount == K + 1

\* The rounds as they were run, what is chained, and what may be revealed of them.
SentInv ==
    /\ Len(sent) <= RoundCount
    /\ phase # "idle" => secrets \in Secrets
    /\ \A i \in 1..Len(sent) :
         /\ sent[i].k = i - 1 /\ sent[i].r \in Field
         /\ sent[i].y = Answer(i - 1, bit, secrets, sent[i].r)

Flipped == [b |-> 1 - bit, secrets |-> [secrets EXCEPT ![1] = (sent[1].y - (1 - bit) * sent[1].r) % P]]
Openings == {[b |-> bit, secrets |-> secrets], Flipped}

\* What is submitted is the session, or a transcript that differs from it in some
\* round or in its length.
TranscriptInv ==
    /\ phase \in {"chained", "revealed", "submitted"} =>
         Len(sent) = RoundCount /\ hashes = chain_transcript(sent)
    /\ phase \in {"chained", "revealed"} => rounds = sent
    /\ phase \in {"idle", "rounds", "chained", "revealed", "submitted"}
    /\ phase = "revealed" => reveal \in Openings
    /\ phase = "submitted" =>
         \/ rounds = sent /\ reveal \in Openings
         \/ rounds # sent /\ DOMAIN rounds = 1..RoundCount /\ \E i \in 1..RoundCount : rounds[i] # sent[i]
         \/ rounds # sent /\ Len(rounds) # RoundCount

OpeningInv == CommitInv /\ SentInv /\ TranscriptInv

\* A round more.
LEMMA RoundIsAnswered == ASSUME OpeningInv, DoRound PROVE SentInv' /\ TranscriptInv'
<1> DEFINE n == Len(sent)
           new(r) == [k |-> n, site_nm |-> SiteOf(n), r |-> r, y |-> Answer(n, bit, secrets, r),
                      t_challenge_ns |-> n * config.dt_round_ns,
                      t_response_ns |-> n * config.dt_round_ns + config.proc_ns]
<1>1. PICK r \in Field : sent' = Append(sent, new(r))
  BY DEF DoRound
<1>2. /\ phase = "rounds" /\ phase' = phase /\ n <= K /\ bit' = bit /\ secrets' = secrets
      /\ sent \in Seq(SentRounds) /\ n \in Nat /\ K \in Nat
  BY CommitmentAssumption DEF DoRound, OpeningInv, CommitInv
<1>3. new(r).k = n /\ new(r).r = r /\ new(r).y = Answer(n, bit, secrets, r)
  OBVIOUS
<1> HIDE DEF new
<1>4. Len(sent') = n + 1 /\ sent'[n + 1] = new(r) /\ \A i \in 1..n : sent'[i] = sent[i]
  BY <1>1, <1>2
<1>5. ASSUME NEW i \in 1..Len(sent')
      PROVE  /\ sent'[i].k = i - 1 /\ sent'[i].r \in Field
             /\ sent'[i].y = Answer(i - 1, bit, secrets, sent'[i].r)
  <2>1. CASE i \in 1..n
    BY <1>4, <2>1 DEF OpeningInv, SentInv
  <2>2. CASE i = n + 1
    <3>1. i - 1 = n
      BY <1>2, <2>2
    <3> QED
      BY <1>3, <1>4, <2>2, <3>1
  <2> QED
    BY <1>2, <1>4, <2>1, <2>2
<1>6. SentInv'
  <2>1. \A i \in 1..Len(sent') : sent'[i].y = Answer(i - 1, bit', secrets', sent'[i].r)
    BY <1>2, <1>5
  <2>2. Len(sent') <= RoundCount'
    BY <1>2, <1>4 DEF RoundCount
  <2> QED
    BY <1>2, <1>5, <2>1, <2>2 DEF OpeningInv, SentInv, Answer, commit_response, sustain_response
<1>7. TranscriptInv'
  BY <1>2 DEF TranscriptInv
<1> QED
  BY <1>6, <1>7

\* A transcript that is altered, reordered or cut short is not the session.
LEMMA SubmittedDiffers == ASSUME OpeningInv, Submit PROVE TranscriptInv'
<1>1. /\ phase = "revealed" /\ phase' = "submitted" /\ sent' = sent /\ hashes' = hashes
      /\ bit' = bit /\ secrets' = secrets
      /\ rounds = sent /\ Len(sent) = RoundCount /\ hashes = chain_transcript(sent) /\ reveal \in Openings
  BY DEF Submit, OpeningInv, TranscriptInv
<1>2. sent \in Seq(SentRounds) /\ DOMAIN sent = 1..RoundCount /\ K \in Nat /\ RoundCount \in Nat
  BY <1>1, CommitmentAssumption DEF OpeningInv, CommitInv, RoundCount
<1>3. \A i \in 1..RoundCount : sent[i] \in SentRounds /\ sent[i].k = i - 1 /\ sent[i].y \in Field
  <2>1. SUFFICES ASSUME NEW i \in 1..RoundCount
                 PROVE  sent[i] \in SentRounds /\ sent[i].k = i - 1 /\ sent[i].y \in Field
    OBVIOUS
  <2>2. sent[i] \in SentRounds /\ sent[i].k = i - 1 /\ sent[i].y = Answer(i - 1, bit, secrets, sent[i].r)
        /\ sent[i].r \in Field /\ secrets \in Secrets /\ bit \in Bit
    BY <1>1, <1>2 DEF OpeningInv, SentInv, CommitInv
  <2>3. \A m \in Int : m % P \in Field
    <3>1. P \in Nat \ {0}
      BY CommitmentAssumption
    <3> QED
      BY <3>1, DivMod DEF Field
  <2>4. \A m \in 1..RoundCount : secrets[m] \in Int
    BY <2>2, CommitmentAssumption DEF Secrets, Field, RoundCount
  <2>5. sent[i].r \in Int /\ bit \in Int
    BY <2>2, CommitmentAssumption DEF Field, Bit
  <2>6. CASE i = 1
    <3>1. secrets[1] + bit * sent[i].r \in Int
      BY <1>2, <2>4, <2>5, <2>6
    <3> QED
      BY <2>2, <2>3, <2>6, <3>1 DEF Answer, commit_response
  <2>7. CASE i # 1
    <3>1. i - 1 # 0 /\ i - 1 \in 1..RoundCount /\ (i - 1) + 1 = i
      BY <1>2, <2>7
    <3>2. secrets[i] + secrets[i - 1] * sent[i].r \in Int
      BY <2>4, <2>5, <3>1
    <3> QED
      BY <2>2, <2>3, <3>1, <3>2 DEF Answer, sustain_response
  <2> QED
    BY <2>6, <2>7
<1> DEFINE Differs == rounds' # sent /\ DOMAIN rounds' = 1..RoundCount
                        /\ \E i \in 1..RoundCount : rounds'[i] # sent[i]
<1>4. ASSUME NEW i \in DOMAIN rounds, NEW rec \in Altered(i), rounds' = [rounds EXCEPT ![i] = rec]
      PROVE  Differs
  <2>1. i \in 1..RoundCount /\ rounds[i] = sent[i]
    BY <1>1, <1>2, <1>4
  <2>2. rec # sent[i]
    <3> DEFINE x == sent[i]
    <3>1. x \in SentRounds /\ x.y \in Field /\ x.k \in Nat
      BY <1>3, <2>1 DEF SentRounds
    <3>2. (x.y + 1) % P # x.y
      <4>1. P \in Nat \ {0, 1} /\ x.y \in 0..(P - 1)
        BY <3>1, CommitmentAssumption DEF Field
      <4>2. SUFFICES ASSUME (x.y + 1) % P = x.y PROVE FALSE
        OBVIOUS
      <4> DEFINE y == x.y
                 q == (y + 1) \div P
      <4>3. q \in Int /\ y + 1 = P * q + y
        <5>1. P \in Nat \ {0} /\ y + 1 \in Int
          BY <4>1
        <5>2. q \in Int /\ y + 1 = P * q + ((y + 1) % P)
          BY <5>1, DivMod
        <5> QED
          BY <4>2, <5>2
      <4> HIDE DEF y, q
      <4>4. 1 = P * q /\ -P < 1 /\ 1 < P
        BY <4>1, <4>3 DEF y
      <4> QED
        BY <4>1, <4>3, <4>4, SmallMultiple
    <3>3. x.k + 1 # x.k /\ -1 # x.k
      BY <3>1
    <3>4. \/ rec = [x EXCEPT !.y = (@ + 1) % P] \/ rec = [x EXCEPT !.k = @ + 1] \/ rec = [x EXCEPT !.k = -1]
      BY <1>4, <2>1 DEF Altered
    <3> HIDE DEF x
    <3>5. rec.y = (x.y + 1) % P \/ rec.k = x.k + 1 \/ rec.k = -1
      BY <3>1, <3>4 DEF SentRounds
    <3>6. rec # x
      BY <3>2, <3>3, <3>5
    <3> QED
      BY <3>6 DEF x
  <2>3. rounds'[i] = rec /\ DOMAIN rounds' = 1..RoundCount
    BY <1>1, <1>2, <1>4, <2>1
  <2> QED
    BY <2>1, <2>2, <2>3
<1>5. ASSUME NEW i \in DOMAIN rounds, NEW j \in DOMAIN rounds, i < j,
             rounds' = [rounds EXCEPT ![i] = rounds[j], ![j] = rounds[i]]
      PROVE  Differs
  <2>1. i \in 1..RoundCount /\ j \in 1..RoundCount /\ rounds[j] = sent[j] /\ rounds[i] = sent[i]
    BY <1>1, <1>2
  <2>2. DOMAIN rounds' = 1..RoundCount /\ rounds'[i] = sent[j]
    BY <1>1, <1>2, <1>5, <2>1
  <2>3. sent[j].k # sent[i].k
    BY <1>2, <1>3, <1>5, <2>1
  <2> QED
    BY <2>1, <2>2, <2>3
<1>6. ASSUME NEW n \in 0..K, rounds' = SubSeq(rounds, 1, n)
      PROVE  rounds' # sent /\ Len(rounds') # RoundCount
  <2>1. n \in Int /\ 1 \in Int /\ \A i \in 1..n : rounds[i] \in SentRounds
    BY <1>1, <1>2, <1>3, <1>6 DEF RoundCount
  <2>2. Len(SubSeq(rounds, 1, n)) = IF 1 <= n THEN n - 1 + 1 ELSE 0
    BY <2>1, SubSeqProperties
  <2>3. Len(rounds') = n
    BY <1>2, <1>6, <2>2
  <2> QED
    BY <1>1, <1>2, <2>3 DEF RoundCount
<1>7. \/ rounds' = rounds /\ reveal' = reveal
      \/ Differs
      \/ rounds' # sent /\ Len(rounds') # RoundCount
  <2> HIDE DEF Differs
  <2> QED
    BY <1>4, <1>5, <1>6 DEF Submit
<1> QED
  BY <1>1, <1>7 DEF TranscriptInv, Openings, Flipped, RoundCount, chain_transcript

\* The invariant of a session, its transcript and its reveal.
LEMMA OpeningInvariance == CommitSpec => []OpeningInv
<1>1. CommitInit => OpeningInv
  <2> SUFFICES ASSUME CommitInit PROVE OpeningInv
    OBVIOUS
  <2>1. CommitInv
    BY DEF CommitInit, CommitInv, Bit
  <2>2. phase = "idle" /\ sent = <<>> /\ Len(sent) = 0 /\ K \in Nat
    BY CommitmentAssumption DEF CommitInit
  <2> QED
    BY <2>1, <2>2 DEF OpeningInv, SentInv, TranscriptInv, RoundCount
<1>2. OpeningInv /\ CommitInv' /\ [CommitNext]_commitVars => OpeningInv'
  <2> SUFFICES ASSUME OpeningInv, CommitInv', [CommitNext]_commitVars PROVE SentInv' /\ TranscriptInv'
    BY DEF OpeningInv
  <2>1. CASE Begin
    <3>1. /\ phase = "idle" /\ phase' = "rounds" /\ secrets' \in Secrets /\ sent' = sent
      BY <2>1 DEF Begin
    <3>2. sent' = <<>> /\ Len(sent') = 0 /\ K \in Nat
      BY <3>1, CommitmentAssumption DEF OpeningInv, CommitInv
    <3>3. 1..Len(sent') = {}
      BY <3>2
    <3> QED
      BY <3>1, <3>2, <3>3 DEF SentInv, TranscriptInv, RoundCount, Secrets, Field
  <2>2. CASE DoRound
    BY <2>2, RoundIsAnswered
  <2>3. SentInv /\ UNCHANGED <<sent, bit, secrets>> /\ phase # "idle" => SentInv'
    BY DEF SentInv, RoundCount, Answer, commit_response, sustain_response, Secrets, Field
  <2>4. CASE Chain
    BY <2>3, <2>4 DEF Chain, OpeningInv, TranscriptInv, RoundCount, chain_transcript
  <2>5. CASE Reveal
    BY <2>3, <2>5 DEF Reveal, OpeningInv, TranscriptInv, RoundCount, chain_transcript, Openings, Flipped
  <2>6. CASE Submit
    <3>1. phase # "idle" /\ UNCHANGED <<sent, bit, secrets>>
      BY <2>6 DEF Submit
    <3> QED
      BY <2>3, <2>6, <3>1, SubmittedDiffers DEF OpeningInv
  <2>7. CASE UNCHANGED commitVars
    BY <2>7 DEF commitVars, OpeningInv, SentInv, TranscriptInv, RoundCount, chain_transcript, Openings, Flipped,
         Answer, commit_response, sustain_response, Secrets, Field
  <2> QED
    BY <2>1, <2>2, <2>4, <2>5, <2>6, <2>7 DEF CommitNext
<1> QED
  BY <1>1, <1>2, CommitInvariance, PTL DEF CommitSpec

\* The equation of a round.
LEMMA AnswerAt ==
    ASSUME NEW i \in 1..RoundCount, NEW b, NEW a, NEW r
    PROVE  Answer(i - 1, b, a, r) = IF i = 1 THEN (a[1] + b * r) % P ELSE (a[i] + a[i - 1] * r) % P
<1>1. i \in Int
  BY CommitmentAssumption DEF RoundCount
<1>2. CASE i = 1
  <2>1. i - 1 = 0
    BY <1>2
  <2> QED
    BY <1>2, <2>1 DEF Answer, commit_response
<1>3. CASE i # 1
  <2>1. i - 1 # 0 /\ (i - 1) + 1 = i
    BY <1>1, <1>3
  <2> QED
    BY <1>3, <2>1 DEF Answer, sustain_response
<1> QED
  BY <1>2, <1>3

Solves(b, a) ==
    \A i \in 1..RoundCount :
      sent[i].y = IF i = 1 THEN (a[1] + b * sent[1].r) % P ELSE (a[i] + a[i - 1] * sent[i].r) % P

\* What the equations of a whole session are solved by.
LEMMA SolvesWhenConsistent ==
    ASSUME OpeningInv, Len(sent) = RoundCount
    PROVE  /\ DOMAIN sent = 1..RoundCount /\ RoundCount \in Nat \ {0}
           /\ \A i \in 1..RoundCount : sent[i].r \in Field /\ sent[i].k = i - 1
           /\ RoundsComplete(sent)
           /\ \A b, a : Inconsistent(sent, b, a) = {} <=> Solves(b, a)
           /\ Solves(bit, secrets)
<1>1. DOMAIN sent = 1..RoundCount /\ RoundCount \in Nat \ {0} /\ K \in Nat /\ RoundCount = K + 1
  BY CommitmentAssumption DEF OpeningInv, CommitInv, RoundCount
<1>2. \A i \in 1..RoundCount :
        sent[i].r \in Field /\ sent[i].k = i - 1 /\ sent[i].y = Answer(i - 1, bit, secrets, sent[i].r)
  BY DEF OpeningInv, SentInv
<1>3. RoundsComplete(sent)
  <2>1. {sent[i].k : i \in DOMAIN sent} = 0..K
    <3>1. \A i \in 1..RoundCount : i - 1 \in 0..K
      BY <1>1
    <3>2. \A n \in 0..K : n + 1 \in 1..RoundCount /\ (n + 1) - 1 = n
      BY <1>1
    <3>3. \A n \in 0..K : \E i \in DOMAIN sent : n = sent[i].k
      BY <1>1, <1>2, <3>2
    <3>4. \A i \in DOMAIN sent : sent[i].k \in 0..K
      BY <1>1, <1>2, <3>1
    <3> QED
      BY <3>3, <3>4
  <2> QED
    BY <1>1, <2>1 DEF RoundsComplete
<1>4. ASSUME NEW b, NEW a, NEW i \in 1..RoundCount
      PROVE  Answer(sent[i].k, b, a, sent[i].r)
               = IF i = 1 THEN (a[1] + b * sent[1].r) % P ELSE (a[i] + a[i - 1] * sent[i].r) % P
  BY <1>2, AnswerAt
<1>5. ASSUME NEW b, NEW a PROVE Inconsistent(sent, b, a) = {} <=> Solves(b, a)
  <2>1. Inconsistent(sent, b, a) = {} <=> \A i \in 1..RoundCount : Answer(sent[i].k, b, a, sent[i].r) = sent[i].y
    BY <1>1 DEF Inconsistent
  <2>2. (\A i \in 1..RoundCount : Answer(sent[i].k, b, a, sent[i].r) = sent[i].y) <=> Solves(b, a)
    BY <1>4 DEF Solves
  <2> QED
    BY <2>1, <2>2
<1>6. Solves(bit, secrets)
  <2>1. Inconsistent(sent, bit, secrets) = {}
    BY <1>1, <1>2 DEF Inconsistent
  <2> QED
    BY <1>5, <2>1
<1> QED
  BY <1>1, <1>2, <1>3, <1>5, <1>6

\* The first place where a property of the places 1 .. RoundCount fails.
LEMMA FirstFailure ==
    ASSUME NEW T \in SUBSET (1..RoundCount), T # {}
    PROVE  \E i \in T : \A j \in 1..RoundCount : j < i => j \notin T
<1>1. T \in SUBSET Nat
  BY CommitmentAssumption DEF RoundCount
<1>2. PICK i \in T : \A j \in T : i <= j
  BY <1>1, SmallestOf
<1>3. \A j \in 1..RoundCount : j \in Int
  BY CommitmentAssumption DEF RoundCount
<1> QED
  BY <1>1, <1>2, <1>3

\* A bit has one vector of secrets that solves the equations.
LEMMA OneSolution ==
    ASSUME OpeningInv, Len(sent) = RoundCount, NEW b \in Bit, NEW a \in Secrets, NEW c \in Secrets,
           Solves(b, a), Solves(b, c)
    PROVE  a = c
<1>1. /\ RoundCount \in Nat \ {0} /\ \A i \in 1..RoundCount : sent[i].r \in Field
      /\ \A i \in 1..RoundCount : a[i] \in Field /\ c[i] \in Field
      /\ \A x \in Field : x \in Int
      /\ b \in Int
  BY SolvesWhenConsistent, CommitmentAssumption DEF Secrets, RoundCount, Field, Bit
<1> DEFINE T == {i \in 1..RoundCount : a[i] # c[i]}
<1>2. T = {}
  <2>1. SUFFICES ASSUME T # {} PROVE FALSE
    OBVIOUS
  <2>2. T \in SUBSET (1..RoundCount)
    OBVIOUS
  <2>3. PICK i \in T : \A j \in 1..RoundCount : j < i => j \notin T
    <3> HIDE DEF T
    <3> QED
      BY <2>1, <2>2, FirstFailure
  <2>4. i \in 1..RoundCount /\ a[i] # c[i] /\ i \in Int
    BY <1>1, <2>3
  <2> DEFINE r == sent[i].r
  <2>5. r \in Field /\ a[i] \in Field /\ c[i] \in Field
    BY <1>1, <2>4
  <2>6. CASE i = 1
    <3>1. (a[i] + b * r) % P = (c[i] + b * r) % P
      BY <2>4, <2>6 DEF Solves
    <3> HIDE DEF r
    <3>2. a[i] = c[i]
      BY <1>1, <2>5, <3>1, ResponseDetermines
    <3> QED
      BY <2>4, <3>2
  <2>7. CASE i # 1
    <3>1. i - 1 \in 1..RoundCount /\ i - 1 < i
      BY <1>1, <2>4, <2>7
    <3>2. a[i - 1] = c[i - 1] /\ a[i - 1] \in Int
      BY <1>1, <2>3, <3>1
    <3>3. (a[i] + a[i - 1] * r) % P = (c[i] + a[i - 1] * r) % P
      BY <2>4, <2>7, <3>2 DEF Solves
    <3> DEFINE d == a[i - 1]
    <3> HIDE DEF r, d
    <3>4. a[i] = c[i]
      BY <2>5, <3>2, <3>3, ResponseDetermines DEF d
    <3> QED
      BY <2>4, <3>4
  <2> QED
    BY <2>6, <2>7
<1>3. a = [i \in 1..RoundCount |-> a[i]] /\ c = [i \in 1..RoundCount |-> c[i]]
  BY DEF Secrets, RoundCount
<1> QED
  BY <1>2, <1>3

\* One is no multiple of itself and another bit: the two bits times a challenge
\* that is not zero are not congruent.
LEMMA BitsApart ==
    ASSUME NEW b \in Bit, NEW c \in Bit, b # c, NEW r \in Field, r # 0
    PROVE  ~Congruent((b - c) * r, 0)
<1>1. SUFFICES ASSUME Congruent((b - c) * r, 0) PROVE FALSE
  OBVIOUS
<1>2. P \in Nat \ {0, 1} /\ b \in Field /\ c \in Field
  BY CommitmentAssumption DEF Bit, Field
<1> QED
  BY <1>1, <1>2, NoZeroDivisors

\* Where no challenge is zero, what opens the other bit shares no secret.
LEMMA OtherBitSharesNothing ==
    ASSUME OpeningInv, Len(sent) = RoundCount, NEW b \in Bit, b # bit, NEW a \in Secrets, Solves(b, a),
           \A i \in 1..RoundCount : sent[i].r # 0, secrets \in Secrets
    PROVE  \A i \in 1..RoundCount : a[i] # secrets[i]
<1>1. /\ RoundCount \in Nat \ {0} /\ \A i \in 1..RoundCount : sent[i].r \in Field
      /\ \A i \in 1..RoundCount : a[i] \in Field /\ secrets[i] \in Field
      /\ \A x \in Field : x \in Int
      /\ b \in Int /\ bit \in Int /\ bit \in Bit
      /\ Solves(bit, secrets)
  BY SolvesWhenConsistent, CommitmentAssumption DEF Secrets, RoundCount, Field, Bit, OpeningInv, CommitInv
<1> DEFINE T == {i \in 1..RoundCount : a[i] = secrets[i]}
<1>2. T = {}
  <2>1. SUFFICES ASSUME T # {} PROVE FALSE
    OBVIOUS
  <2>2. T \in SUBSET (1..RoundCount)
    OBVIOUS
  <2>3. PICK i \in T : \A j \in 1..RoundCount : j < i => j \notin T
    <3> HIDE DEF T
    <3> QED
      BY <2>1, <2>2, FirstFailure
  <2>4. i \in 1..RoundCount /\ a[i] = secrets[i] /\ i \in Int
    BY <1>1, <2>3
  <2> DEFINE r == sent[i].r
             x == a[i]
             y == secrets[i]
  <2>5. r \in Field /\ r # 0 /\ x \in Field /\ y \in Field /\ x = y
    BY <1>1, <2>4
  <2>6. CASE i = 1
    <3>1. (x + b * r) % P = (y + bit * r) % P
      BY <1>1, <2>4, <2>6 DEF Solves
    <3> HIDE DEF r, x, y
    <3>2. Congruent((b - bit) * r, 0)
      BY <1>1, <2>5, <3>1, ResponseDetermines
    <3> QED
      BY <1>1, <2>5, <3>2, BitsApart
  <2>7. CASE i # 1
    <3>1. i - 1 \in 1..RoundCount /\ i - 1 < i
      BY <1>1, <2>4, <2>7
    <3> DEFINE d == a[i - 1]
               e == secrets[i - 1]
    <3>2. d # e /\ d \in Field /\ e \in Field /\ d \in Int /\ e \in Int
      BY <1>1, <2>3, <3>1
    <3>3. (x + d * r) % P = (y + e * r) % P
      BY <1>1, <2>4, <2>7 DEF Solves
    <3> HIDE DEF r, x, y, d, e
    <3>4. Congruent((d - e) * r, 0)
      BY <2>5, <3>2, <3>3, ResponseDetermines
    <3> QED
      BY <2>5, <3>2, <3>4, NoZeroDivisors
  <2> QED
    BY <2>6, <2>7
<1> QED
  BY <1>2

\* commitment.py: a transcript admits the committed bit with the committer's own
\* secrets, the other bit with at most one vector of secrets, which shares none of
\* them unless some challenge was zero, for every field and number of rounds.
THEOREM OneOpeningPerBitHolds == CommitSpec => []OneOpeningPerBit
<1>1. OpeningInv => OneOpeningPerBit
  <2> SUFFICES ASSUME OpeningInv, phase = "chained", NEW b \in Bit, NEW a \in Secrets,
                      verify_reveal(sent, b, a).verdict = "ADMITTED"
               PROVE  /\ b = bit => a = secrets
                      /\ b # bit /\ (\A i \in DOMAIN sent : sent[i].r # 0) =>
                           \A i \in DOMAIN a : a[i] # secrets[i]
                      /\ b # bit => \A a2 \in Secrets :
                           verify_reveal(sent, b, a2).verdict = "ADMITTED" => a2 = a
    BY DEF OneOpeningPerBit
  <2>1. Len(sent) = RoundCount /\ secrets \in Secrets
    BY DEF OpeningInv, TranscriptInv, SentInv
  <2>2. DOMAIN sent = 1..RoundCount /\ Solves(bit, secrets)
        /\ \A x, y : Inconsistent(sent, x, y) = {} <=> Solves(x, y)
    BY <2>1, SolvesWhenConsistent
  <2>3. ASSUME NEW c \in Secrets, verify_reveal(sent, b, c).verdict = "ADMITTED" PROVE Solves(b, c)
    <3>1. Failure(-1).verdict = "REJECTED" /\ \A n : Failure(n).verdict = "REJECTED"
      BY DEF Failure
    <3>2. Inconsistent(sent, b, c) = {}
      BY <2>3, <3>1 DEF verify_reveal
    <3> QED
      BY <2>2, <3>2
  <2>4. Solves(b, a)
    BY <2>3
  <2>5. DOMAIN a = 1..RoundCount
    BY DEF Secrets, RoundCount
  <2>6. b = bit => a = secrets
    BY <2>1, <2>2, <2>4, OneSolution
  <2>7. ASSUME NEW a2 \in Secrets, verify_reveal(sent, b, a2).verdict = "ADMITTED" PROVE a2 = a
    BY <2>1, <2>3, <2>4, <2>7, OneSolution
  <2>8. ASSUME b # bit, \A i \in DOMAIN sent : sent[i].r # 0 PROVE \A i \in DOMAIN a : a[i] # secrets[i]
    BY <2>1, <2>2, <2>4, <2>5, <2>8, OtherBitSharesNothing
  <2> QED
    BY <2>6, <2>7, <2>8
<1> QED
  BY <1>1, OpeningInvariance, PTL

\* The hashes of a transcript are as many as its rounds, one for each.
LEMMA ChainIsOfRounds ==
    ASSUME NEW S, NEW rs \in Seq(S)
    PROVE  Len(chain_transcript(rs)) = Len(rs)
<1>1. Len(rs) \in Nat /\ DOMAIN rs = 1..Len(rs)
  OBVIOUS
<1>2. ASSUME NEW i \in 1..Len(rs) PROVE SubSeq(rs, 1, i) \in Seq(S)
  <2>1. i \in Int /\ 1 \in Int /\ \A j \in 1..i : rs[j] \in S
    BY <1>1
  <2> QED
    BY <2>1, SubSeqProperties
<1>3. chain_transcript(rs) \in [1..Len(rs) -> Seq(S)]
  BY <1>1, <1>2 DEF chain_transcript
<1>4. chain_transcript(rs) \in Seq(Seq(S))
  BY <1>1, <1>3, SeqDef
<1>5. DOMAIN chain_transcript(rs) = 1..Len(rs)
  BY <1>3
<1> QED
  BY <1>1, <1>4, <1>5

\* The hash of a round binds the round.
LEMMA ChainBindsRound ==
    ASSUME NEW S, NEW rs, DOMAIN rs = 1..RoundCount, NEW qs \in Seq(S), Len(qs) = RoundCount,
           NEW i \in 1..RoundCount, rs[i] # qs[i]
    PROVE  chain_transcript(qs)[i] # chain_transcript(rs)[i]
<1>1. i \in Int /\ 1 \in Int /\ 1 <= i /\ i - 1 + 1 = i /\ i \in 1..(i - 1 + 1) /\ 1 + i - 1 = i
      /\ DOMAIN qs = 1..RoundCount
  BY CommitmentAssumption DEF RoundCount
<1>2. chain_transcript(qs)[i] = SubSeq(qs, 1, i) /\ chain_transcript(rs)[i] = SubSeq(rs, 1, i)
  BY <1>1 DEF chain_transcript
<1> DEFINE U == S \cup {rs[j] : j \in DOMAIN rs}
<1>3. (\A j \in 1..i : rs[j] \in U) /\ (\A j \in 1..i : qs[j] \in U)
  <2>1. \A j \in 1..i : j \in 1..RoundCount
    BY CommitmentAssumption DEF RoundCount
  <2> QED
    BY <1>1, <2>1
<1> HIDE DEF U
<1>4. SubSeq(rs, 1, i)[i] = rs[1 + i - 1]
  BY <1>1, <1>3, SubSeqProperties
<1>5. SubSeq(qs, 1, i)[i] = qs[1 + i - 1]
  BY <1>1, <1>3, SubSeqProperties
<1> QED
  BY <1>1, <1>2, <1>4, <1>5

\* The a_0 that is solved for the other bit is the answer of round 0, and differs
\* from the committer's unless the challenge was zero.
LEMMA FlipFits ==
    ASSUME NEW s \in Field, NEW b \in Bit, NEW c \in Bit, b # c, NEW r \in Field,
           NEW y, y = (s + b * r) % P, NEW f, f = (y - c * r) % P
    PROVE  f \in Field /\ (f + c * r) % P = y /\ (r # 0 => f # s)
<1>1. /\ P \in Nat \ {0} /\ s \in Int /\ b \in Int /\ c \in Int /\ r \in Int
      /\ b * r \in Int /\ c * r \in Int
  BY CommitmentAssumption DEF Field, Bit
<1>2. /\ y \in 0..(P - 1) /\ (s + b * r) \div P \in Int
      /\ s + b * r = P * ((s + b * r) \div P) + y
  <2>1. s + b * r \in Int
    BY <1>1
  <2> QED
    BY <1>1, <2>1, DivMod
<1>3. /\ f \in 0..(P - 1) /\ (y - c * r) \div P \in Int
      /\ y - c * r = P * ((y - c * r) \div P) + f
  <2>1. y - c * r \in Int
    BY <1>1, <1>2
  <2> QED
    BY <1>1, <2>1, DivMod
<1> DEFINE q == (y - c * r) \div P
           m == f + c * r
<1>4. y \in Field /\ f \in Field /\ y \in Int /\ f \in Int
  BY <1>1, <1>2, <1>3 DEF Field
<1>5. m % P = y
  <2>1. m \in Int /\ q \in Int /\ m - y = P * (-q) /\ -q \in Int
    <3> HIDE DEF q
    <3>1. q \in Int /\ y - c * r = P * q + f
      BY <1>3 DEF q
    <3> QED
      BY <1>1, <1>4, <3>1
  <2>2. m % P = y % P
    <3>1. Congruent(m, y)
      BY <2>1 DEF Congruent
    <3> HIDE DEF m
    <3> QED
      BY <1>4, <2>1, <3>1, SameRemainder
  <2>3. y % P = y
    <3>1. y % P \in Field /\ Congruent(y % P, y)
      <4>1. y % P \in 0..(P - 1) /\ y \div P \in Int /\ y = P * (y \div P) + (y % P)
        BY <1>1, <1>4, DivMod
      <4>2. (y % P) - y = P * (-(y \div P)) /\ -(y \div P) \in Int
        BY <1>1, <1>4, <4>1
      <4> QED
        BY <4>1, <4>2 DEF Field, Congruent
    <3> QED
      BY <1>4, <3>1, FieldIsReduced
  <2> QED
    BY <2>2, <2>3
<1>6. ASSUME r # 0, f = s PROVE FALSE
  <2>1. (s + b * r) % P = (s + c * r) % P
    BY <1>5, <1>6
  <2>2. Congruent((b - c) * r, 0)
    BY <1>1, <2>1, ResponseDetermines
  <2> QED
    BY <1>6, <2>2, BitsApart
<1> QED
  BY <1>4, <1>5, <1>6

\* commitment.py: of what is submitted, only the session as it was run passes both
\* the reveal and the hash chain, and it opens the committed bit and no other.
THEOREM OnlyTheTranscriptPassesHolds == CommitSpec => []OnlyTheTranscriptPasses
<1>1. OpeningInv => OnlyTheTranscriptPasses
  <2> SUFFICES ASSUME OpeningInv, phase = "submitted"
               PROVE  LET opened == verify_reveal(rounds, reveal.b, reveal.secrets)
                          chained == verify_transcript_chain(rounds, hashes)
                      IN  /\ rounds = sent =>
                               /\ chained = NoFailure
                               /\ reveal.b = bit => opened = NoFailure
                               /\ reveal.b # bit /\ K > 0 /\ sent[1].r # 0 /\ sent[2].r # 0 => opened = Failure(1)
                          /\ rounds # sent => opened.verdict = "REJECTED" \/ chained.verdict = "REJECTED"
    BY DEF OnlyTheTranscriptPasses
  <2>1. /\ Len(sent) = RoundCount /\ hashes = chain_transcript(sent) /\ secrets \in Secrets
        /\ sent \in Seq(SentRounds) /\ bit \in Bit
    BY DEF OpeningInv, TranscriptInv, SentInv, CommitInv
  <2>2. /\ DOMAIN sent = 1..RoundCount /\ RoundCount \in Nat \ {0} /\ RoundsComplete(sent)
        /\ \A i \in 1..RoundCount : sent[i].r \in Field /\ sent[i].k = i - 1
        /\ Solves(bit, secrets)
        /\ \A x, y : Inconsistent(sent, x, y) = {} <=> Solves(x, y)
    BY <2>1, SolvesWhenConsistent
  <2>3. Len(hashes) = RoundCount
    BY <2>1, ChainIsOfRounds
  <2>4. \A n : Failure(n).verdict = "REJECTED"
    BY DEF Failure
  <2>5. ASSUME NEW a, a \in Secrets PROVE Len(a) = RoundCount
    <3>1. a \in Seq(Field)
      BY <2>2, <2>5, SeqDef DEF Secrets, RoundCount
    <3> QED
      BY <2>2, <2>5, <3>1 DEF Secrets, RoundCount
  <2>6. ASSUME rounds = sent
        PROVE  /\ verify_transcript_chain(rounds, hashes) = NoFailure
               /\ reveal.b = bit => verify_reveal(rounds, reveal.b, reveal.secrets) = NoFailure
               /\ reveal.b # bit /\ K > 0 /\ sent[1].r # 0 /\ sent[2].r # 0
                    => verify_reveal(rounds, reveal.b, reveal.secrets) = Failure(1)
    <3>1. reveal \in Openings
      BY <2>1, <2>6 DEF OpeningInv, TranscriptInv
    <3>2. verify_transcript_chain(rounds, hashes) = NoFailure
      <4>1. {i \in DOMAIN rounds : i > Len(hashes) \/ hashes[i] # chain_transcript(rounds)[i]} = {}
        BY <2>1, <2>2, <2>3, <2>6
      <4> QED
        BY <4>1 DEF verify_transcript_chain
    <3>3. 1 - bit \in Bit /\ 1 - bit # bit /\ \A b \in Bit : b # bit => b = 1 - bit
      BY <2>1 DEF Bit
    <3>4. ASSUME reveal.b = bit PROVE verify_reveal(rounds, reveal.b, reveal.secrets) = NoFailure
      <4>1. reveal.secrets = secrets
        BY <3>1, <3>3, <3>4 DEF Openings, Flipped
      <4>2. Len(secrets) = Len(sent)
        BY <2>1, <2>5
      <4> QED
        BY <2>1, <2>2, <2>6, <3>4, <4>1, <4>2 DEF verify_reveal
    <3>5. ASSUME reveal.b # bit, K > 0, sent[1].r # 0, sent[2].r # 0
          PROVE  verify_reveal(rounds, reveal.b, reveal.secrets) = Failure(1)
      <4> DEFINE b == reveal.b
                 a == reveal.secrets
                 f == (sent[1].y - (1 - bit) * sent[1].r) % P
      <4>1. b = 1 - bit /\ a = [secrets EXCEPT ![1] = f]
        BY <3>1, <3>5 DEF Openings, Flipped
      <4>2. 1 \in 1..RoundCount /\ 2 \in 1..RoundCount
        BY <3>5, CommitmentAssumption DEF RoundCount
      <4>3. DOMAIN secrets = 1..RoundCount /\ (\A i \in 1..RoundCount : secrets[i] \in Field)
        BY <2>1 DEF Secrets, RoundCount
      <4>4. a[1] = f /\ a[2] = secrets[2] /\ DOMAIN a = 1..RoundCount
        BY <4>1, <4>2, <4>3
      <4>5. /\ sent[1].y = (secrets[1] + bit * sent[1].r) % P
            /\ sent[2].y = (secrets[2] + secrets[1] * sent[2].r) % P
        BY <2>2, <4>2 DEF Solves
      <4>6. f \in Field /\ (f + (1 - bit) * sent[1].r) % P = sent[1].y /\ f # secrets[1]
        BY <2>1, <2>2, <3>3, <3>5, <4>2, <4>3, <4>5, FlipFits
      <4> HIDE DEF f
      <4>7. a \in Secrets
        BY <2>1, <4>1, <4>6 DEF Secrets
      <4> HIDE DEF a
      <4>8. Answer(sent[1].k, b, a, sent[1].r) = sent[1].y
        <5>1. Answer(0, b, a, sent[1].r) = (f + (1 - bit) * sent[1].r) % P
          BY <4>1, <4>4 DEF Answer, commit_response
        <5>2. sent[1].k = 0
          BY <2>2, <4>2
        <5> QED
          BY <4>6, <5>1, <5>2
      <4>9. Answer(sent[2].k, b, a, sent[2].r) # sent[2].y
        <5>1. sent[2].k = 1
          BY <2>2, <4>2
        <5>2. Answer(1, b, a, sent[2].r) = (secrets[2] + f * sent[2].r) % P
          BY <4>4 DEF Answer, sustain_response
        <5>3. SUFFICES ASSUME (secrets[2] + f * sent[2].r) % P = (secrets[2] + secrets[1] * sent[2].r) % P
                       PROVE  FALSE
          BY <4>5, <5>1, <5>2
        <5> DEFINE x == secrets[2]
                   e == secrets[1]
                   r == sent[2].r
        <5>4. x \in Field /\ e \in Field /\ e \in Int /\ f \in Int /\ r \in Field /\ r # 0
          BY <2>2, <3>5, <4>2, <4>3, <4>6, CommitmentAssumption DEF Field
        <5>5. (x + f * r) % P = (x + e * r) % P
          BY <5>3
        <5>6. f # e
          BY <4>6
        <5> HIDE DEF x, e, r
        <5>7. Congruent((f - e) * r, 0)
          BY <5>4, <5>5, ResponseDetermines
        <5> QED
          BY <4>6, <5>4, <5>6, <5>7, NoZeroDivisors
      <4> DEFINE I == Inconsistent(sent, b, a)
      <4>10. I \subseteq 1..RoundCount /\ 2 \in I /\ 1 \notin I
        BY <2>2, <4>2, <4>8, <4>9 DEF Inconsistent
      <4>11. Least(I) = 2
        <5> HIDE DEF I
        <5>1. \A i \in I : 2 <= i
          <6>1. \A i \in I : i \in 1..RoundCount /\ i # 1
            BY <4>10
          <6>2. \A i \in 1..RoundCount : i # 1 => 2 <= i
            BY <2>2
          <6> QED
            BY <6>1, <6>2
        <5>2. \A i \in I : i <= 2 => i = 2
          BY <2>2, <4>10, <5>1
        <5> QED
          BY <4>10, <5>1, <5>2 DEF Least
      <4>12. Failure(sent[Least(I)].k) = Failure(1)
        BY <2>2, <4>2, <4>11
      <4>13. b \in Bit /\ Len(a) = Len(sent) /\ I # {}
        BY <2>1, <2>5, <3>3, <4>1, <4>7, <4>10
      <4>14. verify_reveal(sent, b, a) = Failure(1)
        BY <2>2, <4>12, <4>13 DEF verify_reveal
      <4> QED
        BY <2>6, <4>14 DEF a
    <3> QED
      BY <3>2, <3>4, <3>5
  <2>7. ASSUME rounds # sent
        PROVE  \/ verify_reveal(rounds, reveal.b, reveal.secrets).verdict = "REJECTED"
               \/ verify_transcript_chain(rounds, hashes).verdict = "REJECTED"
    <3>1. CASE Len(rounds) # RoundCount
      <4>1. ~RoundsComplete(rounds)
        BY <3>1 DEF RoundsComplete, RoundCount
      <4> QED
        BY <2>4, <4>1 DEF verify_reveal
    <3>2. CASE Len(rounds) = RoundCount
      <4>1. PICK i \in 1..RoundCount : DOMAIN rounds = 1..RoundCount /\ rounds[i] # sent[i]
        BY <2>7, <3>2 DEF OpeningInv, TranscriptInv
      <4>2. hashes[i] # chain_transcript(rounds)[i]
        BY <2>1, <4>1, ChainBindsRound
      <4>3. {j \in DOMAIN rounds : j > Len(hashes) \/ hashes[j] # chain_transcript(rounds)[j]} # {}
        BY <4>1, <4>2
      <4> QED
        BY <2>4, <4>3 DEF verify_transcript_chain
    <3> QED
      BY <3>1, <3>2
  <2> QED
    BY <2>6, <2>7
<1> QED
  BY <1>1, OpeningInvariance, PTL

---------------------------------------------------------------------------
(* The certificates *)

Hashes == [payload_hash : {Payload, OtherPayload}, t0 : Claims, p0 : Places]
SignedBodies ==
    [station_id : StationIds \cup {StrangerId}, station_pos_nm : Point, hash : Hashes, recv_time_ns : Int]
CertReceipt == [body : SignedBodies, mac : [key : StationIds \cup {StrangerId}, of : SignedBodies]]

CertTypeOK ==
    /\ receipts \in Seq(CertReceipt)
    /\ IsEmitted => truth \in Places /\ signed \in EventClaim /\ claim \in EventClaim

\* No station can have stamped the event before light and the station itself
\* were done with it, give or take its clock.
NotBefore(s) == EmitTime + MinLightTime(truth, PosOf(s)) - UOf(s)

\* A receipt that is signed, of this event and by a station where it was surveyed
\* is one the station made: of the claim it was told, at a time that can be.
ReceiptsAreMade ==
    \A i \in DOMAIN receipts :
      LET r == receipts[i]
      IN  /\ verify_receipt(r) /\ r.body.station_id \in StationIds
          /\ r.body.hash.payload_hash = Payload
          => r.body.hash = signed /\ r.body.recv_time_ns >= NotBefore(r.body.station_id)

CertInv == CertTypeOK /\ (~IsEmitted => receipts = <<>>) /\ ReceiptsAreMade

\* The light time of a place and a station, as the table has it.
LEMMA VacuumFloors ==
    ASSUME NEW p \in Places, NEW s \in StationIds
    PROVE  /\ vacuum_floor[p][s] = MinLightTime(p, PosOf(s)) /\ vacuum_floor[p][s] \in Nat
           /\ UOf(s) \in Nat /\ ProcDelayOf(s) \in Nat /\ PosOf(s) \in Point /\ p \in Point
<1>1. vacuum_floor[p][s] = MinLightTime(p, PosOf(s))
  BY DEF vacuum_floor
<1>2. UOf(s) \in Nat /\ ProcDelayOf(s) \in Nat /\ PosOf(s) \in Point /\ p \in Point
  BY CertificatesAssumption
<1>3. MinLightTime(p, PosOf(s)) \in Nat
  BY <1>2, LightTimeIsExact DEF IsLightTime
<1> QED
  BY <1>1, <1>2, <1>3

\* A claim is no claim before it is stated.
LEMMA ClaimsAreStated == \A c \in EventClaim : c # NoEmission /\ c.payload_hash = Payload
                                               /\ c.t0 \in Claims /\ c.p0 \in Places /\ c \in Hashes
<1>1. SUFFICES ASSUME NEW c \in EventClaim
               PROVE  c # NoEmission /\ c.payload_hash = Payload /\ c.t0 \in Claims /\ c.p0 \in Places /\ c \in Hashes
  OBVIOUS
<1>2. c.payload_hash = Payload /\ c.t0 \in Claims /\ c.p0 \in Places /\ c \in Hashes
  BY DEF EventClaim, Hashes
<1>3. NoEmission.payload_hash = OtherPayload
  BY DEF NoEmission
<1> QED
  BY <1>2, <1>3, CertificatesAssumption

\* One receipt more, made as ReceiptsAreMade says.
LEMMA CertAppend ==
    ASSUME CertInv, NEW r \in CertReceipt, Append_(r),
           verify_receipt(r) /\ r.body.station_id \in StationIds /\ r.body.hash.payload_hash = Payload
             => r.body.hash = signed /\ r.body.recv_time_ns >= NotBefore(r.body.station_id)
    PROVE  CertInv'
<1>1. /\ IsEmitted /\ receipts' = Append(receipts, r)
      /\ truth' = truth /\ signed' = signed /\ claim' = claim
  BY DEF Append_
<1>2. receipts \in Seq(CertReceipt)
  BY DEF CertInv, CertTypeOK
<1>3. CertTypeOK' /\ IsEmitted'
  BY <1>1, <1>2 DEF CertInv, CertTypeOK, IsEmitted
<1>4. ReceiptsAreMade'
  <2>1. SUFFICES ASSUME NEW i \in DOMAIN receipts', NEW q, q = receipts'[i],
                        verify_receipt(q), q.body.station_id \in StationIds, q.body.hash.payload_hash = Payload
                 PROVE  q.body.hash = signed /\ q.body.recv_time_ns >= NotBefore(q.body.station_id)
    BY <1>1 DEF ReceiptsAreMade, verify_receipt, NotBefore
  <2>2. i \in DOMAIN receipts \/ q = r
    BY <1>1, <1>2, <2>1
  <2>3. CASE q = r
    BY <2>1, <2>3
  <2>4. CASE i \in DOMAIN receipts
    <3>1. q = receipts[i]
      BY <1>1, <1>2, <2>1, <2>4
    <3> QED
      BY <2>1, <2>4, <3>1 DEF CertInv, ReceiptsAreMade
  <2> QED
    BY <2>2, <2>3, <2>4
<1> QED
  BY <1>3, <1>4 DEF CertInv

\* What a station signs is signed.
LEMMA SignedBody ==
    ASSUME NEW s \in StationIds \cup {StrangerId}, NEW p \in Point, NEW h \in Hashes, NEW t \in Int
    PROVE  /\ sign_receipt(Body(s, p, h, t)) \in CertReceipt
           /\ sign_receipt(Body(s, p, h, t)).body.station_id = s
           /\ sign_receipt(Body(s, p, h, t)).body.hash = h
           /\ sign_receipt(Body(s, p, h, t)).body.recv_time_ns = t
<1>1. Body(s, p, h, t) \in SignedBodies
  BY DEF Body, SignedBodies
<1> QED
  BY <1>1 DEF sign_receipt, Body, CertReceipt

\* Every step keeps it.
LEMMA CertStep == CertInv /\ [CertNext]_certVars => CertInv'
<1> SUFFICES ASSUME CertInv, [CertNext]_certVars PROVE CertInv'
  OBVIOUS
<1>1. CASE Emit
  <2>1. ~IsEmitted /\ truth' \in Places /\ claim' \in EventClaim /\ signed' = claim' /\ receipts' = receipts
    BY <1>1 DEF Emit
  <2>2. receipts = <<>>
    BY <2>1 DEF CertInv
  <2>3. IsEmitted'
    BY <2>1, ClaimsAreStated DEF IsEmitted
  <2>4. receipts' \in Seq(CertReceipt) /\ DOMAIN receipts' = {}
    BY <2>1, <2>2
  <2> QED
    BY <2>1, <2>3, <2>4 DEF CertInv, CertTypeOK, ReceiptsAreMade
<1>2. CASE Restate
  <2>1. IsEmitted /\ claim' \in EventClaim /\ truth' = truth /\ signed' = signed /\ receipts' = receipts
    BY <1>2 DEF Restate
  <2>2. IsEmitted'
    BY <2>1, ClaimsAreStated DEF IsEmitted
  <2> QED
    BY <2>1, <2>2 DEF CertInv, CertTypeOK, ReceiptsAreMade, verify_receipt, NotBefore
<1>3. CASE CollectAgain
  <2>1. PICK i \in DOMAIN receipts : Append_(receipts[i])
    BY <1>3 DEF CollectAgain
  <2>2. receipts[i] \in CertReceipt
    BY DEF CertInv, CertTypeOK
  <2>3. verify_receipt(receipts[i]) /\ receipts[i].body.station_id \in StationIds
          /\ receipts[i].body.hash.payload_hash = Payload
        => receipts[i].body.hash = signed
             /\ receipts[i].body.recv_time_ns >= NotBefore(receipts[i].body.station_id)
    BY DEF CertInv, ReceiptsAreMade
  <2> QED
    BY <2>1, <2>2, <2>3, CertAppend
<1>4. CASE Alter
  <2>1. PICK i \in DOMAIN receipts :
          /\ verify_receipt(receipts[i])
          /\ receipts' = [receipts EXCEPT ![i].body.recv_time_ns = @ + 1]
          /\ truth' = truth /\ signed' = signed /\ claim' = claim
    BY <1>4 DEF Alter
  <2> DEFINE r == receipts[i]
             q == [r EXCEPT !.body.recv_time_ns = @ + 1]
  <2>2. receipts \in Seq(CertReceipt) /\ r \in CertReceipt
    BY DEF CertInv, CertTypeOK
  <2>3. r.body \in SignedBodies /\ r.mac \in [key : StationIds \cup {StrangerId}, of : SignedBodies]
        /\ r = [body |-> r.body, mac |-> r.mac]
    BY <2>2 DEF CertReceipt
  <2>4. q.mac = r.mac /\ q.body = [r.body EXCEPT !.recv_time_ns = @ + 1] /\ q = [body |-> q.body, mac |-> r.mac]
    BY <2>3
  <2>5. q.body \in SignedBodies /\ q.body.recv_time_ns = r.body.recv_time_ns + 1 /\ q.body # r.body
    BY <2>3, <2>4 DEF SignedBodies
  <2>6. q \in CertReceipt
    BY <2>3, <2>4, <2>5 DEF CertReceipt
  <2>7. ~verify_receipt(q)
    <3>1. r.mac.of = r.body
      BY <2>1 DEF verify_receipt
    <3> QED
      BY <2>4, <2>5, <3>1 DEF verify_receipt
  <2>8. receipts' = [receipts EXCEPT ![i] = q]
    BY <2>1
  <2> HIDE DEF q, r
  <2>9. receipts' \in Seq(CertReceipt) /\ DOMAIN receipts' = DOMAIN receipts
        /\ receipts'[i] = q /\ \A j \in DOMAIN receipts : j # i => receipts'[j] = receipts[j]
    BY <2>2, <2>6, <2>8
  <2>10. IsEmitted <=> IsEmitted'
    BY <2>1 DEF IsEmitted
  <2>11. IsEmitted
    <3>1. ~IsEmitted => DOMAIN receipts = {}
      BY DEF CertInv
    <3> QED
      BY <3>1
  <2>12. ReceiptsAreMade'
    <3>1. SUFFICES ASSUME NEW j \in DOMAIN receipts', verify_receipt(receipts'[j]),
                          receipts'[j].body.station_id \in StationIds,
                          receipts'[j].body.hash.payload_hash = Payload
                   PROVE  receipts'[j].body.hash = signed
                            /\ receipts'[j].body.recv_time_ns >= NotBefore(receipts'[j].body.station_id)
      BY <2>1 DEF ReceiptsAreMade, verify_receipt, NotBefore
    <3>2. j # i
      BY <2>7, <2>9, <3>1
    <3> QED
      BY <2>9, <3>1, <3>2 DEF CertInv, ReceiptsAreMade
  <2> QED
    BY <2>1, <2>9, <2>10, <2>11, <2>12 DEF CertInv, CertTypeOK
<1>5. ASSUME NEW s \in StationIds, IsEmitted, Collect(s) \/ CollectOther(s) PROVE CertInv'
  <2>1. truth \in Places /\ signed \in EventClaim
    BY <1>5 DEF CertInv, CertTypeOK
  <2>2. /\ vacuum_floor[truth][s] = MinLightTime(truth, PosOf(s)) /\ vacuum_floor[truth][s] \in Nat
        /\ UOf(s) \in Nat /\ ProcDelayOf(s) \in Nat /\ PosOf(s) \in Point
    BY <2>1, VacuumFloors
  <2>3. signed \in Hashes /\ EmitTime \in Int /\ Earlier \in Nat /\ OtherPlace \in Point
    BY <2>1, ClaimsAreStated, CertificatesAssumption
  <2> DEFINE recv == arrival(EmitTime, truth, s)
  <2>4. recv \in Int /\ recv >= NotBefore(s)
    BY <2>2, <2>3 DEF arrival, NotBefore
  <2>5. CASE Collect(s)
    <3>1. PICK t \in Stamps(s) : Append_(sign_receipt(Body(s, PosOf(s), signed, t)))
      BY <2>5 DEF Collect
    <3>2. PICK d \in Delays, err \in (-UOf(s))..UOf(s) : t = recv + d + err
      BY DEF Stamps
    <3>3. d \in Nat /\ err \in Int /\ err >= -UOf(s)
      BY <2>2, CertificatesAssumption
    <3>4. t \in Int /\ t >= NotBefore(s)
      BY <2>2, <2>3, <3>2, <3>3 DEF arrival, NotBefore
    <3> QED
      BY <2>2, <2>3, <3>1, <3>4, SignedBody, CertAppend
  <2>6. CASE CollectOther(s)
    <3> DEFINE other == [signed EXCEPT !.payload_hash = OtherPayload]
    <3>1. other \in Hashes /\ other.payload_hash # Payload
      BY <2>3, CertificatesAssumption DEF Hashes
    <3>2. recv - Earlier \in Int
      BY <2>3, <2>4
    <3>3. \/ Append_(sign_receipt(Body(s, PosOf(s), other, recv - Earlier)))
          \/ Append_(sign_receipt(Body(s, OtherPlace, signed, recv)))
          \/ Append_(sign_receipt(Body(StrangerId, PosOf(s), signed, recv)))
      BY <2>6 DEF CollectOther
    <3> HIDE DEF other, recv
    <3>4. CASE Append_(sign_receipt(Body(s, PosOf(s), other, recv - Earlier)))
      BY <2>2, <3>1, <3>2, <3>4, SignedBody, CertAppend
    <3>5. CASE Append_(sign_receipt(Body(s, OtherPlace, signed, recv)))
      BY <2>3, <2>4, <3>5, SignedBody, CertAppend
    <3>6. CASE Append_(sign_receipt(Body(StrangerId, PosOf(s), signed, recv)))
      BY <2>2, <2>3, <2>4, <3>6, SignedBody, CertAppend, CertificatesAssumption
    <3> QED
      BY <3>3, <3>4, <3>5, <3>6
  <2> QED
    BY <1>5, <2>5, <2>6
<1>6. CASE UNCHANGED certVars
  BY <1>6 DEF certVars, CertInv, CertTypeOK, ReceiptsAreMade, IsEmitted, verify_receipt, NotBefore
<1> QED
  BY <1>1, <1>2, <1>3, <1>4, <1>5, <1>6 DEF CertNext

\* The invariant of the certificates, from which their properties follow.
THEOREM CertificatesInvariance == CertSpec => []CertInv
<1>1. CertInit => CertInv
  <2> SUFFICES ASSUME CertInit PROVE CertInv
    OBVIOUS
  <2>1. receipts = <<>> /\ ~IsEmitted
    BY DEF CertInit, IsEmitted
  <2>2. receipts \in Seq(CertReceipt) /\ DOMAIN receipts = {}
    BY <2>1
  <2> QED
    BY <2>1, <2>2 DEF CertInv, CertTypeOK, ReceiptsAreMade
<1> QED
  BY <1>1, CertStep, PTL DEF CertSpec

\* The earliest of several receipts.
LEMMA EarliestReceipt ==
    ASSUME NEW rs \in Seq(CertReceipt), rs # <<>>
    PROVE  \E i \in DOMAIN rs : \A j \in DOMAIN rs : rs[i].body.recv_time_ns <= rs[j].body.recv_time_ns
<1> DEFINE t(i) == rs[i].body.recv_time_ns
           least(m, i) == i \in 1..m /\ \A j \in 1..m : t(i) <= t(j)
           Without == {m \in Nat \ {0} : m <= Len(rs) /\ ~\E i \in Nat : least(m, i)}
<1>1. Len(rs) \in Nat \ {0} /\ DOMAIN rs = 1..Len(rs)
  OBVIOUS
<1>2. \A i \in 1..Len(rs) : t(i) \in Int
  <2>1. \A i \in DOMAIN rs : rs[i] \in CertReceipt
    OBVIOUS
  <2>2. \A r \in CertReceipt : r.body.recv_time_ns \in Int
    BY DEF CertReceipt, SignedBodies
  <2> QED
    BY <1>1, <2>1, <2>2
<1> HIDE DEF t
<1>3. Without = {}
  <2>1. SUFFICES ASSUME Without # {} PROVE FALSE
    OBVIOUS
  <2>2. Without \in SUBSET Nat
    OBVIOUS
  <2>3. PICK m \in Without : \A k \in Without : m <= k
    <3> HIDE DEF Without
    <3> QED
      BY <2>1, <2>2, SmallestOf
  <2>4. m \in Nat \ {0} /\ m <= Len(rs) /\ ~\E i \in Nat : least(m, i)
    BY <2>3
  <2>5. CASE m = 1
    <3>1. least(m, 1)
      BY <1>1, <1>2, <2>5
    <3> QED
      BY <2>4, <3>1
  <2>6. CASE m # 1
    <3>1. m - 1 \in Nat \ {0} /\ m - 1 <= Len(rs) /\ ~(m <= m - 1)
      BY <1>1, <2>4, <2>6
    <3>2. m - 1 \notin Without
      <4> HIDE DEF Without
      <4> QED
        BY <2>3, <3>1
    <3>3. PICK i \in Nat : least(m - 1, i)
      BY <3>1, <3>2
    <3>4. i \in 1..(m - 1) /\ \A j \in 1..(m - 1) : t(i) <= t(j)
      BY <3>3
    <3>5. /\ \A j \in 1..m : j \in 1..(m - 1) \/ j = m
          /\ i \in 1..m /\ m \in 1..m /\ m \in 1..Len(rs) /\ i \in 1..Len(rs)
          /\ \A j \in 1..(m - 1) : j \in 1..Len(rs)
      <4>1. m \in Nat \ {0} /\ Len(rs) \in Nat /\ m <= Len(rs) /\ i \in 1..(m - 1)
        BY <1>1, <2>4, <3>4
      <4> QED
        BY <4>1
    <3>6. t(i) \in Int /\ t(m) \in Int /\ \A j \in 1..(m - 1) : t(j) \in Int
      BY <1>2, <3>5
    <3>7. CASE t(i) <= t(m)
      <4>1. least(m, i)
        BY <3>4, <3>5, <3>7
      <4> QED
        BY <2>4, <3>3, <4>1
    <3>8. CASE t(m) < t(i)
      <4>1. \A j \in 1..(m - 1) : t(m) <= t(j)
        BY <3>4, <3>6, <3>8
      <4>2. least(m, m)
        BY <3>5, <3>6, <4>1
      <4> QED
        BY <2>4, <4>2
    <3> QED
      BY <3>6, <3>7, <3>8
  <2> QED
    BY <2>5, <2>6
<1>4. PICK i \in Nat : least(Len(rs), i)
  BY <1>1, <1>3
<1> QED
  BY <1>1, <1>4 DEF t

\* What the bound on the time of emission is.
LEMMA BoundIsEarliest ==
    ASSUME NEW rs \in Seq(CertReceipt), rs # <<>>
    PROVE  \E i \in DOMAIN rs : emit_time_upper_bound_ns(rs) = rs[i].body.recv_time_ns
<1> DEFINE T == {rs[i].body.recv_time_ns : i \in DOMAIN rs}
<1>1. \E t \in T : \A i \in DOMAIN rs : t <= rs[i].body.recv_time_ns
  BY EarliestReceipt
<1>2. emit_time_upper_bound_ns(rs) \in T
  BY <1>1 DEF emit_time_upper_bound_ns
<1> QED
  BY <1>2

\* certificate.py, capture_verify.py: the event that a certificate which passes is
\* about happened by the time the certificate says, up to a station's clock, and a
\* capture that is not rejected is of the claim that was signed.
THEOREM VerdictIsAboutThisEventHolds == CertSpec => []VerdictIsAboutThisEvent
<1>1. CertInv => VerdictIsAboutThisEvent
  <2> SUFFICES ASSUME CertInv, IsEmitted PROVE VerdictIsAboutThisEvent
    BY DEF VerdictIsAboutThisEvent
  <2>1. receipts \in Seq(CertReceipt) /\ truth \in Places /\ claim.payload_hash = Payload /\ EmitTime \in Int
    BY ClaimsAreStated, CertificatesAssumption DEF CertInv, CertTypeOK
  <2>2. ASSUME NEW i \in DOMAIN receipts, Authentic(receipts[i], claim)
        PROVE  /\ receipts[i].body.hash = signed /\ receipts[i].body.station_id \in StationIds
               /\ receipts[i].body.recv_time_ns >= NotBefore(receipts[i].body.station_id)
    BY <2>1, <2>2 DEF Authentic, CertInv, ReceiptsAreMade
  <2>3. ASSUME verify_certificate(claim, receipts) = "PASS"
        PROVE  \E s \in Ids(receipts) : EmitTime <= emit_time_upper_bound_ns(receipts) + UOf(s)
    <3>1. receipts # <<>> /\ \A i \in DOMAIN receipts : Authentic(receipts[i], claim)
      BY <2>3 DEF verify_certificate, SomeReceipt
    <3>2. PICK i \in DOMAIN receipts : emit_time_upper_bound_ns(receipts) = receipts[i].body.recv_time_ns
      BY <2>1, <3>1, BoundIsEarliest
    <3> DEFINE s == receipts[i].body.station_id
    <3>3. s \in StationIds /\ s \in Ids(receipts) /\ receipts[i].body.recv_time_ns >= NotBefore(s)
      BY <2>2, <3>1 DEF Ids
    <3>4. receipts[i].body.recv_time_ns \in Int
      <4>1. receipts[i] \in CertReceipt
        BY <2>1
      <4> QED
        BY <4>1 DEF CertReceipt, SignedBodies
    <3>5. MinLightTime(truth, PosOf(s)) \in Nat /\ UOf(s) \in Nat
      BY <2>1, <3>3, VacuumFloors
    <3>6. EmitTime <= receipts[i].body.recv_time_ns + UOf(s)
      <4> HIDE DEF s
      <4> QED
        BY <2>1, <3>3, <3>4, <3>5 DEF NotBefore
    <3> QED
      BY <3>2, <3>3, <3>6
  <2>4. ASSUME verify_capture(claim, receipts, {}) # "REJECTED" PROVE claim = signed
    <3>1. receipts # <<>> /\ \A i \in DOMAIN receipts : Authentic(receipts[i], claim) /\ Bound(receipts[i], claim)
      BY <2>4 DEF verify_capture, SomeReceipt
    <3>2. 1 \in DOMAIN receipts
      BY <2>1, <3>1
    <3> QED
      BY <2>2, <3>1, <3>2 DEF Bound
  <2> QED
    BY <2>3, <2>4 DEF VerdictIsAboutThisEvent
<1> QED
  BY <1>1, CertificatesInvariance, PTL

\* measure.py, capture_verify.py, certificate.py, deepspace_protocol.py: the genuine
\* receipts of a true claim are never rejected.
THEOREM HonestFleetSurvivesHolds == CertSpec => []HonestFleetSurvives
<1>1. CertInv => HonestFleetSurvives
  <2> SUFFICES ASSUME CertInv, Honest PROVE HonestFleetSurvives
    BY DEF HonestFleetSurvives
  <2>1. /\ IsEmitted /\ claim = signed /\ claim.t0 = EmitTime /\ claim.p0 = truth
        /\ receipts # <<>> /\ ~Repeated(receipts) /\ \A i \in DOMAIN receipts : Genuine(receipts[i])
    BY DEF Honest
  <2>2. receipts \in Seq(CertReceipt) /\ truth \in Places /\ claim.payload_hash = Payload /\ EmitTime \in Int
    BY <2>1, ClaimsAreStated, CertificatesAssumption DEF CertInv, CertTypeOK
  <2>3. ASSUME NEW i \in DOMAIN receipts
        PROVE  LET r == receipts[i]
                   s == r.body.station_id
               IN  /\ Authentic(r, claim) /\ Bound(r, claim) /\ s \in StationIds /\ s \in Ids(receipts)
                   /\ r.body.recv_time_ns \in Int /\ UOf(s) \in Nat /\ vacuum_floor[claim.p0][s] \in Nat
                   /\ vacuum_floor[claim.p0][s] = MinLightTime(claim.p0, PosOf(s))
                   /\ PosOf(s) \in Point /\ claim.p0 \in Point
                   /\ r.body.recv_time_ns - claim.t0 + UOf(s) >= vacuum_floor[claim.p0][s]
    <3> DEFINE r == receipts[i]
               s == r.body.station_id
    <3>1. Genuine(r) /\ r \in CertReceipt
      BY <2>1, <2>2
    <3>2. s \in StationIds /\ r.body.hash = claim /\ verify_receipt(r) /\ r.body.station_pos_nm = PosOf(s)
      BY <2>1, <3>1 DEF Genuine, Bound
    <3>3. r.body.recv_time_ns \in Int /\ r.body.recv_time_ns >= NotBefore(s)
      BY <2>2, <3>1, <3>2 DEF CertReceipt, SignedBodies, CertInv, ReceiptsAreMade
    <3>4. /\ vacuum_floor[truth][s] = MinLightTime(truth, PosOf(s)) /\ vacuum_floor[truth][s] \in Nat
          /\ UOf(s) \in Nat /\ PosOf(s) \in Point /\ truth \in Point
      BY <2>2, <3>2, VacuumFloors
    <3>5. s \in Ids(receipts)
      BY DEF Ids
    <3>6. Authentic(r, claim) /\ Bound(r, claim)
      BY <3>2 DEF Authentic, Bound
    <3>7. r.body.recv_time_ns - claim.t0 + UOf(s) >= vacuum_floor[claim.p0][s]
      <4> HIDE DEF s, r
      <4> QED
        BY <2>1, <2>2, <3>3, <3>4 DEF NotBefore
    <3> QED
      BY <2>1, <3>2, <3>3, <3>4, <3>5, <3>6, <3>7
  <2>4. ASSUME NEW required \in {{}, Ids(receipts)}, NEW live \in BOOLEAN
        PROVE  /\ verify_measured_certificate(claim, receipts, required, live) # "REJECTED"
               /\ verify_capture(claim, receipts, required) # "REJECTED"
    <3>1. ~Uncovered(receipts, required)
      BY DEF Uncovered
    <3>2. ASSUME NEW i \in DOMAIN receipts
          PROVE  /\ classify_measured_receipt(receipts[i], claim) # "REJECTED"
                 /\ classify_receipt(receipts[i], claim) # "REJECTED"
      <4> DEFINE s == receipts[i].body.station_id
                 lapse == receipts[i].body.recv_time_ns - claim.t0
                 f == vacuum_floor[claim.p0][s]
                 y == typical_floor[claim.p0][s]
                 u == UOf(s)
      <4>1. lapse \in Int /\ u \in Nat /\ f \in Nat /\ lapse + u >= f
        BY <2>1, <2>2, <2>3
      <4>2. classify_measured_receipt(receipts[i], claim) = budget_witness(lapse, u, f, y)
            /\ classify_receipt(receipts[i], claim) = classify(lapse, u, f, y)
        BY DEF classify_measured_receipt, classify_receipt
      <4> HIDE DEF lapse, u, f, y, s
      <4>3. ~(lapse + u < f)
        BY <4>1
      <4>4. budget_witness(lapse, u, f, y) # "REJECTED" /\ classify(lapse, u, f, y) # "REJECTED"
        BY <4>3 DEF budget_witness, classify
      <4> QED
        BY <4>2, <4>4
    <3> QED
      BY <2>1, <2>3, <3>1, <3>2 DEF verify_measured_certificate, verify_capture, SomeReceipt
  <2>5. ASSUME \A s \in Ids(receipts) : UOf(s) = 0 PROVE verify_certificate(claim, receipts) = "PASS"
    <3>1. ASSUME NEW i \in DOMAIN receipts PROVE InCone(receipts[i], claim)
      <4> DEFINE s == receipts[i].body.station_id
                 t == receipts[i].body.recv_time_ns
      <4>1. t - claim.t0 >= MinLightTime(claim.p0, PosOf(s)) /\ t \in Int /\ claim.t0 \in Int
        BY <2>1, <2>2, <2>3, <2>5
      <4>2. PosOf(s) \in Point /\ claim.p0 \in Point
        BY <2>3
      <4> HIDE DEF s, t
      <4>3. CausallyAdmissible(claim.t0, claim.p0, t, PosOf(s))
        BY <4>1, <4>2, AdmissibleFromLightTimeOn
      <4> QED
        BY <4>3 DEF InCone, s, t
    <3> QED
      BY <2>1, <2>3, <3>1 DEF verify_certificate, SomeReceipt
  <2>6. ASSUME NEW i \in DOMAIN receipts, NEW resolve \in 0..1, receipts[i].body.recv_time_ns >= claim.t0,
               NEW correct \in score(2, TRUE)
        PROVE  verify_telemetry_packet(claim, receipts[i], resolve, TRUE, quantum_ok(correct, 2)) # "REJECTED"
    <3> DEFINE s == receipts[i].body.station_id
               lapse == receipts[i].body.recv_time_ns - claim.t0
               f == vacuum_floor[claim.p0][s]
               u == UOf(s)
               timing == telemetry_consistent(lapse, u, resolve, f)
    <3>1. lapse \in Int /\ u \in Nat /\ f \in Nat /\ lapse + u >= f /\ lapse >= 0
      BY <2>1, <2>2, <2>3, <2>6
    <3>2. Authentic(receipts[i], claim)
      BY <2>3
    <3>3. quantum_ok(correct, 2)
      BY DEF score, quantum_ok
    <3> HIDE DEF lapse, u, f
    <3>4. ~(lapse < 0 \/ lapse + u < f - resolve)
      BY <3>1
    <3>5. timing # "REJECTED"
      BY <3>4 DEF telemetry_consistent
    <3> HIDE DEF timing
    <3>6. verify_telemetry_packet(claim, receipts[i], resolve, TRUE, quantum_ok(correct, 2)) \in
            {"APPARATUS_LIMITED", "CONDITIONAL_BE_Q"}
      BY <3>2, <3>3, <3>5 DEF verify_telemetry_packet, timing, lapse, u, f, s
    <3> QED
      BY <3>6
  <2> QED
    BY <2>4, <2>5, <2>6 DEF HonestFleetSurvives
<1> QED
  BY <1>1, CertificatesInvariance, PTL

\* The stations of a list, and of the list with a receipt more.
LEMMA StationsCounted ==
    ASSUME NEW rs \in Seq(CertReceipt), NEW r \in CertReceipt
    PROVE  /\ IsFiniteSet(Ids(rs)) /\ Cardinality(Ids(rs)) \in Nat /\ Cardinality(Ids(rs)) <= Len(rs)
           /\ Repeated(rs) => Repeated(Append(rs, r))
<1> DEFINE f == [i \in 1..Len(rs) |-> rs[i].body.station_id]
           qs == Append(rs, r)
<1>1. Len(rs) \in Nat /\ DOMAIN rs = 1..Len(rs) /\ Len(qs) = Len(rs) + 1 /\ DOMAIN qs = 1..(Len(rs) + 1)
      /\ qs[Len(rs) + 1] = r /\ \A i \in 1..Len(rs) : qs[i] = rs[i]
  OBVIOUS
<1>2. f \in Surjection(1..Len(rs), Ids(rs))
  BY <1>1 DEF Surjection, Ids
<1>3. IsFiniteSet(1..Len(rs)) /\ Cardinality(1..Len(rs)) = Len(rs)
  BY <1>1, FS_Interval
<1>4. IsFiniteSet(Ids(rs)) /\ Cardinality(Ids(rs)) <= Len(rs)
  BY <1>2, <1>3, FS_Surjection
<1>5. Cardinality(Ids(rs)) \in Nat
  BY <1>4, FS_CardinalityType
<1>6. Ids(qs) = Ids(rs) \cup {r.body.station_id}
  <2>1. \A i \in 1..(Len(rs) + 1) : i \in 1..Len(rs) \/ i = Len(rs) + 1
    BY <1>1
  <2>2. 1..Len(rs) \subseteq 1..(Len(rs) + 1) /\ Len(rs) + 1 \in 1..(Len(rs) + 1)
    BY <1>1
  <2> HIDE DEF qs
  <2> QED
    BY <1>1, <2>1, <2>2 DEF Ids
<1>7. Cardinality(Ids(qs)) \in Nat /\ Cardinality(Ids(qs)) <= Cardinality(Ids(rs)) + 1
  <2>1. /\ IsFiniteSet(Ids(rs) \cup {r.body.station_id})
        /\ Cardinality(Ids(rs) \cup {r.body.station_id}) \in {Cardinality(Ids(rs)), Cardinality(Ids(rs)) + 1}
    BY <1>4, FS_AddElement
  <2> HIDE DEF qs
  <2> QED
    BY <1>5, <1>6, <2>1
<1> HIDE DEF qs
<1>8. Repeated(rs) => Repeated(qs)
  BY <1>1, <1>4, <1>5, <1>7 DEF Repeated
<1> QED
  BY <1>4, <1>5, <1>8 DEF qs

\* What a receipt more can do to the verdicts.
LEMMA ReceiptMore ==
    ASSUME NEW rs \in Seq(CertReceipt), rs # <<>>, NEW r \in CertReceipt, NEW c, NEW live \in BOOLEAN
    PROVE  LET qs == Append(rs, r)
           IN  /\ Standing(verify_certificate(c, qs)) <= Standing(verify_certificate(c, rs))
               /\ Standing(verify_measured_certificate(c, qs, {}, live))
                    <= Standing(verify_measured_certificate(c, rs, {}, live))
               /\ Standing(verify_capture(c, qs, {})) <= Standing(verify_capture(c, rs, {}))
<1> DEFINE qs == Append(rs, r)
<1>1. qs # <<>> /\ \A i \in DOMAIN rs : i \in DOMAIN qs /\ qs[i] = rs[i]
  OBVIOUS
<1>2. Repeated(rs) => Repeated(qs)
  BY StationsCounted
<1>3. ~Uncovered(rs, {}) /\ ~Uncovered(qs, {})
  BY DEF Uncovered
<1>4. Standing("PASS") = 2 /\ Standing("APPARATUS_LIMITED") = 1 /\ Standing("REJECTED") = 0
  BY DEF Standing
<1> HIDE DEF qs
<1>5. Standing(verify_certificate(c, qs)) <= Standing(verify_certificate(c, rs))
  <2> DEFINE bad(q) == ~(Authentic(q, c) /\ InCone(q, c))
  <2>1. /\ verify_certificate(c, rs) = IF \E i \in DOMAIN rs : bad(rs[i]) THEN "REJECTED" ELSE "PASS"
        /\ verify_certificate(c, qs) = IF \E i \in DOMAIN qs : bad(qs[i]) THEN "REJECTED" ELSE "PASS"
    BY <1>1 DEF verify_certificate, SomeReceipt
  <2> HIDE DEF bad
  <2> QED
    BY <1>1, <1>4, <2>1
<1>6. Standing(verify_measured_certificate(c, qs, {}, live))
        <= Standing(verify_measured_certificate(c, rs, {}, live))
  <2> DEFINE bad(q) == ~Authentic(q, c) \/ classify_measured_receipt(q, c) = "REJECTED"
             early(q) == q.body.recv_time_ns - c.t0 < 0
             unclear(q) == classify_measured_receipt(q, c) = "APPARATUS_LIMITED"
             refuses(l) == Repeated(l) \/ \E i \in DOMAIN l : bad(l[i])
             limits(l) == \/ live /\ \E i \in DOMAIN l : early(l[i])
                          \/ \E i \in DOMAIN l : unclear(l[i])
  <2>1. /\ verify_measured_certificate(c, rs, {}, live) =
             IF refuses(rs) THEN "REJECTED" ELSE IF limits(rs) THEN "APPARATUS_LIMITED" ELSE "PASS"
        /\ verify_measured_certificate(c, qs, {}, live) =
             IF refuses(qs) THEN "REJECTED" ELSE IF limits(qs) THEN "APPARATUS_LIMITED" ELSE "PASS"
    BY <1>1, <1>3 DEF verify_measured_certificate, SomeReceipt
  <2> HIDE DEF bad, early, unclear
  <2>2. (refuses(rs) => refuses(qs)) /\ (limits(rs) => limits(qs))
    BY <1>1, <1>2
  <2> HIDE DEF refuses, limits
  <2> QED
    BY <1>4, <2>1, <2>2
<1>7. Standing(verify_capture(c, qs, {})) <= Standing(verify_capture(c, rs, {}))
  <2> DEFINE bad(q) == ~(Authentic(q, c) /\ Bound(q, c)) \/ classify_receipt(q, c) = "REJECTED"
             unclear(q) == classify_receipt(q, c) = "APPARATUS_LIMITED"
             refuses(l) == Repeated(l) \/ \E i \in DOMAIN l : bad(l[i])
             limits(l) == \E i \in DOMAIN l : unclear(l[i])
  <2>1. /\ verify_capture(c, rs, {}) =
             IF refuses(rs) THEN "REJECTED" ELSE IF limits(rs) THEN "APPARATUS_LIMITED" ELSE "PASS"
        /\ verify_capture(c, qs, {}) =
             IF refuses(qs) THEN "REJECTED" ELSE IF limits(qs) THEN "APPARATUS_LIMITED" ELSE "PASS"
    BY <1>1, <1>3 DEF verify_capture, SomeReceipt
  <2> HIDE DEF bad, unclear
  <2>2. (refuses(rs) => refuses(qs)) /\ (limits(rs) => limits(qs))
    BY <1>1, <1>2
  <2> HIDE DEF refuses, limits
  <2> QED
    BY <1>4, <2>1, <2>2
<1> QED
  BY <1>5, <1>6, <1>7 DEF qs

\* certificate.py, measure.py, capture_verify.py: no verifier of several receipts is
\* talked out of a verdict by one more of them, whatever it is.
THEOREM VerdictOnlyWorsensHolds == CertSpec => VerdictOnlyWorsens
<1> DEFINE A == IsEmitted /\ receipts # <<>> /\ Len(receipts') > Len(receipts) =>
         /\ Standing(verify_certificate(claim, receipts')) <= Standing(verify_certificate(claim, receipts))
         /\ \A live \in BOOLEAN :
              Standing(verify_measured_certificate(claim, receipts', {}, live))
                <= Standing(verify_measured_certificate(claim, receipts, {}, live))
         /\ Standing(verify_capture(claim, receipts', {})) <= Standing(verify_capture(claim, receipts, {}))
<1>1. CertInv /\ [CertNext]_certVars => [A]_certVars
  <2> SUFFICES ASSUME CertInv, CertNext, receipts # <<>>, Len(receipts') > Len(receipts)
               PROVE  /\ Standing(verify_certificate(claim, receipts')) <= Standing(verify_certificate(claim, receipts))
                      /\ \A live \in BOOLEAN :
                           Standing(verify_measured_certificate(claim, receipts', {}, live))
                             <= Standing(verify_measured_certificate(claim, receipts, {}, live))
                      /\ Standing(verify_capture(claim, receipts', {})) <= Standing(verify_capture(claim, receipts, {}))
    OBVIOUS
  <2>1. receipts \in Seq(CertReceipt) /\ receipts' \in Seq(CertReceipt)
    <3>1. CertInv'
      BY CertStep
    <3> QED
      BY <3>1 DEF CertInv, CertTypeOK
  <2>2. PICK r : receipts' = Append(receipts, r)
    <3>1. Len(receipts) \in Nat /\ receipts' # receipts
      BY <2>1
    <3>2. CASE Emit \/ Restate
      BY <3>1, <3>2 DEF Emit, Restate
    <3>3. CASE Alter
      <4>1. PICK i \in DOMAIN receipts : receipts' = [receipts EXCEPT ![i].body.recv_time_ns = @ + 1]
        BY <3>3 DEF Alter
      <4>2. DOMAIN receipts' = DOMAIN receipts
        BY <4>1
      <4>3. Len(receipts') = Len(receipts)
        BY <2>1, <4>2
      <4> QED
        BY <2>1, <4>3
    <3>4. CASE CollectAgain
      BY <3>4 DEF CollectAgain, Append_
    <3>5. ASSUME NEW s \in StationIds, Collect(s) \/ CollectOther(s) PROVE \E r : receipts' = Append(receipts, r)
      BY <3>5 DEF Collect, CollectOther, Append_
    <3> QED
      BY <3>2, <3>3, <3>4, <3>5 DEF CertNext
  <2>3. r \in CertReceipt
    <3>1. Len(receipts) + 1 \in DOMAIN receipts' /\ receipts'[Len(receipts) + 1] = r
      BY <2>1, <2>2
    <3> QED
      BY <2>1, <3>1
  <2> QED
    BY <2>1, <2>2, <2>3, ReceiptMore
<1>2. CertSpec => [][A]_certVars
  BY <1>1, CertificatesInvariance, PTL DEF CertSpec
<1> QED
  BY <1>2 DEF VerdictOnlyWorsens

\* deepspace_protocol.py: what the link certifies is possible, and stays certified
\* after more rounds.
THEOREM TelemetryIsPossibleHolds == CertSpec => []TelemetryIsPossible
<1>1. CertInv => TelemetryIsPossible
  <2> SUFFICES ASSUME CertInv, IsEmitted, NEW i \in DOMAIN receipts, NEW resolve \in 0..1, NEW k \in 0..1,
                      NEW target \in {1, 2, 4}, NEW total \in 0..1, NEW located \in BOOLEAN,
                      NEW correct \in score(total, located),
                      verify_telemetry_packet(claim, receipts[i], resolve,
                        meets_target(k, [num |-> 1, den |-> 2], [num |-> 1, den |-> target]),
                        quantum_ok(correct, total)) = "CONDITIONAL_BE_Q"
               PROVE  /\ verify_telemetry_packet(claim, receipts[i], resolve,
                           meets_target(k + 1, [num |-> 1, den |-> 2], [num |-> 1, den |-> target]),
                           quantum_ok(correct, total)) = "CONDITIONAL_BE_Q"
                      /\ verify_measured_certificate(claim, <<receipts[i]>>, {}, FALSE) # "REJECTED"
    BY DEF TelemetryIsPossible
  <2> DEFINE r == receipts[i]
             s == r.body.station_id
             lapse == r.body.recv_time_ns - claim.t0
             f == vacuum_floor[claim.p0][s]
             u == UOf(s)
             timing == telemetry_consistent(lapse, u, resolve, f)
             meets(n) == meets_target(n, [num |-> 1, den |-> 2], [num |-> 1, den |-> target])
             ok == quantum_ok(correct, total)
  <2>1. /\ receipts \in Seq(CertReceipt) /\ r \in CertReceipt
        /\ claim.t0 \in Int /\ claim.p0 \in Places
    <3>1. receipts \in Seq(CertReceipt) /\ claim \in EventClaim
      BY DEF CertInv, CertTypeOK
    <3>2. r \in CertReceipt
      BY <3>1
    <3>3. claim.t0 \in Claims /\ claim.p0 \in Places
      BY <3>1, ClaimsAreStated
    <3> QED
      BY <3>1, <3>2, <3>3, CertificatesAssumption
  <2>2. ASSUME NEW m PROVE verify_telemetry_packet(claim, r, resolve, m, ok) =
          CASE ~Authentic(r, claim) -> "REJECTED"
            [] Authentic(r, claim) /\ (timing = "REJECTED" \/ ~ok) -> "REJECTED"
            [] Authentic(r, claim) /\ timing # "REJECTED" /\ ok /\ ~m -> "INSUFFICIENT_ROUNDS"
            [] Authentic(r, claim) /\ timing = "APPARATUS_LIMITED" /\ ok /\ m -> "APPARATUS_LIMITED"
            [] OTHER -> "CONDITIONAL_BE_Q"
    BY DEF verify_telemetry_packet
  <2>3. verify_telemetry_packet(claim, r, resolve, meets(k), ok) = "CONDITIONAL_BE_Q"
    OBVIOUS
  <2> HIDE DEF timing, meets, ok
  <2>4. Authentic(r, claim) /\ timing \notin {"REJECTED", "APPARATUS_LIMITED"} /\ ok /\ meets(k)
    BY <2>2, <2>3
  <2>5. meets(k + 1)
    <3>1. 2 ^ 0 = 1 /\ 2 ^ 1 = 2 /\ 2 ^ 2 = 4 /\ 1 ^ 0 = 1 /\ 1 ^ 1 = 1 /\ 1 ^ 2 = 1
      OBVIOUS
    <3>2. CASE k = 0
      BY <2>4, <3>1, <3>2 DEF meets, meets_target
    <3>3. CASE k = 1
      BY <2>4, <3>1, <3>3 DEF meets, meets_target
    <3> QED
      BY <3>2, <3>3
  <2>6. verify_telemetry_packet(claim, r, resolve, meets(k + 1), ok) = "CONDITIONAL_BE_Q"
    BY <2>2, <2>4, <2>5
  <2>7. s \in StationIds /\ lapse \in Int
    BY <2>1, <2>4 DEF Authentic, CertReceipt, SignedBodies
  <2>8. u \in Nat /\ f \in Nat
    BY <2>1, <2>7, VacuumFloors
  <2>9. classify_measured_receipt(r, claim) # "REJECTED"
    <3>1. classify_measured_receipt(r, claim) = budget_witness(lapse, u, f, typical_floor[claim.p0][s])
      BY DEF classify_measured_receipt
    <3>2. ~(lapse < 0 \/ lapse + u < f - resolve) /\ ~(lapse >= 0 /\ lapse + u >= f - resolve /\ lapse + u < f)
      BY <2>4 DEF timing, telemetry_consistent
    <3>3. ~(lapse + u < f)
      <4> HIDE DEF lapse, u, f
      <4> QED
        BY <2>7, <2>8, <3>2
    <3> HIDE DEF lapse, u, f, s
    <3>4. budget_witness(lapse, u, f, typical_floor[claim.p0][s]) # "REJECTED"
      BY <3>3 DEF budget_witness
    <3> QED
      BY <3>1, <3>4
  <2>10. verify_measured_certificate(claim, <<r>>, {}, FALSE) # "REJECTED"
    <3>1. Ids(<<r>>) = {s} /\ Len(<<r>>) = 1 /\ <<r>> # <<>>
      BY DEF Ids
    <3>2. ~Repeated(<<r>>) /\ ~Uncovered(<<r>>, {})
      BY <3>1, FS_Singleton DEF Repeated, Uncovered
    <3>3. \A n \in DOMAIN <<r>> : <<r>>[n] = r
      OBVIOUS
    <3>4. ~SomeReceipt(<<r>>, LAMBDA q : ~Authentic(q, claim) \/ classify_measured_receipt(q, claim) = "REJECTED")
      BY <2>4, <2>9, <3>3 DEF SomeReceipt
    <3> QED
      BY <3>1, <3>2, <3>4 DEF verify_measured_certificate
  <2> QED
    BY <2>6, <2>10 DEF meets, ok
<1> QED
  BY <1>1, CertificatesInvariance, PTL

---------------------------------------------------------------------------
(* The beacon *)

\* The receipts of a broadcast are its stations', stamped when its light arrived.
LEMMA BroadcastIsHeard ==
    ASSUME NEW event, NEW t \in Int, NEW p \in Places, NEW stations \in SUBSET StationIds,
           NEW n \in DOMAIN Listed(broadcast(event, t, p, stations))
    PROVE  LET body == Listed(broadcast(event, t, p, stations))[n].body
           IN  /\ body.station_id \in StationIds
               /\ body.recv_time_ns = arrival(t, p, body.station_id)
               /\ body.recv_time_ns \in Int
<1> DEFINE receipt(s) == sign_receipt(Body(s, PosOf(s), event, arrival(t, p, s)))
           rs == broadcast(event, t, p, stations)
           f == [s \in stations |-> receipt(s)]
<1>1. IsFiniteSet(rs)
  <2>1. f \in Surjection(stations, rs)
    <3>1. rs = {receipt(s) : s \in stations}
      BY DEF broadcast
    <3>2. f \in [stations -> rs] /\ \A r \in rs : \E s \in stations : f[s] = r
      BY <3>1
    <3> QED
      BY <3>2 DEF Surjection
  <2>2. IsFiniteSet(stations)
    BY FS_Subset, CertificatesAssumption
  <2> QED
    BY <2>1, <2>2, FS_Surjection
<1>2. PICK g \in [1..Cardinality(rs) -> rs] : {g[i] : i \in DOMAIN g} = rs
  <2>1. PICK g : g \in Bijection(1..Cardinality(rs), rs)
    BY <1>1, FS_CardinalityType DEF ExistsBijection
  <2>2. g \in Surjection(1..Cardinality(rs), rs)
    BY <2>1 DEF Bijection
  <2>3. g \in [1..Cardinality(rs) -> rs] /\ \A r \in rs : \E i \in 1..Cardinality(rs) : g[i] = r
    BY <2>2 DEF Surjection
  <2> HIDE DEF rs
  <2>4. {g[i] : i \in DOMAIN g} = rs
    BY <2>3
  <2> QED
    BY <2>3, <2>4
<1>3. Listed(rs) \in [1..Cardinality(rs) -> rs]
  <2> HIDE DEF rs
  <2> QED
    BY <1>2 DEF Listed
<1>4. Listed(rs)[n] \in rs
  <2>1. n \in DOMAIN Listed(rs)
    OBVIOUS
  <2> HIDE DEF rs
  <2> QED
    BY <1>3, <2>1
<1>5. PICK s \in stations : Listed(rs)[n] = receipt(s)
  BY <1>4 DEF broadcast
<1>6. /\ receipt(s).body.recv_time_ns = arrival(t, p, s)
      /\ receipt(s).body.station_id = s
  BY DEF sign_receipt, Body
<1>7. arrival(t, p, s) \in Int
  <2>1. vacuum_floor[p][s] = MinLightTime(p, PosOf(s))
    BY DEF vacuum_floor
  <2>2. MinLightTime(p, PosOf(s)) \in Nat /\ ProcDelayOf(s) \in Nat
    BY CertificatesAssumption, LightTimeIsExact DEF IsLightTime
  <2> QED
    BY <2>1, <2>2 DEF arrival
<1>8. s \in StationIds
  OBVIOUS
<1> HIDE DEF receipt
<1> QED
  BY <1>5, <1>6, <1>7, <1>8

\* What an entry says, and what its receipts show of the emission behind it.
IsHeard(b, emission) ==
    /\ b.t_emit_ns \in Int /\ b.pos_nm \in Point
    /\ emission.t_emit_ns \in Int /\ emission.pos_nm \in Point
    /\ \A n \in DOMAIN b.receipts :
         LET body == b.receipts[n].body
         IN  /\ body.station_id \in StationIds
             /\ body.recv_time_ns = arrival(emission.t_emit_ns, emission.pos_nm, body.station_id)
             /\ body.recv_time_ns \in Int

PublishedBy(e, t) == {HonestEntry(e, t)} \cup SpoiltEntries(e, t)
Published == UNION {UNION {PublishedBy(e, t) : t \in BeaconTimes} : e \in Emitter}
Emissions == [t_emit_ns : Int, pos_nm : Point]

\* Every receipt of an entry, spoilt or not, was stamped when light from the real
\* emission had come.
LEMMA EntriesAreHeard ==
    ASSUME NEW e \in Emitter, NEW t \in BeaconTimes,
           NEW b \in PublishedBy(e, t)
    PROVE  IsHeard(b, Emission(t, HomeOf(e)))
<1>1. ASSUME NEW u \in Int, NEW p \in Point, NEW ev, NEW ev2, NEW block, NEW sha,
             NEW stations \in SUBSET StationIds
      PROVE  IsHeard(Entry(e, u, p, ev, block, sha, broadcast(ev2, t, HomeOf(e), stations)),
                     Emission(t, HomeOf(e)))
  <2> DEFINE rs == Listed(broadcast(ev2, t, HomeOf(e), stations))
             x == Entry(e, u, p, ev, block, sha, broadcast(ev2, t, HomeOf(e), stations))
  <2>1. t \in Int /\ HomeOf(e) \in Places /\ HomeOf(e) \in Point
    BY BeaconAssumption, CertificatesAssumption
  <2>2. \A n \in DOMAIN rs :
          /\ rs[n].body.station_id \in StationIds
          /\ rs[n].body.recv_time_ns = arrival(t, HomeOf(e), rs[n].body.station_id)
          /\ rs[n].body.recv_time_ns \in Int
    BY <2>1, BroadcastIsHeard
  <2>3. x.t_emit_ns = u /\ x.pos_nm = p /\ x.receipts = rs
    BY DEF Entry
  <2>4. Emission(t, HomeOf(e)).t_emit_ns = t /\ Emission(t, HomeOf(e)).pos_nm = HomeOf(e)
    BY DEF Emission
  <2> HIDE DEF rs, x
  <2>5. IsHeard(x, Emission(t, HomeOf(e)))
    BY <2>1, <2>2, <2>3, <2>4 DEF IsHeard
  <2> QED
    BY <2>5 DEF x
<1>2. /\ \A f \in Emitter : HomeOf(f) \in Point
      /\ \A u \in BeaconTimes : u \in Int
      /\ StationIds \in SUBSET StationIds
  BY BeaconAssumption, CertificatesAssumption
<1>3. CASE b = HonestEntry(e, t)
  BY <1>1, <1>2, <1>3 DEF HonestEntry
<1>4. CASE b \in SpoiltEntries(e, t)
  BY <1>1, <1>2, <1>4 DEF SpoiltEntries
<1> QED
  BY <1>3, <1>4 DEF PublishedBy

BeaconInv ==
    /\ per_block \in Seq(Published) /\ published \in Seq(Emissions)
    /\ Len(published) = Len(per_block)
    /\ \A i \in 1..Len(per_block) : IsHeard(per_block[i], published[i])

LEMMA BeaconInvariance == BeaconSpec => []BeaconInv
<1>1. BeaconInit => BeaconInv
  BY DEF BeaconInit, BeaconInv
<1>2. BeaconInv /\ [BeaconNext]_beaconVars => BeaconInv'
  <2> SUFFICES ASSUME BeaconInv, [BeaconNext]_beaconVars PROVE BeaconInv'
    OBVIOUS
  <2>1. CASE Combine \/ UNCHANGED beaconVars
    BY <2>1 DEF Combine, beaconVars, BeaconInv
  <2>2. ASSUME NEW e \in Emitter, Publish(e) PROVE BeaconInv'
    <3>1. PICK t \in BeaconTimes :
             /\ \/ per_block' = Append(per_block, HonestEntry(e, t))
                \/ \E b \in SpoiltEntries(e, t) : per_block' = Append(per_block, b)
             /\ published' = Append(published, Emission(t, HomeOf(e)))
      BY <2>2 DEF Publish
    <3>2. PICK b \in PublishedBy(e, t) : per_block' = Append(per_block, b)
      BY <3>1 DEF PublishedBy
    <3>3. IsHeard(b, Emission(t, HomeOf(e))) /\ b \in Published
      BY <3>2, EntriesAreHeard DEF Published
    <3>4. Emission(t, HomeOf(e)) \in Emissions
      BY BeaconAssumption, CertificatesAssumption DEF Emission, Emissions
    <3>5. PICK emission \in Emissions :
             IsHeard(b, emission) /\ published' = Append(published, emission)
      BY <3>1, <3>3, <3>4
    <3> QED
      BY <3>2, <3>3, <3>5 DEF BeaconInv
  <2> QED
    BY <2>1, <2>2 DEF BeaconNext
<1> QED
  BY <1>1, <1>2, PTL DEF BeaconSpec

\* beacon.py: a beacon that passes combines the bytes its stations heard each
\* emitter publish, and an emitter that tells the truth had not heard another one:
\* from no station, whatever the other one claims, and not at all if the other one
\* tells the truth.
THEOREM BlocksAreIndependentHolds == BeaconSpec => []BlocksAreIndependent
<1>1. ASSUME BeaconInv, verify_beacon(per_block, beacon_value) = "PASS"
      PROVE  \A i \in DOMAIN per_block : \A n \in DOMAIN per_block[i].receipts :
               /\ per_block[i].receipts[n].body.hash.payload_hash
                     = emission_payload(per_block[i].emitter_id, per_block[i].block)
               /\ CausallyAdmissible(per_block[i].t_emit_ns, per_block[i].pos_nm,
                                     per_block[i].receipts[n].body.recv_time_ns,
                                     PosOf(per_block[i].receipts[n].body.station_id))
  <2> SUFFICES ASSUME NEW i \in DOMAIN per_block, NEW n \in DOMAIN per_block[i].receipts
               PROVE  /\ per_block[i].receipts[n].body.hash.payload_hash
                            = emission_payload(per_block[i].emitter_id, per_block[i].block)
                      /\ CausallyAdmissible(per_block[i].t_emit_ns, per_block[i].pos_nm,
                                            per_block[i].receipts[n].body.recv_time_ns,
                                            PosOf(per_block[i].receipts[n].body.station_id))
    OBVIOUS
  <2> DEFINE a == per_block[i]
  <2>1. BlockIsBound(a) /\ verify_certificate(a.event, a.receipts) = "PASS"
    BY <1>1 DEF verify_beacon, ConesVerify
  <2> HIDE DEF a
  <2>2. ASSUME n \in DOMAIN a.receipts
        PROVE  Authentic(a.receipts[n], a.event) /\ InCone(a.receipts[n], a.event)
    BY <2>1, <2>2 DEF verify_certificate, SomeReceipt
  <2>3. n \in DOMAIN a.receipts
    BY DEF a
  <2>4. /\ a.receipts[n].body.hash.payload_hash = emission_payload(a.emitter_id, a.block)
        /\ CausallyAdmissible(a.t_emit_ns, a.pos_nm, a.receipts[n].body.recv_time_ns,
                              PosOf(a.receipts[n].body.station_id))
    BY <2>1, <2>2, <2>3 DEF BlockIsBound, Authentic, InCone
  <2> QED
    BY <2>4 DEF a
<1>2. ASSUME BeaconInv, verify_beacon(per_block, beacon_value) = "PASS",
             NEW i \in DOMAIN per_block, NEW j \in DOMAIN per_block, i # j, Truthful(j)
      PROVE  LET reached(t, p) == CausallyAdmissible(t, p, published[j].t_emit_ns, published[j].pos_nm)
             IN  /\ \A s \in Ids(per_block[i].receipts) :
                      ~reached(arrival(published[i].t_emit_ns, published[i].pos_nm, s), PosOf(s))
                 /\ Truthful(i) => ~reached(published[i].t_emit_ns, published[i].pos_nm)
  <2> DEFINE a == per_block[i]
             b == per_block[j]
             real == published[i]
             other == published[j]
  <2>1. /\ i \in Int /\ j \in Int /\ IsHeard(a, real) /\ IsHeard(b, other)
        /\ real \in Emissions /\ other \in Emissions
    BY <1>2 DEF BeaconInv
  <2>2. ~CausallyAdmissible(a.t_emit_ns, a.pos_nm, b.t_emit_ns, b.pos_nm)
    <3>1. PairwiseSpacelike(per_block)
      BY <1>2 DEF verify_beacon
    <3>2. CASE i < j
      BY <3>1, <3>2 DEF PairwiseSpacelike, ConcurrentBlocks
    <3>3. CASE j < i
      BY <3>1, <3>3 DEF PairwiseSpacelike, ConcurrentBlocks
    <3> QED
      BY <1>2, <2>1, <3>2, <3>3
  <2>3. other.t_emit_ns = b.t_emit_ns /\ other.pos_nm = b.pos_nm
    BY <1>2 DEF Truthful, Emission
  <2>4. Truthful(i) => real.t_emit_ns = a.t_emit_ns /\ real.pos_nm = a.pos_nm
    BY DEF Truthful, Emission
  <2>5. \A n \in DOMAIN a.receipts :
          CausallyAdmissible(a.t_emit_ns, a.pos_nm, a.receipts[n].body.recv_time_ns,
                             PosOf(a.receipts[n].body.station_id))
    BY <1>1, <1>2
  <2>6. ASSUME NEW s \in Ids(a.receipts)
        PROVE  ~CausallyAdmissible(arrival(real.t_emit_ns, real.pos_nm, s), PosOf(s),
                                   other.t_emit_ns, other.pos_nm)
    <3> HIDE DEF a, b, real, other
    <3>1. PICK n \in DOMAIN a.receipts : s = a.receipts[n].body.station_id
      BY <2>6 DEF Ids
    <3> DEFINE r == arrival(real.t_emit_ns, real.pos_nm, s)
               p == PosOf(s)
    <3>2. r = a.receipts[n].body.recv_time_ns /\ r \in Int /\ s \in StationIds
      BY <2>1, <3>1 DEF IsHeard
    <3>3. p \in Point
      BY <3>2, CertificatesAssumption
    <3>4. CausallyAdmissible(a.t_emit_ns, a.pos_nm, r, p)
      BY <2>5, <3>1, <3>2
    <3>5. /\ a.t_emit_ns \in Int /\ a.pos_nm \in Point
          /\ b.t_emit_ns \in Int /\ b.pos_nm \in Point
      BY <2>1 DEF IsHeard
    <3> HIDE DEF r, p
    <3>6. ~CausallyAdmissible(r, p, b.t_emit_ns, b.pos_nm)
      BY <2>2, <3>2, <3>3, <3>4, <3>5, AdmissibleTransitive
    <3> QED
      BY <2>3, <3>6 DEF r, p
  <2>7. Truthful(i) => ~CausallyAdmissible(real.t_emit_ns, real.pos_nm, other.t_emit_ns, other.pos_nm)
    BY <2>2, <2>3, <2>4
  <2> QED
    BY <2>6, <2>7
<1>3. BeaconInv => BlocksAreIndependent
  BY <1>1, <1>2 DEF BlocksAreIndependent
<1> QED
  BY <1>3, BeaconInvariance, PTL

---------------------------------------------------------------------------
(* The lineage of a link's events: whatever a vector clock counts, light from *)
(* it has arrived.                                                           *)

\* Light that arrived where other light left later has arrived there as well.
LEMMA ArrivedTransitive ==
    ASSUME NEW t1 \in Int, NEW t2 \in Int, NEW t3 \in Int,
           NEW p, NEW q, NEW r, IsTriple(p), IsTriple(q), IsTriple(r),
           LightArrived(t1, p, t2, q), LightArrived(t2, q, t3, r)
    PROVE  LightArrived(t1, p, t3, r)
<1> DEFINE a == 2 * (C * (t2 - t1))
           b == 2 * (C * (t3 - t2))
           c == 2 * (C * (t3 - t1))
<1>1. t1 <= t2 /\ t2 <= t3
  BY DEF LightArrived
<1>2. a \in Nat /\ b \in Nat
  BY <1>1, CAssumption
<1>3. a * a >= Dist2(p, q) /\ b * b >= Dist2(q, r)
  <2>1. \A k \in Int : 4 * k * k = (2 * k) * (2 * k)
    OBVIOUS
  <2>2. C * (t2 - t1) \in Int /\ C * (t3 - t2) \in Int
    BY CAssumption
  <2>3. 4 * (C * (t2 - t1)) * (C * (t2 - t1)) >= Dist2(p, q)
    BY DEF LightArrived
  <2>4. 4 * (C * (t3 - t2)) * (C * (t3 - t2)) >= Dist2(q, r)
    BY DEF LightArrived
  <2> QED
    BY <2>1, <2>2, <2>3, <2>4
<1>4. (a + b) * (a + b) >= Dist2(p, r)
  BY <1>2, <1>3, SpanTriangle
<1>5. a + b = c /\ C * (t3 - t1) \in Int
  BY CAssumption
<1>6. c * c = 4 * (C * (t3 - t1)) * (C * (t3 - t1))
  BY <1>5
<1> QED
  BY <1>1, <1>4, <1>5, <1>6 DEF LightArrived

\* Light is at once where it left.
LEMMA ArrivedHere ==
    ASSUME NEW t \in Int, NEW p, IsTriple(p) PROVE LightArrived(t, p, t, p)
<1>1. Dist2(p, p) = 0
  BY DEF Dist2, IsTriple
<1>2. C * (t - t) = 0
  BY CAssumption
<1> QED
  BY <1>1, <1>2 DEF LightArrived

\* The two floors of places known within radii, true places doubled: light that
\* has arrived is not rejected, and what is admitted has arrived.
LEMMA TwoFloorAndLight ==
    ASSUME NEW p, NEW q, NEW x, NEW y, IsTriple(p), IsTriple(q), IsTriple(x), IsTriple(y),
           NEW r1 \in Nat, NEW r2 \in Nat, NEW t1 \in Int, NEW t2 \in Int,
           (2 * r1) * (2 * r1) >= Dist2(Twice(p), x), (2 * r2) * (2 * r2) >= Dist2(Twice(q), y)
    PROVE  /\ LightArrived(t1, x, t2, y) => two_floor(t2 - t1, p, r1, q, r2) # "REJECTED"
           /\ two_floor(t2 - t1, p, r1, q, r2) = "ADMITTED" => LightArrived(t1, x, t2, y)
<1> DEFINE lapse == t2 - t1
           r == r1 + r2
           L == C * lapse
           d2 == Dist2(p, q)
           P2 == Twice(p)
           Q2 == Twice(q)
<1>1. r \in Nat /\ L \in Int /\ d2 \in Nat /\ (lapse >= 0 => L \in Nat) /\ lapse \in Int
  BY SpanIsNatural, CAssumption
<1>2. /\ IsTriple(P2) /\ IsTriple(Q2)
      /\ P2[1] = 2 * p[1] /\ P2[2] = 2 * p[2] /\ P2[3] = 2 * p[3]
      /\ Q2[1] = 2 * q[1] /\ Q2[2] = 2 * q[2] /\ Q2[3] = 2 * q[3]
  BY DEF Twice, IsTriple
<1>3. Dist2(P2, Q2) = 4 * d2
  <2> DEFINE u == q[1] - p[1]
             v == q[2] - p[2]
             w == q[3] - p[3]
  <2>1. u \in Int /\ v \in Int /\ w \in Int
    BY DEF IsTriple
  <2>2. Q2[1] - P2[1] = 2 * u /\ Q2[2] - P2[2] = 2 * v /\ Q2[3] - P2[3] = 2 * w
    BY <1>2 DEF IsTriple
  <2>3. d2 = u * u + v * v + w * w
    BY DEF Dist2
  <2> HIDE DEF u, v, w, d2, P2, Q2
  <2>4. Dist2(P2, Q2) = (2 * u) * (2 * u) + (2 * v) * (2 * v) + (2 * w) * (2 * w)
    BY <2>2 DEF Dist2
  <2> QED
    BY <2>1, <2>3, <2>4
<1>4. /\ Dist2(x, P2) = Dist2(P2, x) /\ Dist2(y, Q2) = Dist2(Q2, y)
      /\ Dist2(x, y) \in Nat /\ Dist2(P2, Q2) \in Nat
  BY <1>2, SpanIsNatural
<1>5. two_floor(lapse, p, r1, q, r2) = "ADMITTED" => lapse >= 0 /\ L >= r /\ (L - r) * (L - r) >= d2
  BY DEF two_floor
<1>6. two_floor(lapse, p, r1, q, r2) = "REJECTED" => lapse < 0 \/ (L + r) * (L + r) < d2
  BY DEF two_floor
<1>7. LightArrived(t1, x, t2, y) <=> lapse >= 0 /\ (2 * L) * (2 * L) >= Dist2(x, y)
  <2>1. 4 * L * L = (2 * L) * (2 * L)
    BY <1>1
  <2>2. LightArrived(t1, x, t2, y) <=> t1 <= t2 /\ 4 * L * L >= Dist2(x, y)
    BY DEF LightArrived
  <2> QED
    BY <2>1, <2>2
<1> HIDE DEF L, d2, IsTriple, P2, Q2, lapse
<1>8. ASSUME lapse >= 0, L >= r, (L - r) * (L - r) >= d2 PROVE (2 * L) * (2 * L) >= Dist2(x, y)
  <2> DEFINE m == L - r
  <2>1. m \in Nat /\ L = r1 + m + r2
    BY <1>1, <1>8
  <2>2. m * m >= d2
    BY <1>8
  <2> HIDE DEF m
  <2>3. (2 * m) * (2 * m) >= Dist2(P2, Q2) /\ 2 * r1 \in Nat /\ 2 * r2 \in Nat /\ 2 * m \in Nat
    BY <1>1, <1>3, <2>1, <2>2
  <2>4. (2 * r1 + 2 * m + 2 * r2) * (2 * r1 + 2 * m + 2 * r2) >= Dist2(x, y)
    BY <1>2, <1>4, <2>3, SpanByTwo DEF P2, Q2
  <2>5. 2 * r1 + 2 * m + 2 * r2 = 2 * L
    BY <2>1
  <2> QED
    BY <2>4, <2>5
<1>9. ASSUME lapse >= 0, (2 * L) * (2 * L) >= Dist2(x, y) PROVE ~((L + r) * (L + r) < d2)
  <2>1. L \in Nat /\ 2 * r1 \in Nat /\ 2 * r2 \in Nat /\ 2 * L \in Nat
    BY <1>1, <1>9
  <2>2. (2 * r1 + 2 * L + 2 * r2) * (2 * r1 + 2 * L + 2 * r2) >= Dist2(P2, Q2)
    BY <1>2, <1>4, <1>9, <2>1, SpanByTwo DEF P2, Q2
  <2> DEFINE n == L + r
  <2>3. n \in Nat /\ 2 * r1 + 2 * L + 2 * r2 = 2 * n
    BY <1>1, <2>1
  <2> HIDE DEF n
  <2>4. (2 * n) * (2 * n) >= 4 * d2
    BY <1>3, <2>2, <2>3
  <2>5. n * n >= d2
    BY <1>1, <2>3, <2>4
  <2> QED
    BY <1>1, <2>3, <2>5 DEF n
<1> QED
  BY <1>5, <1>6, <1>7, <1>8, <1>9 DEF lapse

\* Floor division by a positive number keeps the order.
LEMMA QuotientMonotone ==
    ASSUME NEW n \in Nat \ {0}, NEW x \in Int, NEW y \in Int, x <= y
    PROVE  x \div n <= y \div n
<1> DEFINE i == x \div n
           j == y \div n
           g == x % n
           h == y % n
<1>1. i \in Int /\ x = n * i + g /\ g \in 0..(n - 1)
  BY DivMod
<1>2. j \in Int /\ y = n * j + h /\ h \in 0..(n - 1)
  BY DivMod
<1> SUFFICES ASSUME i > j PROVE FALSE
  BY <1>1, <1>2
<1> HIDE DEF i, j, g, h
<1>3. n * (i - j) >= n /\ n * i \in Int /\ n * j \in Int
  BY <1>1, <1>2
<1>4. n * (i - j) = n * i - n * j
  BY <1>1, <1>2
<1> QED
  BY <1>1, <1>2, <1>3, <1>4

\* A clock that runs forward gives a later event no earlier proper time.
LEMMA ProperTimeMonotone ==
    ASSUME NEW node, NEW t1 \in Int, NEW t2 \in Int, t1 <= t2
    PROVE  tau_at(node, t1) <= tau_at(node, t2)
<1> DEFINE num == 2 * C * C + 2 * phi - v2
           den == 2 * C * C
<1>1. num \in Nat /\ den \in Nat \ {0}
  <2>1. C * C \in Nat \ {0}
    BY CAssumption
  <2>2. 2 * C * C = 2 * (C * C)
    BY CAssumption
  <2> QED
    BY <2>1, <2>2, SpaceLinkAssumption
<1>2. tau_at(node, t1) = (IF node = "ground" THEN t1 ELSE (num * t1) \div den)
  BY DEF tau_at, weak_field_rate
<1>3. tau_at(node, t2) = (IF node = "ground" THEN t2 ELSE (num * t2) \div den)
  BY DEF tau_at, weak_field_rate
<1> HIDE DEF num, den
<1>4. num * t1 \in Int /\ num * t2 \in Int /\ num * t1 <= num * t2
  BY <1>1
<1>5. (num * t1) \div den <= (num * t2) \div den
  BY <1>1, <1>4, QuotientMonotone
<1> QED
  BY <1>2, <1>3, <1>5

LEMMA AtIsNatural == ASSUME NEW x, IsVector(x), NEW k PROVE At(x, k) \in Nat
  BY DEF At, IsVector

\* vclock.tick adds one to the node's own component.
LEMMA TickedAt ==
    ASSUME NEW x, IsVector(x), NEW node
    PROVE  /\ IsVector(Ticked(x, node))
           /\ At(Ticked(x, node), node) = At(x, node) + 1
           /\ \A k : k # node => At(Ticked(x, node), k) = At(x, k)
<1>1. DOMAIN Ticked(x, node) = DOMAIN x \cup {node}
  BY DEF Ticked
<1>2. \A k \in DOMAIN x \cup {node} : Ticked(x, node)[k] = At(x, k) + IF k = node THEN 1 ELSE 0
  BY DEF Ticked
<1>3. \A k : At(x, k) \in Nat
  BY AtIsNatural
<1> QED
  BY <1>1, <1>2, <1>3 DEF At, IsVector

\* vclock.merge takes the larger of each component.
LEMMA MergedAt ==
    ASSUME NEW x, NEW y, IsVector(x), IsVector(y)
    PROVE  /\ IsVector(Merged(x, y))
           /\ \A k : At(Merged(x, y), k) = IF At(x, k) > At(y, k) THEN At(x, k) ELSE At(y, k)
<1>1. DOMAIN Merged(x, y) = DOMAIN x \cup DOMAIN y
  BY DEF Merged
<1>2. \A k \in DOMAIN x \cup DOMAIN y :
        Merged(x, y)[k] = IF At(x, k) > At(y, k) THEN At(x, k) ELSE At(y, k)
  BY DEF Merged
<1>3. \A k : At(x, k) \in Nat /\ At(y, k) \in Nat
  BY AtIsNatural
<1>4. IsVector(Merged(x, y))
  BY <1>1, <1>2, <1>3 DEF IsVector
<1>5. ASSUME NEW k PROVE At(Merged(x, y), k) = IF At(x, k) > At(y, k) THEN At(x, k) ELSE At(y, k)
  <2>1. CASE k \in DOMAIN x \cup DOMAIN y
    BY <1>1, <1>2, <2>1 DEF At
  <2>2. CASE k \notin DOMAIN x \cup DOMAIN y
    BY <1>1, <2>2 DEF At
  <2> QED
    BY <2>1, <2>2
<1> QED
  BY <1>4, <1>5

\* An event's place is where its locator says, within its radius.
PlacedWithin(e) ==
    /\ IsTriple(e.at) /\ IsTriple(PlaceOf(e)) /\ RadiusOf(e) \in Nat
    /\ (2 * RadiusOf(e)) * (2 * RadiusOf(e)) >= Dist2(Twice(PlaceOf(e)), e.at)

\* Whatever a vector clock counts of the event a, light from a has arrived where
\* the clock is read.
Knows(a, x, t, p) == At(a.vc, a.node) <= At(x, a.node) => LightArrived(a.t, a.at, t, p)

\* A vector clock counts no event that its node has not counted itself.
Counted(x) == \A n \in Nodes : At(x, n) <= At(clocks[n], n)

Flight == now \in Nat /\ ship.v \in (-C)..C /\ \A n \in Nodes : IsTriple(TruePlace(n))

ClocksInv ==
    /\ clocks \in [Nodes -> {clocks[n] : n \in Nodes}]
    /\ \A n \in Nodes : IsVector(clocks[n]) /\ Counted(clocks[n])
    /\ \A n \in Nodes, a \in merged : Knows(a, clocks[n], now, TruePlace(n))

EventsInv ==
    \A e \in merged :
      /\ e.node \in Nodes /\ e.t \in Nat /\ e.t <= now /\ e.tau = tau_at(e.node, e.t)
      /\ PlacedWithin(e) /\ IsVector(e.vc) /\ Counted(e.vc)
      /\ \A a \in merged : Knows(a, e.vc, e.t, e.at)

SignalsInv ==
    \A s \in flying :
      /\ s.t \in Nat /\ s.t <= now /\ IsTriple(s.at) /\ IsVector(s.vc) /\ Counted(s.vc)
      /\ \A a \in merged : Knows(a, s.vc, s.t, s.at)

LineageInv == LinkInv /\ Flight /\ ClocksInv /\ EventsInv /\ SignalsInv

\* The three coordinates of a node's true place are integers.
LEMMA PlacesAreTriples == ASSUME ship.x2 \in Int, NEW n \in Nodes PROVE IsTriple(TruePlace(n))
<1>1. Ground[1] \in Int /\ Ground[2] \in Int /\ Ground[3] \in Int
  BY TrajectoriesAssumption DEF Point
<1>2. 2 * Track \in Int
  BY SpaceLinkAssumption
<1> QED
  BY <1>1, <1>2 DEF TruePlace, IsTriple, Twice

LEMMA LineageInitial == ASSUME LinkInit PROVE LineageInv
<1>1. PICK v \in ((-C)..C) \cap ((-v_unc)..v_unc) : ship = [x2 |-> 2 * Start, v |-> v]
  BY DEF LinkInit
<1>2. Flight
  <2>1. ship.v \in (-C)..C /\ ship.x2 \in Int /\ now = 0
    BY <1>1, SpaceLinkAssumption DEF LinkInit
  <2> QED
    BY <2>1, PlacesAreTriples DEF Flight
<1>3. merged = {} /\ flying = {} /\ clocks = [n \in Nodes |-> [k \in {} |-> 0]]
  BY DEF LinkInit
<1>4. \A n \in Nodes : DOMAIN clocks[n] = {}
  BY <1>3
<1>5. \A n \in Nodes : \A m : At(clocks[n], m) = 0
  BY <1>4 DEF At
<1>6. ClocksInv
  BY <1>3, <1>4, <1>5 DEF ClocksInv, IsVector, Counted
<1> QED
  BY <1>2, <1>3, <1>6, LinkInitial DEF LineageInv, EventsInv, SignalsInv

\* In one nanosecond a node goes no farther than light: knowledge survives.
LEMMA LineageFlies == ASSUME LineageInv, Fly1 PROVE LineageInv'
<1>1. PICK a \in (-a_max)..a_max :
        /\ ship.v + a \in (-C)..C
        /\ ship' = [x2 |-> ship.x2 + 2 * ship.v + a, v |-> ship.v + a]
  BY DEF Fly1
<1>2. /\ now' = now + 1 /\ envelope' = envelope /\ clocks' = clocks
      /\ flying' = flying /\ merged' = merged
  BY DEF Fly1
<1>3. /\ a \in Int /\ now \in Nat /\ ship.x2 \in Int /\ ship.v \in Int
      /\ -C <= ship.v /\ ship.v <= C /\ -C <= ship.v + a /\ ship.v + a <= C /\ C \in Nat
  BY <1>1, SpaceLinkAssumption, CAssumption DEF LineageInv, LinkInv, Flight
<1>4. Flight'
  <2>1. ship'.x2 \in Int /\ ship'.v \in (-C)..C /\ now' \in Nat
    BY <1>1, <1>2, <1>3
  <2>2. \A n \in Nodes : IsTriple(TruePlace(n)')
    BY <2>1, PlacesAreTriples, SpaceLinkAssumption, TrajectoriesAssumption
       DEF TruePlace, IsTriple, Twice, Point
  <2> QED
    BY <2>1, <2>2 DEF Flight
<1>5. ASSUME NEW n \in Nodes PROVE LightArrived(now, TruePlace(n), now', TruePlace(n)')
  <2>1. C * (now' - now) = C
    BY <1>2, <1>3
  <2>2. LightArrived(now, TruePlace(n), now', TruePlace(n)') <=> 4 * C * C >= Dist2(TruePlace(n), TruePlace(n)')
    BY <1>2, <1>3, <2>1 DEF LightArrived
  <2>3. CASE n = "ground"
    <3>1. TruePlace(n)' = TruePlace(n) /\ IsTriple(TruePlace(n))
      BY <2>3 DEF TruePlace, LineageInv, Flight
    <3>2. Dist2(TruePlace(n), TruePlace(n)) = 0
      BY <3>1 DEF Dist2, IsTriple
    <3>3. 4 * C * C >= 0
      BY <1>3
    <3> QED
      BY <2>2, <3>1, <3>2, <3>3
  <2>4. CASE n = "ship"
    <3> DEFINE d == 2 * ship.v + a
    <3>1. /\ TruePlace(n)[1] = ship.x2 /\ TruePlace(n)[2] = 2 * Track /\ TruePlace(n)[3] = 0
          /\ TruePlace(n)'[1] = ship.x2 + 2 * ship.v + a /\ TruePlace(n)'[2] = 2 * Track /\ TruePlace(n)'[3] = 0
      BY <1>1, <2>4 DEF TruePlace
    <3>2. /\ TruePlace(n)'[1] - TruePlace(n)[1] = d
          /\ TruePlace(n)'[2] - TruePlace(n)[2] = 0 /\ TruePlace(n)'[3] - TruePlace(n)[3] = 0
      BY <1>3, <3>1, SpaceLinkAssumption
    <3>3. d \in Int /\ -(2 * C) <= d /\ d <= 2 * C
      BY <1>3
    <3> HIDE DEF d
    <3>4. Dist2(TruePlace(n), TruePlace(n)') = d * d
      BY <3>2, <3>3 DEF Dist2
    <3>5. d * d <= (2 * C) * (2 * C)
      <4>1. CASE d >= 0
        BY <1>3, <3>3, <4>1, SquareMonotone
      <4>2. CASE d < 0
        <5>1. -d \in Nat /\ -d <= 2 * C /\ 2 * C \in Nat
          BY <1>3, <3>3, <4>2
        <5>2. (-d) * (-d) <= (2 * C) * (2 * C)
          BY <5>1, SquareMonotone
        <5> QED
          BY <3>3, <5>2
      <4> QED
        BY <3>3, <4>1, <4>2
    <3>6. (2 * C) * (2 * C) = 4 * C * C /\ d * d \in Int
      BY <1>3, <3>3
    <3> QED
      BY <1>3, <2>2, <3>4, <3>5, <3>6
  <2> QED
    BY <2>3, <2>4 DEF Nodes
<1>6. ASSUME NEW n \in Nodes, NEW e \in merged PROVE Knows(e, clocks[n], now', TruePlace(n)')
  <2>1. Knows(e, clocks[n], now, TruePlace(n))
    BY DEF LineageInv, ClocksInv
  <2>2. e.t \in Int /\ now \in Int /\ now' \in Int
    BY <1>2, <1>3 DEF LineageInv, EventsInv
  <2>3. IsTriple(e.at) /\ IsTriple(TruePlace(n)) /\ IsTriple(TruePlace(n)')
    BY <1>4 DEF LineageInv, EventsInv, PlacedWithin, Flight
  <2>4. LightArrived(now, TruePlace(n), now', TruePlace(n)')
    BY <1>5
  <2>5. LightArrived(e.t, e.at, now, TruePlace(n)) => LightArrived(e.t, e.at, now', TruePlace(n)')
    BY <2>2, <2>3, <2>4, ArrivedTransitive
  <2> QED
    BY <2>1, <2>5 DEF Knows
<1>7. ClocksInv'
  BY <1>2, <1>6 DEF LineageInv, ClocksInv, Counted, Knows
<1>8. EventsInv' /\ SignalsInv'
  <2>1. \A t \in Nat : t <= now => t <= now'
    BY <1>2, <1>3
  <2> QED
    BY <1>2, <2>1 DEF LineageInv, EventsInv, SignalsInv, Counted, Knows
<1>9. LinkInv'
  BY FlyStep DEF LineageInv
<1> QED
  BY <1>4, <1>7, <1>8, <1>9 DEF LineageInv

\* The locator an event is stamped with holds the true place.
LEMMA StampIsPlaced ==
    ASSUME LineageInv, NEW node \in Nodes, NEW vc
    PROVE  PlacedWithin(Stamp(node, vc, envelope))
<1> DEFINE e == Stamp(node, vc, envelope)
<1>1. e.t = now /\ e.at = TruePlace(node) /\ IsTriple(e.at)
  BY DEF Stamp, LineageInv, Flight
<1>2. CASE node = "ground"
  <2>1. e.locator = [nominal |-> FixedAt(Ground)] /\ "t_c" \notin DOMAIN e.locator
    BY <1>2 DEF Stamp
  <2>2. RadiusOf(e) = 0 /\ PlaceOf(e) = position_at(FixedAt(Ground), now)
    BY <1>1, <2>1 DEF RadiusOf, PlaceOf
  <2>3. Ground[1] \in Int /\ Ground[2] \in Int /\ Ground[3] \in Int
    BY TrajectoriesAssumption DEF Point
  <2>4. \A i \in {1, 2, 3} : PlaceOf(e)[i] = Ground[i]
    <3>1. 0 * (now - 0) = 0 /\ 0 \div 1 = 0
      BY DEF LineageInv, Flight
    <3>2. \A i \in {1, 2, 3} : PlaceOf(e)[i] = Ground[i] + (0 * (now - 0)) \div 1
      BY <2>2 DEF position_at, FixedAt
    <3> QED
      BY <2>3, <3>1, <3>2
  <2>5. IsTriple(PlaceOf(e))
    BY <2>3, <2>4 DEF IsTriple
  <2>6. Dist2(Twice(PlaceOf(e)), e.at) = 0
    <3>1. \A i \in {1, 2, 3} : Twice(PlaceOf(e))[i] = 2 * Ground[i] /\ e.at[i] = 2 * Ground[i]
      BY <1>1, <1>2, <2>4 DEF Twice, TruePlace
    <3>2. \A i \in {1, 2, 3} : e.at[i] - Twice(PlaceOf(e))[i] = 0
      BY <2>3, <3>1
    <3> QED
      BY <3>2 DEF Dist2
  <2> QED
    BY <1>1, <2>2, <2>5, <2>6 DEF PlacedWithin
<1>3. CASE node = "ship"
  <2>1. e.locator = envelope
    BY <1>3 DEF Stamp
  <2>2. PICK x, v, t \in Int : envelope = Envelope(x, v, t)
    BY DEF LineageInv, LinkInv
  <2>3. "t_c" \in DOMAIN e.locator
    BY <2>1, <2>2 DEF Envelope
  <2>4. RadiusOf(e) = radius_at(envelope, now) /\ PlaceOf(e) = position_at(envelope.nominal, now)
    BY <1>1, <2>1, <2>3 DEF RadiusOf, PlaceOf
  <2>5. IsTriple(PlaceOf(e)) /\ RadiusOf(e) \in Nat /\ ShipStaysInside
    BY <2>4, InsideEnvelope DEF LineageInv
  <2>6. Dist2(Twice(PlaceOf(e)), e.at) <= (2 * RadiusOf(e)) * (2 * RadiusOf(e))
    BY <1>1, <1>3, <2>4, <2>5 DEF ShipStaysInside
  <2>7. IsTriple(Twice(PlaceOf(e)))
    BY <2>5 DEF IsTriple, Twice
  <2>8. Dist2(Twice(PlaceOf(e)), e.at) \in Nat /\ (2 * RadiusOf(e)) * (2 * RadiusOf(e)) \in Nat
    BY <1>1, <2>5, <2>7, SpanIsNatural
  <2> QED
    BY <1>1, <2>5, <2>6, <2>8 DEF PlacedWithin
<1> QED
  BY <1>2, <1>3 DEF Nodes

\* The new event of Say and of Hear, from a clock that counts the node's own
\* events, no unknown ones, and nothing whose light has not arrived.
LEMMA StampKeepsLineage ==
    ASSUME Flight, ClocksInv, EventsInv, SignalsInv,
           NEW node \in Nodes, NEW base, IsVector(base), Counted(base),
           At(base, node) = At(clocks[node], node),
           \A n \in Nodes : At(clocks[node], n) <= At(base, n),
           \A a \in merged : Knows(a, base, now, TruePlace(node)),
           now' = now, ship' = ship,
           clocks' = [clocks EXCEPT ![node] = Ticked(base, node)],
           PlacedWithin(Stamp(node, Ticked(base, node), envelope)),
           merged' = merged \cup {Stamp(node, Ticked(base, node), envelope)},
           NEW v, flying' \subseteq flying \cup {[from |-> node, t |-> now, v |-> v,
                                                  at |-> TruePlace(node), vc |-> Ticked(base, node)]}
    PROVE  Flight' /\ ClocksInv' /\ EventsInv' /\ SignalsInv'
<1> DEFINE vc == Ticked(base, node)
           new == Stamp(node, vc, envelope)
           signal == [from |-> node, t |-> now, v |-> v, at |-> TruePlace(node), vc |-> vc]
<1>1. /\ IsVector(vc) /\ At(vc, node) = At(base, node) + 1
      /\ \A k : k # node => At(vc, k) = At(base, k)
  BY TickedAt
<1>2. /\ new.node = node /\ new.vc = vc /\ new.t = now /\ new.at = TruePlace(node)
      /\ new.tau = tau_at(node, now) /\ PlacedWithin(new)
  BY DEF Stamp
<1>3. signal.t = now /\ signal.at = TruePlace(node) /\ signal.vc = vc
  OBVIOUS
<1>4. \A n \in Nodes : TruePlace(n)' = TruePlace(n)
  BY DEF TruePlace
<1>5. clocks'[node] = vc /\ \A n \in Nodes : n # node => clocks'[n] = clocks[n]
  BY DEF ClocksInv
<1>6. merged' = merged \cup {new} /\ flying' \subseteq flying \cup {signal}
  OBVIOUS
<1> HIDE DEF vc, new, signal
<1>7. Flight'
  BY <1>4 DEF Flight
<1>8. \A n \in Nodes : At(base, n) \in Nat /\ At(clocks[n], n) \in Nat /\ At(vc, n) \in Nat
  BY <1>1, AtIsNatural DEF ClocksInv
<1>9. \A n \in Nodes : At(clocks[n], n) <= At(clocks'[n], n)
  BY <1>1, <1>5, <1>8
<1>10. ASSUME NEW x, IsVector(x), Counted(x) PROVE Counted(x)'
  <2>1. \A n \in Nodes : At(x, n) <= At(clocks[n], n) /\ At(x, n) \in Nat
    BY <1>10, AtIsNatural DEF Counted
  <2>2. \A n \in Nodes : At(clocks'[n], n) \in Nat
    BY <1>1, <1>5, <1>8
  <2>3. \A n \in Nodes : At(x, n) <= At(clocks'[n], n)
    BY <1>8, <1>9, <2>1, <2>2
  <2> QED
    BY <2>3 DEF Counted
<1>11. Counted(vc)'
  <2> SUFFICES ASSUME NEW n \in Nodes PROVE At(vc, n) <= At(clocks'[n], n)
    BY DEF Counted
  <2>1. CASE n = node
    BY <1>5, <1>8, <2>1
  <2>2. CASE n # node
    BY <1>1, <1>5, <2>2 DEF Counted
  <2> QED
    BY <2>1, <2>2
<1>12. ASSUME NEW x, IsVector(x), Counted(x), NEW t, NEW p PROVE Knows(new, x, t, p)
  <2>1. At(x, node) <= At(clocks[node], node) /\ At(x, node) \in Nat
    BY <1>12, AtIsNatural DEF Counted
  <2>2. ~(At(new.vc, new.node) <= At(x, new.node))
    BY <1>1, <1>2, <1>8, <2>1
  <2> QED
    BY <2>2 DEF Knows
<1>13. ASSUME NEW a \in merged' PROVE Knows(a, vc, now, TruePlace(node))
  <2>1. CASE a \in merged
    <3>1. Knows(a, base, now, TruePlace(node))
      BY <2>1
    <3>2. a.node \in Nodes /\ At(a.vc, a.node) \in Nat
      BY <2>1, AtIsNatural DEF EventsInv
    <3>3. CASE a.node = node
      <4>1. At(a.vc, node) <= At(base, node)
        BY <2>1, <3>3 DEF EventsInv, Counted
      <4> QED
        BY <3>1, <3>3, <4>1 DEF Knows
    <3>4. CASE a.node # node
      BY <1>1, <3>1, <3>4 DEF Knows
    <3> QED
      BY <3>3, <3>4
  <2>2. CASE a = new
    <3>1. now \in Int /\ IsTriple(TruePlace(node))
      BY DEF Flight
    <3>2. LightArrived(now, TruePlace(node), now, TruePlace(node))
      BY <3>1, ArrivedHere
    <3> QED
      BY <1>2, <2>2, <3>2 DEF Knows
  <2> QED
    BY <1>6, <2>1, <2>2
<1>14. ClocksInv'
  <2>1. clocks' \in [Nodes -> {clocks'[n] : n \in Nodes}]
    BY DEF ClocksInv
  <2>2. ASSUME NEW n \in Nodes
        PROVE  /\ IsVector(clocks'[n])
               /\ \A m \in Nodes : At(clocks'[n], m) <= At(clocks'[m], m)
               /\ \A a \in merged' : Knows(a, clocks'[n], now, TruePlace(n))
    <3>1. CASE n = node
      <4>1. \A m \in Nodes : At(vc, m) <= At(clocks'[m], m)
        BY <1>11 DEF Counted
      <4> QED
        BY <1>1, <1>5, <1>13, <3>1, <4>1
    <3>2. CASE n # node
      <4>1. clocks'[n] = clocks[n] /\ IsVector(clocks[n]) /\ Counted(clocks[n])
        BY <1>5, <3>2 DEF ClocksInv
      <4>2. \A m \in Nodes : At(clocks[n], m) <= At(clocks'[m], m)
        BY <1>10, <4>1 DEF Counted
      <4>3. \A a \in merged : Knows(a, clocks[n], now, TruePlace(n))
        BY DEF ClocksInv
      <4>4. Knows(new, clocks[n], now, TruePlace(n))
        BY <1>12, <4>1
      <4> QED
        BY <1>6, <4>1, <4>2, <4>3, <4>4
    <3> QED
      BY <3>1, <3>2
  <2> QED
    BY <1>4, <2>1, <2>2 DEF ClocksInv, Counted, Knows
<1>15. EventsInv'
  <2> SUFFICES ASSUME NEW e \in merged'
               PROVE  /\ e.node \in Nodes /\ e.t \in Nat /\ e.t <= now /\ e.tau = tau_at(e.node, e.t)
                      /\ PlacedWithin(e) /\ IsVector(e.vc) /\ Counted(e.vc)'
                      /\ \A a \in merged' : Knows(a, e.vc, e.t, e.at)
    BY DEF EventsInv, Counted, Knows
  <2>1. CASE e \in merged
    <3>1. /\ e.node \in Nodes /\ e.t \in Nat /\ e.t <= now /\ e.tau = tau_at(e.node, e.t)
          /\ PlacedWithin(e) /\ IsVector(e.vc) /\ Counted(e.vc)
          /\ \A a \in merged : Knows(a, e.vc, e.t, e.at)
      BY <2>1 DEF EventsInv
    <3>2. Counted(e.vc)' /\ Knows(new, e.vc, e.t, e.at)
      <4>1. Knows(new, e.vc, e.t, e.at)
        BY <1>12, <3>1
      <4>2. \A m \in Nodes : At(e.vc, m) <= At(clocks'[m], m)
        BY <1>10, <3>1 DEF Counted
      <4>3. e' = e
        OBVIOUS
      <4> QED
        BY <4>1, <4>2, <4>3 DEF Counted
    <3> QED
      BY <1>6, <3>1, <3>2
  <2>2. CASE e = new
    <3>1. now \in Nat /\ now <= now
      BY DEF Flight
    <3>2. \A m \in Nodes : At(vc, m) <= At(clocks'[m], m)
      BY <1>11 DEF Counted
    <3> QED
      BY <1>1, <1>2, <1>13, <2>2, <3>1, <3>2 DEF Counted
  <2> QED
    BY <1>6, <2>1, <2>2
<1>16. SignalsInv'
  <2> SUFFICES ASSUME NEW s \in flying'
               PROVE  /\ s.t \in Nat /\ s.t <= now /\ IsTriple(s.at) /\ IsVector(s.vc)
                      /\ \A m \in Nodes : At(s.vc, m) <= At(clocks'[m], m)
                      /\ \A a \in merged' : Knows(a, s.vc, s.t, s.at)
    BY DEF SignalsInv, Counted, Knows
  <2>1. CASE s \in flying
    <3>1. /\ s.t \in Nat /\ s.t <= now /\ IsTriple(s.at) /\ IsVector(s.vc) /\ Counted(s.vc)
          /\ \A a \in merged : Knows(a, s.vc, s.t, s.at)
      BY <2>1 DEF SignalsInv
    <3>2. Knows(new, s.vc, s.t, s.at)
      BY <1>12, <3>1
    <3>3. \A m \in Nodes : At(s.vc, m) <= At(clocks'[m], m)
      BY <1>10, <3>1 DEF Counted
    <3> QED
      BY <1>6, <3>1, <3>2, <3>3
  <2>2. CASE s = signal
    <3>1. now \in Nat /\ now <= now /\ IsTriple(TruePlace(node))
      BY DEF Flight
    <3>2. \A m \in Nodes : At(vc, m) <= At(clocks'[m], m)
      BY <1>11 DEF Counted
    <3> QED
      BY <1>1, <1>3, <1>13, <2>2, <3>1, <3>2
  <2> QED
    BY <1>6, <2>1, <2>2
<1> QED
  BY <1>7, <1>14, <1>15, <1>16

LEMMA LineageSays == ASSUME LineageInv, NEW node \in Nodes, Say(node) PROVE LineageInv'
<1> DEFINE base == clocks[node]
<1>1. Flight /\ ClocksInv /\ EventsInv /\ SignalsInv
  BY DEF LineageInv
<1>2. /\ IsVector(base) /\ Counted(base) /\ \A a \in merged : Knows(a, base, now, TruePlace(node))
      /\ \A n \in Nodes : At(clocks[node], n) <= At(base, n)
  <2>1. /\ IsVector(base) /\ Counted(base)
        /\ \A a \in merged : Knows(a, base, now, TruePlace(node))
    BY <1>1 DEF ClocksInv
  <2>2. \A n \in Nodes : At(base, n) \in Nat
    BY <2>1, AtIsNatural
  <2> QED
    BY <2>1, <2>2
<1>3. /\ now' = now /\ ship' = ship
      /\ clocks' = [clocks EXCEPT ![node] = Ticked(base, node)]
      /\ merged' = merged \cup {Stamp(node, Ticked(base, node), envelope)}
      /\ flying' = flying \cup {[from |-> node, t |-> now, v |-> ship.v,
                                 at |-> TruePlace(node), vc |-> Ticked(base, node)]}
  BY DEF Say
<1>4. PlacedWithin(Stamp(node, Ticked(base, node), envelope))
  BY StampIsPlaced
<1>5. LinkInv'
  BY SayStep DEF LineageInv
<1> HIDE DEF base
<1>6. Flight' /\ ClocksInv' /\ EventsInv' /\ SignalsInv'
  <2>1. At(base, node) = At(clocks[node], node)
    BY DEF base
  <2> QED
    BY <1>1, <1>2, <1>3, <1>4, <2>1, StampKeepsLineage
<1> QED
  BY <1>5, <1>6 DEF LineageInv

LEMMA LineageHears == ASSUME LineageInv, NEW node \in Nodes, Hear(node) PROVE LineageInv'
<1>1. Flight /\ ClocksInv /\ EventsInv /\ SignalsInv
  BY DEF LineageInv
<1>2. PICK s \in flying :
        /\ LightArrived(s.t, s.at, now, TruePlace(node))
        /\ now' = now /\ ship' = ship /\ flying' = flying \ {s}
        /\ clocks' = [clocks EXCEPT ![node] = Ticked(Merged(clocks[node], s.vc), node)]
        /\ merged' = merged \cup {Stamp(node, Ticked(Merged(clocks[node], s.vc), node), envelope)}
  BY DEF Hear
<1> DEFINE base == Merged(clocks[node], s.vc)
<1>3. /\ s.t \in Nat /\ IsTriple(s.at) /\ IsVector(s.vc) /\ Counted(s.vc)
      /\ \A a \in merged : Knows(a, s.vc, s.t, s.at)
  BY <1>1 DEF SignalsInv
<1>4. /\ IsVector(clocks[node]) /\ Counted(clocks[node])
      /\ \A a \in merged : Knows(a, clocks[node], now, TruePlace(node))
  BY <1>1 DEF ClocksInv
<1>5. /\ IsVector(base)
      /\ \A k : At(base, k) = IF At(clocks[node], k) > At(s.vc, k) THEN At(clocks[node], k) ELSE At(s.vc, k)
  BY <1>3, <1>4, MergedAt
<1>6. PlacedWithin(Stamp(node, Ticked(base, node), envelope))
  BY StampIsPlaced
<1>7. LinkInv'
  BY HearStep DEF LineageInv
<1> HIDE DEF base
<1>8. \A k : At(clocks[node], k) \in Nat /\ At(s.vc, k) \in Nat
  BY <1>3, <1>4, AtIsNatural
<1>9. Counted(base) /\ At(base, node) = At(clocks[node], node)
  <2>1. \A n \in Nodes : At(clocks[n], n) \in Nat
    BY <1>1, AtIsNatural DEF ClocksInv
  <2>2. At(s.vc, node) <= At(clocks[node], node)
    BY <1>3 DEF Counted
  <2>3. At(base, node) = At(clocks[node], node)
    BY <1>5, <1>8, <2>2
  <2>4. Counted(base)
    BY <1>3, <1>4, <1>5, <1>8, <2>1 DEF Counted
  <2> QED
    BY <2>3, <2>4
<1>10. \A n \in Nodes : At(clocks[node], n) <= At(base, n)
  BY <1>5, <1>8
<1>11. ASSUME NEW a \in merged PROVE Knows(a, base, now, TruePlace(node))
  <2> SUFFICES ASSUME At(a.vc, a.node) <= At(base, a.node)
               PROVE  LightArrived(a.t, a.at, now, TruePlace(node))
    BY DEF Knows
  <2>1. a.t \in Int /\ IsTriple(a.at) /\ now \in Int /\ IsTriple(TruePlace(node))
    BY <1>1 DEF EventsInv, PlacedWithin, Flight
  <2>2. CASE At(a.vc, a.node) <= At(clocks[node], a.node)
    BY <1>4, <2>2 DEF Knows
  <2>3. CASE At(a.vc, a.node) <= At(s.vc, a.node)
    <3>1. LightArrived(a.t, a.at, s.t, s.at)
      BY <1>3, <2>3 DEF Knows
    <3>2. s.t \in Int
      BY <1>3
    <3> QED
      BY <1>2, <1>3, <2>1, <3>1, <3>2, ArrivedTransitive
  <2> QED
    BY <1>5, <2>2, <2>3
<1>12. flying' \subseteq flying \cup {[from |-> node, t |-> now, v |-> ship.v,
                                     at |-> TruePlace(node), vc |-> Ticked(base, node)]}
  BY <1>2
<1>13. /\ clocks' = [clocks EXCEPT ![node] = Ticked(base, node)]
       /\ merged' = merged \cup {Stamp(node, Ticked(base, node), envelope)}
  BY <1>2 DEF base
<1>14. Flight' /\ ClocksInv' /\ EventsInv' /\ SignalsInv'
  BY <1>1, <1>2, <1>5, <1>6, <1>9, <1>10, <1>11, <1>12, <1>13, StampKeepsLineage
<1> QED
  BY <1>7, <1>14 DEF LineageInv

LEMMA LineageInvariance == LinkSpec => []LineageInv
<1>1. LineageInv /\ [LinkNext]_linkVars => LineageInv'
  <2> SUFFICES ASSUME LineageInv, [LinkNext]_linkVars PROVE LineageInv'
    OBVIOUS
  <2>1. CASE Fly1
    BY <2>1, LineageFlies
  <2>2. ASSUME NEW node \in Nodes, Say(node) \/ Hear(node) PROVE LineageInv'
    BY <2>2, LineageSays, LineageHears
  <2>3. CASE UNCHANGED linkVars
    <3>1. LinkInv'
      BY <2>3 DEF linkVars, LineageInv, LinkInv, SignalTrue, AnchorTrue, Near
    <3>2. Flight'
      BY <2>3 DEF linkVars, LineageInv, Flight, TruePlace
    <3>3. ClocksInv'
      BY <2>3 DEF linkVars, LineageInv, ClocksInv, Counted, Knows, TruePlace
    <3>4. EventsInv' /\ SignalsInv'
      BY <2>3 DEF linkVars, LineageInv, EventsInv, SignalsInv, Counted, Knows
    <3> QED
      BY <3>1, <3>2, <3>3, <3>4 DEF LineageInv
  <2> QED
    BY <2>1, <2>2, <2>3 DEF LinkNext
<1> QED
  BY <1>1, LineageInitial, PTL DEF LinkSpec

\* The physical check of a pair of events: never against the light that has
\* arrived, and never more than it.
LEMMA VerdictOfEvents ==
    ASSUME LineageInv, NEW a \in merged, NEW b \in merged
    PROVE  /\ LightArrived(a.t, a.at, b.t, b.at) =>
                _physical_verdict(a, b) \in {"ADMITTED", "APPARATUS_LIMITED"}
           /\ _physical_verdict(a, b) = "ADMITTED" => LightArrived(a.t, a.at, b.t, b.at)
<1>1. /\ a.t \in Int /\ b.t \in Int /\ IsTriple(a.at) /\ IsTriple(b.at)
      /\ IsTriple(PlaceOf(a)) /\ IsTriple(PlaceOf(b)) /\ RadiusOf(a) \in Nat /\ RadiusOf(b) \in Nat
      /\ (2 * RadiusOf(a)) * (2 * RadiusOf(a)) >= Dist2(Twice(PlaceOf(a)), a.at)
      /\ (2 * RadiusOf(b)) * (2 * RadiusOf(b)) >= Dist2(Twice(PlaceOf(b)), b.at)
  BY DEF LineageInv, EventsInv, PlacedWithin
<1>2. /\ LightArrived(a.t, a.at, b.t, b.at) => _physical_verdict(a, b) # "REJECTED"
      /\ _physical_verdict(a, b) = "ADMITTED" => LightArrived(a.t, a.at, b.t, b.at)
  BY <1>1, TwoFloorAndLight DEF _physical_verdict
<1>3. _physical_verdict(a, b) \in {"ADMITTED", "REJECTED", "APPARATUS_LIMITED"}
  <2>1. ASSUME NEW t, NEW p, NEW q, NEW r1, NEW r2
        PROVE  two_floor(t, p, r1, q, r2) \in {"ADMITTED", "REJECTED", "APPARATUS_LIMITED"}
    BY DEF two_floor
  <2> QED
    BY <2>1 DEF _physical_verdict
<1> QED
  BY <1>2, <1>3

\* reconcile.py and proper_time.py: on whatever flight, with whatever signals
\* late, a cause and its effect are never called concurrent nor taken in the wrong
\* order, an asserted order is one light allows between the true places, and a
\* node's proper times follow its events.
THEOREM LineageSurvivesHolds == LinkSpec => []LineageSurvives
<1>1. ASSUME LineageInv, NEW a \in merged, NEW b \in merged, LogBefore(a, b)
      PROVE  LightArrived(a.t, a.at, b.t, b.at)
  <2>1. Knows(a, b.vc, b.t, b.at) /\ IsVector(a.vc) /\ IsVector(b.vc)
    BY <1>1 DEF LineageInv, EventsInv
  <2>2. At(a.vc, a.node) <= At(b.vc, a.node)
    <3>1. \A k \in DOMAIN a.vc \cup DOMAIN b.vc : At(a.vc, k) <= At(b.vc, k)
      BY <1>1 DEF LogBefore, LogLeq
    <3>2. CASE a.node \in DOMAIN a.vc \cup DOMAIN b.vc
      BY <3>1, <3>2
    <3>3. CASE a.node \notin DOMAIN a.vc \cup DOMAIN b.vc
      BY <3>3 DEF At
    <3> QED
      BY <3>2, <3>3
  <2> QED
    BY <2>1, <2>2 DEF Knows
<1>2. ASSUME LineageInv PROVE LineageSurvives
  <2> SUFFICES ASSUME NEW a \in merged, NEW b \in merged
               PROVE  /\ LogBefore(a, b) =>
                           /\ reconcile(a, b) \in {"BEFORE", "APPARATUS_LIMITED"}
                           /\ reconcile(b, a) \in {"AFTER", "APPARATUS_LIMITED"}
                           /\ a.node = b.node => a.tau <= b.tau
                      /\ reconcile(a, b) = "BEFORE" => LightArrived(a.t, a.at, b.t, b.at)
                      /\ reconcile(a, b) = "AFTER" => LightArrived(b.t, b.at, a.t, a.at)
    BY DEF LineageSurvives
  <2>1. LogBefore(a, b) => ~LogBefore(b, a)
    BY DEF LogBefore
  <2>2. /\ LogBefore(a, b) => _physical_verdict(a, b) \in {"ADMITTED", "APPARATUS_LIMITED"}
        /\ _physical_verdict(a, b) = "ADMITTED" => LightArrived(a.t, a.at, b.t, b.at)
        /\ _physical_verdict(b, a) = "ADMITTED" => LightArrived(b.t, b.at, a.t, a.at)
    BY <1>1, <1>2, VerdictOfEvents
  <2>3. ASSUME LogBefore(a, b) PROVE a.node = b.node => a.tau <= b.tau
    <3>1. /\ a.t \in Int /\ b.t \in Int /\ a.tau = tau_at(a.node, a.t) /\ b.tau = tau_at(b.node, b.t)
      BY <1>2 DEF LineageInv, EventsInv
    <3>2. a.t <= b.t
      BY <1>1, <1>2, <2>3 DEF LightArrived
    <3> QED
      BY <3>1, <3>2, ProperTimeMonotone
  <2>4. reconcile(a, b) =
          IF LogBefore(a, b)
          THEN IF _physical_verdict(a, b) = "ADMITTED" THEN "BEFORE"
               ELSE IF _physical_verdict(a, b) = "APPARATUS_LIMITED" THEN "APPARATUS_LIMITED"
               ELSE "CONCURRENT"
          ELSE IF LogBefore(b, a)
          THEN IF _physical_verdict(b, a) = "ADMITTED" THEN "AFTER"
               ELSE IF _physical_verdict(b, a) = "APPARATUS_LIMITED" THEN "APPARATUS_LIMITED"
               ELSE "CONCURRENT"
          ELSE "CONCURRENT"
    BY DEF reconcile, happens_before
  <2>5. reconcile(b, a) =
          IF LogBefore(b, a)
          THEN IF _physical_verdict(b, a) = "ADMITTED" THEN "BEFORE"
               ELSE IF _physical_verdict(b, a) = "APPARATUS_LIMITED" THEN "APPARATUS_LIMITED"
               ELSE "CONCURRENT"
          ELSE IF LogBefore(a, b)
          THEN IF _physical_verdict(a, b) = "ADMITTED" THEN "AFTER"
               ELSE IF _physical_verdict(a, b) = "APPARATUS_LIMITED" THEN "APPARATUS_LIMITED"
               ELSE "CONCURRENT"
          ELSE "CONCURRENT"
    BY DEF reconcile, happens_before
  <2>6. LogBefore(a, b) => /\ reconcile(a, b) \in {"BEFORE", "APPARATUS_LIMITED"}
                           /\ reconcile(b, a) \in {"AFTER", "APPARATUS_LIMITED"}
    BY <2>1, <2>2, <2>4, <2>5
  <2>7. /\ reconcile(a, b) = "BEFORE" => LightArrived(a.t, a.at, b.t, b.at)
        /\ reconcile(a, b) = "AFTER" => LightArrived(b.t, b.at, a.t, a.at)
    BY <2>1, <2>2, <2>4
  <2> QED
    BY <2>3, <2>6, <2>7
<1> QED
  BY <1>2, LineageInvariance, PTL
=============================================================================
