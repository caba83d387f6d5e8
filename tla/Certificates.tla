---------------------------- MODULE Certificates ----------------------------
(***************************************************************************)
(* Signed receipts, and the four verifiers that judge them: certificate.py   *)
(* (H1), measure.py (H5 and H6), capture_verify.py (H8) and, one receipt at   *)
(* a time, deepspace_protocol.py (H7).  An event is emitted and claimed;      *)
(* stations stamp its arrival on clocks of their own and sign; receipts reach *)
(* the collector in any order, some twice, some altered, some of another      *)
(* event, some never; the claim may be stated again, otherwise.               *)
(*                                                                           *)
(* A body carries the hash of the whole claim, as H8 signs it; H1, H5 and H7   *)
(* look at its payload only.  A MAC is the key's owner and what was signed.    *)
(***************************************************************************)
EXTENDS TimingGates, Sequences, FiniteSets

CONSTANTS StationIds,            \* the registry
          StrangerId,            \* a station that is not in it
          PosOf(_), UOf(_),      \* surveyed positions, declared uncertainties
          ProcDelayOf(_),        \* proc_delay_ns
          FibreNum, FibreDen,    \* C_EFF_NUM, C_EFF_DEN
          Places, Claims,        \* where an event happens, the times it may claim
          EmitTime, Earlier,     \* when it happens, and how long after another one
          Delays,                \* what the network adds to the light time
          Payload, OtherPayload, \* hashes of this event and of another one
          OtherPlace,            \* an unsurveyed position
          MaxReceipts            \* bound: the receipts of one certificate

ASSUME CertificatesAssumption ==
    /\ IsFiniteSet(StationIds)
    /\ \A s \in StationIds : PosOf(s) \in Point /\ UOf(s) \in Nat /\ ProcDelayOf(s) \in Nat
    /\ StrangerId \notin StationIds /\ Payload # OtherPayload
    /\ Places \subseteq Point /\ OtherPlace \in Point
    /\ Claims \subseteq Int /\ EmitTime \in Int /\ Earlier \in Nat /\ Delays \subseteq Nat
    /\ MaxReceipts \in Nat

VARIABLES truth,      \* where the event really happened
          signed,     \* the claim the stations were told
          claim,      \* the claim of the certificate
          receipts    \* in the order in which they were collected

certVars == <<truth, signed, claim, receipts>>

EventClaim == [payload_hash : {Payload}, t0 : Claims, p0 : Places]
NoEmission == [payload_hash |-> OtherPayload]

IsEmitted == claim # NoEmission

CertInit == truth = OtherPlace /\ signed = NoEmission /\ claim = NoEmission /\ receipts = <<>>

\* The floors between the places and the stations, tabulated once.
vacuum_floor == [p \in Places |-> [s \in StationIds |-> MinLightTime(p, PosOf(s))]]
typical_floor == [p \in Places |-> [s \in StationIds |-> TransitTime(p, PosOf(s), FibreNum, FibreDen)]]

---------------------------------------------------------------------------
(* Stations: stations.py, signed_capture.py *)

Body(s, pos, hash, recv) ==
    [station_id |-> s, station_pos_nm |-> pos, hash |-> hash, recv_time_ns |-> recv]

sign_receipt(body) == [body |-> body, mac |-> [key |-> body.station_id, of |-> body]]

verify_receipt(r) == r.mac = [key |-> r.body.station_id, of |-> r.body]

\* A mutated form of arrival: the light time is rounded down.
arrivalEarly(t, p, s) == t + vacuum_floor[p][s] - 1 + ProcDelayOf(s)
\* simulate.py: when a station stamps a signal that nothing delays.
arrival(t, p, s) == t + vacuum_floor[p][s] + ProcDelayOf(s)

---------------------------------------------------------------------------
(* The gates on one receipt, and the verifiers.  Each stops at, or counts,    *)
(* the first gate that fails; which one it was is left to its witness.         *)

Authentic(r, c) ==
    /\ r.body.station_id \in StationIds
    /\ verify_receipt(r)
    /\ r.body.hash.payload_hash = c.payload_hash
    /\ r.body.station_pos_nm = PosOf(r.body.station_id)

\* A mutated form of Bound: the hash a receipt signs is that of the payload
\* alone (an erratum of the code).
BoundToPayload(r, c) == r.body.hash.payload_hash = c.payload_hash
\* bound_event_hash
Bound(r, c) == r.body.hash = c

SomeReceipt(rs, Fails(_)) == \E i \in DOMAIN rs : Fails(rs[i])

InCone(r, c) == CausallyAdmissible(c.t0, c.p0, r.body.recv_time_ns, PosOf(r.body.station_id))

verify_certificate(c, rs) ==
    IF rs = <<>> \/ SomeReceipt(rs, LAMBDA r : ~(Authentic(r, c) /\ InCone(r, c)))
    THEN "REJECTED" ELSE "PASS"

emit_time_upper_bound_ns(rs) ==
    CHOOSE t \in {rs[i].body.recv_time_ns : i \in DOMAIN rs} :
      \A i \in DOMAIN rs : t <= rs[i].body.recv_time_ns

Ids(rs) == {rs[i].body.station_id : i \in DOMAIN rs}
Repeated(rs) == Cardinality(Ids(rs)) # Len(rs)

\* `required` is a set of stations, or empty when the caller requires none.
Uncovered(rs, required) == required # {} /\ Ids(rs) # required

classify_measured_receipt(r, c) ==
    LET s == r.body.station_id
    IN  budget_witness(r.body.recv_time_ns - c.t0, UOf(s), vacuum_floor[c.p0][s], typical_floor[c.p0][s])

classify_receipt(r, c) ==
    LET s == r.body.station_id
    IN  classify(r.body.recv_time_ns - c.t0, UOf(s), vacuum_floor[c.p0][s], typical_floor[c.p0][s])

\* A mutated form of verify_measured_certificate: a receipt that is in order
\* after one that is not clears it.
measureLast(c, rs, required, live) ==
    IF rs = <<>> \/ Repeated(rs) \/ Uncovered(rs, required) \/ ~Authentic(rs[Len(rs)], c) THEN "REJECTED"
    ELSE LET v == classify_measured_receipt(rs[Len(rs)], c) IN IF v = "ADMITTED" THEN "PASS" ELSE v

\* `live` is fixture_origin = LIVE_CAPTURE.
verify_measured_certificate(c, rs, required, live) ==
    IF \/ rs = <<>> \/ Repeated(rs) \/ Uncovered(rs, required)
       \/ SomeReceipt(rs, LAMBDA r : ~Authentic(r, c) \/ classify_measured_receipt(r, c) = "REJECTED")
    THEN "REJECTED"
    ELSE IF \/ live /\ SomeReceipt(rs, LAMBDA r : r.body.recv_time_ns - c.t0 < 0)
            \/ SomeReceipt(rs, LAMBDA r : classify_measured_receipt(r, c) = "APPARATUS_LIMITED")
    THEN "APPARATUS_LIMITED" ELSE "PASS"

verify_capture(c, rs, required) ==
    IF \/ rs = <<>> \/ Repeated(rs) \/ Uncovered(rs, required)
       \/ SomeReceipt(rs, LAMBDA r :
            ~(Authentic(r, c) /\ Bound(r, c)) \/ classify_receipt(r, c) = "REJECTED")
    THEN "REJECTED"
    ELSE IF SomeReceipt(rs, LAMBDA r : classify_receipt(r, c) = "APPARATUS_LIMITED")
    THEN "APPARATUS_LIMITED" ELSE "PASS"

---------------------------------------------------------------------------
(* The deep-space link.  The chance of an adversary is (num / den)^k; a       *)
(* prover at its place answers every round right, another one some of them.   *)

\* A mutated form of meets_target: the comparison is the other way round.
meetsWrongWay(k, gap, target) == gap.den ^ k * target.num <= target.den * gap.num ^ k

\* adversary_success_bound <= target, in whole numbers.
meets_target(k, gap, target) == gap.num ^ k * target.den <= target.num * gap.den ^ k

score(total, located) == IF located THEN {total} ELSE 0..total
quantum_ok(correct, total) == total > 0 /\ correct * 10 > total * 9

verify_telemetry_packet(c, r, resolve, meets, ok) ==
    LET s == r.body.station_id
        timing == telemetry_consistent(r.body.recv_time_ns - c.t0, UOf(s), resolve, vacuum_floor[c.p0][s])
    IN  CASE ~Authentic(r, c) -> "REJECTED"
          [] Authentic(r, c) /\ (timing = "REJECTED" \/ ~ok) -> "REJECTED"
          [] Authentic(r, c) /\ timing # "REJECTED" /\ ok /\ ~meets -> "INSUFFICIENT_ROUNDS"
          [] Authentic(r, c) /\ timing = "APPARATUS_LIMITED" /\ ok /\ meets -> "APPARATUS_LIMITED"
          [] OTHER -> "CONDITIONAL_BE_Q"

---------------------------------------------------------------------------
(* What happens to an event, its claim and its receipts. *)

Emit ==
    /\ ~IsEmitted
    /\ truth' \in Places
    /\ claim' \in EventClaim
    /\ signed' = claim'
    /\ UNCHANGED receipts

Append_(r) ==
    /\ IsEmitted /\ Len(receipts) < MaxReceipts
    /\ receipts' = Append(receipts, r)
    /\ UNCHANGED <<truth, signed, claim>>

Stamps(s) == {arrival(EmitTime, truth, s) + d + err : d \in Delays, err \in (-UOf(s))..UOf(s)}

\* A station receives the event, and its receipt reaches the collector.
Collect(s) == \E recv \in Stamps(s) : Append_(sign_receipt(Body(s, PosOf(s), signed, recv)))

\* The receipt of another event, which happened earlier, or signed where the
\* station no longer is, or by a station nobody registered.
CollectOther(s) ==
    LET recv == arrival(EmitTime, truth, s)
    IN  \/ Append_(sign_receipt(Body(s, PosOf(s), [signed EXCEPT !.payload_hash = OtherPayload], recv - Earlier)))
        \/ Append_(sign_receipt(Body(s, OtherPlace, signed, recv)))
        \/ Append_(sign_receipt(Body(StrangerId, PosOf(s), signed, recv)))

\* A receipt arrives a second time.
CollectAgain == \E i \in DOMAIN receipts : Append_(receipts[i])

\* A receipt is altered after it was signed.
Alter ==
    \E i \in DOMAIN receipts :
      /\ verify_receipt(receipts[i])
      /\ receipts' = [receipts EXCEPT ![i].body.recv_time_ns = @ + 1]
      /\ UNCHANGED <<truth, signed, claim>>

\* The certificate is written with another time or place than was signed.
Restate ==
    /\ IsEmitted /\ claim = signed
    /\ claim' \in EventClaim \ {signed}
    /\ UNCHANGED <<truth, signed, receipts>>

CertNext ==
    \/ Emit \/ Restate \/ CollectAgain \/ Alter
    \/ \E s \in StationIds : IsEmitted /\ (Collect(s) \/ CollectOther(s))

CertSpec == CertInit /\ [][CertNext]_certVars

---------------------------------------------------------------------------
(* Properties. *)

Standing(verdict) == CASE verdict = "PASS" -> 2 [] verdict = "APPARATUS_LIMITED" -> 1 [] verdict = "REJECTED" -> 0

\* A receipt more can only cost a certificate its standing: no verifier of several
\* receipts, with the live-capture check or without, is talked out of what an
\* earlier one showed, in whatever order they are listed.
VerdictOnlyWorsens ==
    [][IsEmitted /\ receipts # <<>> /\ Len(receipts') > Len(receipts) =>
         /\ Standing(verify_certificate(claim, receipts')) <= Standing(verify_certificate(claim, receipts))
         /\ \A live \in BOOLEAN :
              Standing(verify_measured_certificate(claim, receipts', {}, live))
                <= Standing(verify_measured_certificate(claim, receipts, {}, live))
         /\ Standing(verify_capture(claim, receipts', {})) <= Standing(verify_capture(claim, receipts, {}))
      ]_certVars

Genuine(r) == verify_receipt(r) /\ Bound(r, signed) /\ r.body.station_id \in StationIds
                /\ r.body.station_pos_nm = PosOf(r.body.station_id)

Honest ==
    /\ IsEmitted /\ claim = signed /\ claim.t0 = EmitTime /\ claim.p0 = truth
    /\ receipts # <<>> /\ ~Repeated(receipts) /\ \A i \in DOMAIN receipts : Genuine(receipts[i])

\* What really happened is never refused.  Whichever genuine receipts of a true
\* claim arrive, late or not and in any order, the two verifiers that budget for
\* the stations' clocks do not reject it, also when they require just those
\* stations; certificate.py passes it if the clocks are exact, and a telemetry
\* packet made of one of them, stamped after the emission, is not rejected.
HonestFleetSurvives ==
    Honest =>
      /\ \A required \in {{}, Ids(receipts)}, live \in BOOLEAN :
           /\ verify_measured_certificate(claim, receipts, required, live) # "REJECTED"
           /\ verify_capture(claim, receipts, required) # "REJECTED"
      /\ (\A s \in Ids(receipts) : UOf(s) = 0) => verify_certificate(claim, receipts) = "PASS"
      /\ \A i \in DOMAIN receipts, resolve \in 0..1 :
           receipts[i].body.recv_time_ns >= claim.t0 =>
             \A correct \in score(2, TRUE) :
               verify_telemetry_packet(claim, receipts[i], resolve, TRUE, quantum_ok(correct, 2)) # "REJECTED"

\* A verdict is about the event its receipts are of.  If certificate.py passes,
\* the event really happened no later than the bound it returns, give or take the
\* clock of a station, even under a restated claim; and what capture_verify.py
\* does not reject is the claim the stations signed.
VerdictIsAboutThisEvent ==
    IsEmitted =>
      /\ verify_certificate(claim, receipts) = "PASS" =>
           \E s \in Ids(receipts) : EmitTime <= emit_time_upper_bound_ns(receipts) + UOf(s)
      /\ verify_capture(claim, receipts, {}) # "REJECTED" => claim = signed

\* What the deep-space link certifies, measure.py finds possible; and a packet
\* that is certified after k rounds is certified after any more.
TelemetryIsPossible ==
    IsEmitted =>
      \A i \in DOMAIN receipts, resolve \in 0..1, k \in 0..1, target \in {1, 2, 4}, total \in 0..1, located \in BOOLEAN :
        \A correct \in score(total, located) :
          LET packet(rounds) ==
                verify_telemetry_packet(claim, receipts[i], resolve,
                  meets_target(rounds, [num |-> 1, den |-> 2], [num |-> 1, den |-> target]),
                  quantum_ok(correct, total))
          IN  packet(k) = "CONDITIONAL_BE_Q" =>
                /\ packet(k + 1) = "CONDITIONAL_BE_Q"
                /\ verify_measured_certificate(claim, <<receipts[i]>>, {}, FALSE) # "REJECTED"
=============================================================================
