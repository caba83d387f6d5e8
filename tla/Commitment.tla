----------------------------- MODULE Commitment -----------------------------
(***************************************************************************)
(* A sustained bit commitment (horizon/commitment.py) as commit_sim.py runs   *)
(* it: rounds of challenge and response at two sites in turn, then a reveal,  *)
(* of the committed bit or of the other one.  What reaches the verifier may   *)
(* have been altered in the ways the negative controls alter it.              *)
(*                                                                           *)
(* The field has P elements (2^61 - 1 in the code); secrets and challenges,   *)
(* hashes of a seed there, are any of them.  The hash of a round stands for   *)
(* the rounds up to it, which it binds.                                       *)
(***************************************************************************)
EXTENDS LightCone, Sequences

CONSTANTS P,            \* P_FIELD, a prime
          K,            \* K_SUSTAIN
          Configs       \* the sites, windows and processing delays of the sessions

ASSUME CommitmentAssumption ==
    /\ P \in Nat \ {0, 1} /\ K \in Nat
    /\ \A x, y \in 1..(P - 1) : (x * y) % P # 0
    /\ Configs \subseteq [site_1 : Point, site_2 : Point, dt_round_ns : Nat, dt_resp_ns : Nat, proc_ns : Nat]

Field == 0..(P - 1)
Bit == {0, 1}

VARIABLES config,
          bit, secrets,    \* the committer's b and a_0 .. a_K (at 1 .. K + 1)
          sent,            \* the rounds as they were run
          rounds, hashes,  \* the transcript the verifier is given
          reveal,          \* the bit and the secrets it is given
          phase            \* "idle", "rounds", "chained", "revealed", "submitted"

commitVars == <<config, bit, secrets, sent, rounds, hashes, reveal, phase>>

Secrets == [1..(K + 1) -> Field]
NoReveal == [b |-> 0, secrets |-> <<>>]

\* No session, and no transcript.
NoSession == [site_1 |-> <<0, 0, 0>>, site_2 |-> <<0, 0, 0>>, dt_round_ns |-> 0, dt_resp_ns |-> 0,
              proc_ns |-> 0]

CommitInit ==
    /\ config = NoSession /\ bit = 0 /\ secrets = <<>>
    /\ sent = <<>> /\ rounds = <<>> /\ hashes = <<>>
    /\ reveal = NoReveal /\ phase = "idle"

\* run_session starts with a bit and its secrets.
Begin ==
    /\ phase = "idle" /\ phase' = "rounds"
    /\ config' \in Configs /\ bit' \in Bit /\ secrets' \in Secrets
    /\ UNCHANGED <<sent, rounds, hashes, reveal>>

---------------------------------------------------------------------------
(* The chain *)

\* A mutated form of sustain_response: the round does not depend on the one before.
sustain_alone(ak, ak_prev, rk) == (ak + rk) % P

commit_response(a0, b, r0) == (a0 + b * r0) % P
sustain_response(ak, ak_prev, rk) == (ak + ak_prev * rk) % P

\* y of round k for a bit and secrets.
Answer(k, b, a, r) ==
    IF k = 0 THEN commit_response(a[1], b, r) ELSE sustain_response(a[k + 1], a[k], r)

chain_transcript(rs) == [i \in DOMAIN rs |-> SubSeq(rs, 1, i)]

SiteOf(k) == IF k % 2 = 0 THEN config.site_1 ELSE config.site_2

\* One round of run_session, on its schedule.
DoRound ==
    /\ phase = "rounds" /\ Len(sent) <= K
    /\ \E r \in Field :
         LET k == Len(sent)
             t == k * config.dt_round_ns
         IN  sent' = Append(sent, [k |-> k, site_nm |-> SiteOf(k), r |-> r,
                                   y |-> Answer(k, bit, secrets, r),
                                   t_challenge_ns |-> t, t_response_ns |-> t + config.proc_ns])
    /\ UNCHANGED <<config, bit, secrets, rounds, hashes, reveal, phase>>

\* The transcript and its running hashes.
Chain ==
    /\ phase = "rounds" /\ Len(sent) = K + 1
    /\ rounds' = sent /\ hashes' = chain_transcript(sent)
    /\ phase' = "chained"
    /\ UNCHANGED <<config, bit, secrets, sent, reveal>>

\* HONEST opens the bit; CHEAT_FLIP solves round 0 for the other bit's a_0.
Reveal ==
    /\ phase = "chained" /\ phase' = "revealed"
    /\ reveal' \in {[b |-> bit, secrets |-> secrets],
                    [b |-> 1 - bit,
                     secrets |-> [secrets EXCEPT ![1] = (sent[1].y - (1 - bit) * sent[1].r) % P]]}
    /\ UNCHANGED <<config, bit, secrets, sent, rounds, hashes>>

Altered(i) == {[rounds[i] EXCEPT !.y = (@ + 1) % P], [rounds[i] EXCEPT !.k = @ + 1],
               [rounds[i] EXCEPT !.k = -1]}

\* What is submitted: the session as it was, a round changed or given another
\* index, two rounds swapped, or the transcript cut short with its secrets.
Submit ==
    /\ phase = "revealed" /\ phase' = "submitted"
    /\ \/ UNCHANGED <<rounds, reveal>>
       \/ /\ \E i \in DOMAIN rounds : \E rec \in Altered(i) :
               rounds' = [rounds EXCEPT ![i] = rec]
          /\ UNCHANGED reveal
       \/ /\ \E i, j \in DOMAIN rounds :
               i < j /\ rounds' = [rounds EXCEPT ![i] = rounds[j], ![j] = rounds[i]]
          /\ UNCHANGED reveal
       \/ \E n \in 0..K :
            /\ rounds' = SubSeq(rounds, 1, n)
            /\ reveal' = [reveal EXCEPT !.secrets = SubSeq(@, 1, n)]
    /\ UNCHANGED <<config, bit, secrets, sent, hashes>>

CommitNext == Begin \/ DoRound \/ Chain \/ Reveal \/ Submit

CommitSpec == CommitInit /\ [][CommitNext]_commitVars

---------------------------------------------------------------------------
(* The verdicts *)

\* A mutated form of RoundsComplete: a transcript may stop early (an erratum of
\* the code).
RoundsContiguous(rs) == {rs[i].k : i \in DOMAIN rs} = 0..(Len(rs) - 1)
\* Exactly the rounds 0 .. K, in any order.
RoundsComplete(rs) == Len(rs) = K + 1 /\ {rs[i].k : i \in DOMAIN rs} = 0..K

Least(S) == CHOOSE x \in S : \A y \in S : x <= y

\* The places of the transcript at which an equation fails.
Inconsistent(rs, b, a) == {i \in DOMAIN rs : Answer(rs[i].k, b, a, rs[i].r) # rs[i].y}

NoFailure == [verdict |-> "ADMITTED", failing_round |-> -1]
Failure(round) == [verdict |-> "REJECTED", failing_round |-> round]

\* The gates before the equations name no round.
verify_reveal(rs, b, a) ==
    IF b \notin Bit \/ ~RoundsComplete(rs) \/ Len(a) # Len(rs) THEN Failure(-1)
    ELSE IF Inconsistent(rs, b, a) = {} THEN NoFailure
         ELSE Failure(rs[Least(Inconsistent(rs, b, a))].k)

\* Hashes that are claimed beyond the last round are not looked at.
verify_transcript_chain(rs, claimed) ==
    LET bad == {i \in DOMAIN rs : i > Len(claimed) \/ claimed[i] # chain_transcript(rs)[i]}
    IN  IF bad = {} THEN NoFailure ELSE Failure(rs[Least(bad)].k)

isolation_gate(c) ==
    IF CausallyAdmissible(0, c.site_1, c.dt_resp_ns, c.site_2)
    THEN "APPARATUS_LIMITED" ELSE "PASS"

\* A mutated form of sustained_isolation_gate: the period alone.
period_isolation_gate(c) ==
    IF CausallyAdmissible(0, c.site_1, c.dt_round_ns, c.site_2)
    THEN "APPARATUS_LIMITED" ELSE "PASS"
sustained_isolation_gate(c) ==
    IF CausallyAdmissible(0, c.site_1, c.dt_round_ns + c.dt_resp_ns, c.site_2)
    THEN "APPARATUS_LIMITED" ELSE "PASS"

response_in_window(rec) ==
    LET dt == rec.t_response_ns - rec.t_challenge_ns
    IN  IF 0 <= dt /\ dt < config.dt_resp_ns THEN "ADMITTED" ELSE "REJECTED"

---------------------------------------------------------------------------
(* Properties *)

Timed ==
    /\ isolation_gate(config) = "PASS" /\ sustained_isolation_gate(config) = "PASS"
    /\ \A i \in DOMAIN sent : response_in_window(sent[i]) = "ADMITTED"

\* When both gates pass and every response is in its window, no answer can have
\* been made with the challenge of the round before it or of the round after it,
\* which are at the other site: not when the windows are at their limits, and
\* not because rounds overlap.
AnswersAreIsolated ==
    Timed =>
      \A i, j \in DOMAIN sent :
        i \in {j - 1, j + 1} =>
          ~CausallyAdmissible(sent[i].t_challenge_ns, sent[i].site_nm,
                              sent[j].t_response_ns, sent[j].site_nm)

\* What a transcript admits: for the committed bit the committer's own secrets and
\* no others; for the other bit at most one vector of secrets, which differs from
\* the committer's at every round when no challenge is zero.  So a reveal that
\* keeps any one secret keeps the bit.
OneOpeningPerBit ==
    phase = "chained" =>
      \A b \in Bit, a \in Secrets :
        verify_reveal(sent, b, a).verdict = "ADMITTED" =>
          /\ b = bit => a = secrets
          /\ b # bit /\ (\A i \in DOMAIN sent : sent[i].r # 0) =>
               \A i \in DOMAIN a : a[i] # secrets[i]
          /\ b # bit => \A a2 \in Secrets :
               verify_reveal(sent, b, a2).verdict = "ADMITTED" => a2 = a

\* Of what is submitted, the session as it was run opens the committed bit and
\* rejects the other one, with a_0 solved for it, at round 1, unless one of the
\* first two challenges was zero; and no other transcript passes both the reveal
\* and the hash chain: neither does alone, since the reveal takes rounds in any
\* order and the chain takes a prefix.
OnlyTheTranscriptPasses ==
    phase = "submitted" =>
      LET opened == verify_reveal(rounds, reveal.b, reveal.secrets)
          chained == verify_transcript_chain(rounds, hashes)
      IN  /\ rounds = sent =>
               /\ chained = NoFailure
               /\ reveal.b = bit => opened = NoFailure
               /\ reveal.b # bit /\ K > 0 /\ sent[1].r # 0 /\ sent[2].r # 0 => opened = Failure(1)
          /\ rounds # sent => opened.verdict = "REJECTED" \/ chained.verdict = "REJECTED"
=============================================================================
