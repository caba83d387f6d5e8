------------------------------- MODULE Beacon -------------------------------
(***************************************************************************)
(* The randomness beacon (horizon/beacon.py, beacon_sim.py): emitters at      *)
(* their homes publish blocks, each with a cone certificate of its emission,  *)
(* and the blocks are combined by XOR.  An entry may be spoilt on the way: a   *)
(* claim that is not what happened, coordinates or a payload that are another *)
(* block's, bytes that were exchanged, receipts that are missing; and the      *)
(* value may be older than the entries.  A block is the set of its one bits;   *)
(* its hash stands for it.  `published` is a history variable: when and where   *)
(* each entry was really emitted, which the verifier never sees.               *)
(***************************************************************************)
EXTENDS Certificates

CONSTANTS Emitter,          \* EMITTERS
          HomeOf(_),        \* where they are
          BlockOf(_),       \* derive_block
          BeaconTimes,      \* when they may emit, and say they did
          MIN_SOURCES,
          MaxBlocks         \* bound: the entries of one beacon

ASSUME BeaconAssumption ==
    /\ \A e \in Emitter : HomeOf(e) \in Places
    /\ BeaconTimes \subseteq Int /\ MIN_SOURCES \in Nat /\ MaxBlocks \in Nat

VARIABLES per_block, beacon_value,
          published     \* where and when the i-th entry was really emitted

beaconVars == <<per_block, beacon_value, published>>

NoValue == <<>>     \* a value is written <<bits>>

BeaconInit == per_block = <<>> /\ beacon_value = NoValue /\ published = <<>>

---------------------------------------------------------------------------
(* The certificate *)

Emission(t, p) == [t_emit_ns |-> t, pos_nm |-> p]

emission_payload(e, sha) == <<e, sha>>

xor_blocks(entries) ==
    {bit \in UNION {entries[i].block : i \in DOMAIN entries} :
       Cardinality({i \in DOMAIN entries : bit \in entries[i].block}) % 2 = 1}

\* simulate.py: every station of the registry receives what was emitted at t and p.
broadcast(event, t, p, stations) ==
    {sign_receipt(Body(s, PosOf(s), event, arrival(t, p, s))) : s \in stations}

\* One order of a set of receipts; the verdicts do not depend on which.
Listed(rs) == CHOOSE seq \in [1..Cardinality(rs) -> rs] : {seq[i] : i \in DOMAIN seq} = rs

Event(e, block, t, p) == [payload_hash |-> emission_payload(e, block), t0 |-> t, p0 |-> p]

Entry(e, t, p, event, block, sha, rs) ==
    [emitter_id |-> e, t_emit_ns |-> t, pos_nm |-> p, block |-> block, block_sha256 |-> sha,
     event |-> event, receipts |-> Listed(rs)]

\* build_emission_entry: what emitter e publishes at t is what it says.
HonestEntry(e, t) ==
    LET event == Event(e, BlockOf(e), t, HomeOf(e))
    IN  Entry(e, t, HomeOf(e), event, BlockOf(e), BlockOf(e), broadcast(event, t, HomeOf(e), StationIds))

\* The ways in which an entry is not what happened at t.
SpoiltEntries(e, t) ==
    LET home == HomeOf(e)
        event == Event(e, BlockOf(e), t, home)
        heard(ev, stations) == broadcast(ev, t, home, stations)
    IN  \* it claims another time or place, in the entry and in the event
        {Entry(e, u, p, Event(e, BlockOf(e), u, p), BlockOf(e), BlockOf(e),
               heard(Event(e, BlockOf(e), u, p), stations)) :
           u \in BeaconTimes, p \in {HomeOf(f) : f \in Emitter}, stations \in SUBSET StationIds}
        \* or in the entry only
        \cup {Entry(e, u, home, event, BlockOf(e), BlockOf(e), heard(event, StationIds)) : u \in BeaconTimes}
        \* another emitter's bytes, event, or receipts
        \cup {Entry(e, t, home, event, BlockOf(f), BlockOf(e), heard(event, StationIds)) : f \in Emitter}
        \cup {Entry(e, t, home, Event(f, BlockOf(f), t, home), BlockOf(e), BlockOf(e),
                    heard(Event(f, BlockOf(f), t, home), StationIds)) : f \in Emitter}
        \cup {Entry(e, t, home, event, BlockOf(e), BlockOf(e),
                    heard(Event(f, BlockOf(f), t, home), StationIds)) : f \in Emitter}

---------------------------------------------------------------------------
(* verify_beacon *)

DistinctSources(entries) == \A i, j \in DOMAIN entries : entries[i].emitter_id = entries[j].emitter_id => i = j

\* A mutated form of BlockIsBound: the coordinates of the entry need not be the event's.
BytesAreBound(b) ==
    b.block = b.block_sha256 /\ b.event.payload_hash = emission_payload(b.emitter_id, b.block_sha256)

BlockIsBound(b) ==
    /\ b.block = b.block_sha256
    /\ b.event.payload_hash = emission_payload(b.emitter_id, b.block_sha256)
    /\ b.event.t0 = b.t_emit_ns /\ b.event.p0 = b.pos_nm

\* ledger.concurrent on the two emission events.
ConcurrentBlocks(a, b) ==
    /\ ~CausallyAdmissible(a.t_emit_ns, a.pos_nm, b.t_emit_ns, b.pos_nm)
    /\ ~CausallyAdmissible(b.t_emit_ns, b.pos_nm, a.t_emit_ns, a.pos_nm)

\* pairwise_spacelike_witnesses: each unordered pair once.
PairwiseSpacelike(entries) ==
    \A i, j \in DOMAIN entries : i < j => ConcurrentBlocks(entries[i], entries[j])

ConesVerify(entries) ==
    \A i \in DOMAIN entries : verify_certificate(entries[i].event, entries[i].receipts) = "PASS"

verify_beacon(entries, value) ==
    IF /\ Len(entries) >= MIN_SOURCES
       /\ DistinctSources(entries)
       /\ \A i \in DOMAIN entries : BlockIsBound(entries[i])
       /\ PairwiseSpacelike(entries)
       /\ ConesVerify(entries)
       /\ value = <<xor_blocks(entries)>>
    THEN "PASS" ELSE "REJECTED"

---------------------------------------------------------------------------

Spoilt(b) == b \notin {HonestEntry(b.emitter_id, t) : t \in BeaconTimes}

\* An emitter publishes; at most one entry of a beacon is spoilt (a bound).
Publish(e) ==
    /\ Len(per_block) < MaxBlocks
    /\ \E t \in BeaconTimes :
         /\ \/ per_block' = Append(per_block, HonestEntry(e, t))
            \/ \E b \in SpoiltEntries(e, t) :
                 /\ \A i \in DOMAIN per_block : ~Spoilt(per_block[i])
                 /\ per_block' = Append(per_block, b)
         /\ published' = Append(published, Emission(t, HomeOf(e)))
    /\ UNCHANGED beacon_value

\* build_beacon_certificate, which a later entry may follow.
Combine ==
    /\ per_block # <<>>
    /\ beacon_value' = <<xor_blocks(per_block)>>
    /\ UNCHANGED <<per_block, published>>

BeaconNext == Combine \/ \E e \in Emitter : Publish(e)

BeaconSpec == BeaconInit /\ [][BeaconNext]_beaconVars

---------------------------------------------------------------------------
(* Properties. *)

\* The entry says when and where it was emitted.
Truthful(i) == Emission(per_block[i].t_emit_ns, per_block[i].pos_nm) = published[i]

\* What a beacon that passes shows of the emissions that really happened.  The
\* bytes it combines are those each station that signed heard their emitter
\* publish.  And if an emitter tells when and where it emitted, it had not heard
\* the block of another one: not from a station that had stamped it, whatever
\* that other one says of itself; nor, if that one tells the truth as well,
\* straight from where it was emitted.
BlocksAreIndependent ==
    verify_beacon(per_block, beacon_value) = "PASS" =>
      /\ \A i \in DOMAIN per_block : \A n \in DOMAIN per_block[i].receipts :
           per_block[i].receipts[n].body.hash.payload_hash
             = emission_payload(per_block[i].emitter_id, per_block[i].block)
      /\ \A i, j \in DOMAIN per_block : i # j /\ Truthful(j) =>
           LET reached(t, p) == CausallyAdmissible(t, p, published[j].t_emit_ns, published[j].pos_nm)
           IN  /\ \A s \in Ids(per_block[i].receipts) :
                    ~reached(arrival(published[i].t_emit_ns, published[i].pos_nm, s), PosOf(s))
               /\ Truthful(i) => ~reached(published[i].t_emit_ns, published[i].pos_nm)
=============================================================================
