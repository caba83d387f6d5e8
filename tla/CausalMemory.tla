---------------------------- MODULE CausalMemory ----------------------------
(***************************************************************************)
(* The provenance-aware memory (mnemesis/memory.py).  A write is identified   *)
(* by its wid, a hash of its key, value, observer and clock and of the set of *)
(* wids it claims to supersede: it is a record of a Body and of the set of    *)
(* writes it claims.  The ordering compares the clocks of bodies.             *)
(*                                                                           *)
(* A claimed wid that no put has recorded is a member of Stranger.            *)
(***************************************************************************)
EXTENDS Integers, FiniteSets

CONSTANTS Body, Key, KeyOf(_), ValueOf(_),
          Before(_, _),
          Stranger,     \* wids that name nothing in the memory
          Nothing,      \* no call has returned yet
          MaxWrites,    \* bound: the writes recorded
          MaxRefusals   \* bound: the different entries of the audit log

ASSUME BodyKeys == \A b \in Body : KeyOf(b) \in Key

\* before() of the ordering that CausalMemory is given is a strict partial order.
ASSUME BeforeIsStrict ==
    /\ \A a \in Body : ~Before(a, a)
    /\ \A a, b, c \in Body : Before(a, b) /\ Before(b, c) => Before(a, c)

VARIABLES writes,       \* the recorded writes
          refusals,     \* the audit log: whose claims were refused, and why
          answer        \* history: the last call, what it admitted, its verdict

memVars == <<writes, refusals, answer>>

Reasons == {"unknown_predecessor", "supersedes_non_ancestor"}

NewWrite(b, preds) == [body |-> b, preds |-> preds]
Answer(call, w, verdict) == [call |-> call, write |-> w, verdict |-> verdict]

MemInit ==
    /\ writes = {} /\ refusals = {}
    /\ answer = Answer("none", Nothing, "none")

WritesFor(k) == {w \in writes : KeyOf(w.body) = k}

Superseded(w) == \E o \in WritesFor(KeyOf(w.body)) \ {w} : w \in o.preds

Frontier(k) == {w \in WritesFor(k) : ~Superseded(w)}

---------------------------------------------------------------------------
(* put *)

ReturnOriginal(call, w) ==
    /\ w \in writes
    /\ answer' = Answer(call, w, "ADMITTED")
    /\ UNCHANGED <<writes, refusals>>

\* A mutated form of BadClaims: the claimed write only has to exist.
BadClaimsUnchecked(w) == w.preds \ writes
BadClaims(w) == {p \in w.preds : p \notin writes \/ ~Before(p.body, w.body)}

\* The claims are tested in the caller's order, so any bad one may be the first.
RefuseClaim(call, w) ==
    /\ w \notin writes
    /\ \E p \in BadClaims(w) :
         refusals' = refusals \cup
           {[body |-> w.body, reason |-> IF p \notin writes THEN "unknown_predecessor"
                                         ELSE "supersedes_non_ancestor"]}
    /\ Cardinality(refusals') <= MaxRefusals
    /\ answer' = Answer(call, Nothing, "REJECTED")
    /\ UNCHANGED writes

Record(call, w) ==
    /\ w \notin writes /\ BadClaims(w) = {}
    /\ Cardinality(writes) < MaxWrites
    /\ writes' = writes \cup {w}
    /\ answer' = Answer(call, w, "ADMITTED")
    /\ UNCHANGED refusals

Put(call, w) == ReturnOriginal(call, w) \/ RefuseClaim(call, w) \/ Record(call, w)

---------------------------------------------------------------------------
(* resolve: a put of the chosen value that claims the whole frontier *)

\* A mutated form of Claimed: the resolution supersedes the chosen write only.
ClaimedChosen(k, chosen) == {chosen}
Claimed(k, chosen) == Frontier(k)

\* A mutated form of Choices: any recorded write can be chosen (the erratum).
AnyWrite(k) == writes
Choices(k) == Frontier(k)

Resolve(k, chosen, b) ==
    /\ chosen \in Choices(k)
    /\ KeyOf(b) = k /\ ValueOf(b) = ValueOf(chosen.body)
    /\ Put("resolve", NewWrite(b, Claimed(k, chosen)))

\* A call with any other wid changes nothing.
RefuseChoice(k, chosen) ==
    /\ chosen \notin Choices(k)
    /\ answer' = Answer("resolve", Nothing, "REJECTED")
    /\ UNCHANGED <<writes, refusals>>

MemNext ==
    \/ \E b \in Body, preds \in SUBSET (writes \cup Stranger) : Put("put", NewWrite(b, preds))
    \/ \E k \in Key, chosen \in writes \cup Stranger :
         \/ RefuseChoice(k, chosen)
         \/ \E b \in Body : Resolve(k, chosen, b)

MemSpec == MemInit /\ [][MemNext]_memVars

\* get: the answer is a function of the frontier and changes nothing.
Get(k) ==
    [status |-> CASE Frontier(k) = {}             -> "EMPTY"
                  [] Cardinality(Frontier(k)) = 1 -> "RESOLVED"
                  [] OTHER                        -> "CONFLICT",
     candidates |-> Frontier(k)]

---------------------------------------------------------------------------
(* Properties *)

\* The writes a write rests on, directly or through others.
Provenance(w) ==
    LET up[x \in writes] == x.preds \cup UNION {up[p] : p \in x.preds}
    IN  up[w]

\* Everything in the provenance of a recorded write, at any depth, is recorded
\* and is in its causal past: an overwrite that could not have seen what it
\* replaces is refused, and nothing recorded is destroyed (put).
ProvenanceIsCausal ==
    \A w \in writes : \A p \in Provenance(w) : p \in writes /\ Before(p.body, w.body)

\* What a call does to the current writes.  An admitted resolution settles its
\* key: the key reads as resolved, to the resolving write, whose value is that of a
\* write that was current before and which is causally after everything that was.
\* And a current write stops being current only by the admission of a write of its
\* key that is causally after it and says so (put, resolve).
OnlyClaimsReplace ==
    [][LET w == answer'.write
       IN  /\ answer'.call = "resolve" /\ answer'.verdict = "ADMITTED" =>
                \A k \in Key : KeyOf(w.body) = k =>
                  /\ Frontier(k)' = {w}
                  /\ \E f \in Frontier(k) : ValueOf(f.body) = ValueOf(w.body)
                  /\ \A f \in Frontier(k) : Before(f.body, w.body)
           /\ \A k \in Key : \A f \in Frontier(k) \ Frontier(k)' :
                w \in writes' \ writes /\ KeyOf(w.body) = k /\ f \in w.preds /\ Before(f.body, w.body)]_memVars
=============================================================================
