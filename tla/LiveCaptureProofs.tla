------------------------- MODULE LiveCaptureProofs -------------------------
(***************************************************************************)
(* The live capture for any set of responders at any distances, any number   *)
(* of runs and any timeouts: every responder is counted once, and what a       *)
(* capture holds was stamped for it.                                         *)
(***************************************************************************)
EXTENDS LiveCapture, LightConeProofs, FiniteSetTheorems

\* A thread that ended left exactly one trace.
Counted ==
    /\ \A n \in Responders : /\ thread[n] = "received" <=> n \in Contributors
                             /\ thread[n] = "failed" <=> n \in errors
    /\ \A r \in receipts, s \in receipts : r.node = s.node => r = s
    /\ phase = "written" => \A n \in Responders : thread[n] \in {"received", "failed"}

\* A responder's connections are of this run only once this run has connected.
Connections ==
    /\ phase = "stamping" => run >= 1 /\ \A n \in Responders : thread[n] = "none"
    /\ \A n \in Responders :
         /\ thread[n] # "none" => run >= 1
         /\ \A i \in 1..Len(queue[n]) : queue[n][i] \in 1..run
         /\ serving[n] \in 0..run
         /\ \/ thread[n] \notin {"none", "connecting"}
            \/ /\ \A i \in 1..Len(queue[n]) : queue[n][i] # run
               /\ stage[n] \in {"serving", "stamped"} => serving[n] # run

\* What was stamped, or is on its way, was stamped by this node for this run.
Answers ==
    \A n \in Responders :
      /\ thread[n] = "waiting" => since[n] >= 2 * Light(n)
      /\ stage[n] = "stamped" =>
           /\ draft[n].node = n /\ draft[n].run = serving[n]
           /\ StillOpen(n) => draft[n].at >= 3 * Light(n)
      /\ reply[n] # NoReply =>
           /\ reply[n].receipt.node = n /\ reply[n].receipt.run = run
           /\ reply[n].receipt.at >= 3 * Light(n)

LiveInv == TypeOK /\ Counted /\ Connections /\ Answers /\ ReceiptsFollowEmission

---------------------------------------------------------------------------
(* Types. *)

LEMMA LightIsNatural == \A n \in Nodes : Light(n) \in Nat
BY LiveAssumption, LightTimeIsExact DEF Light, IsLightTime, Nodes

LEMMA DraftsAreReceipts ==
    /\ NoReceipt \in Receipt /\ NoReply \in [receipt : Receipt, due : Nat]
    /\ \A n \in Nodes, k \in 0..Runs, t \in Nat : \A u \in Budgets(n) :
         [node |-> n, run |-> k, at |-> t, u |-> u] \in Receipt
BY LiveAssumption DEF NoReceipt, NoReply, Receipt, Budgets, Nodes, NoBudget

\* The actions of the emitter keep the types.
LEMMA EmitterTypes == ASSUME TypeOK, Connections, EmitterNext PROVE TypeOK'
<1> USE LiveAssumption, DraftsAreReceipts DEF TypeOK, responder
<1>1. CASE Emit
  BY <1>1 DEF Emit
<1>2. CASE StartThreads
  <2>1. receipts' \subseteq Receipt
    BY <1>2 DEF StartThreads, Nodes
  <2> QED
    BY <1>2, <2>1 DEF StartThreads
<1>3. CASE Write
  BY <1>3 DEF Write
<1>4. ASSUME NEW n \in Responders, Connect(n) PROVE TypeOK'
  <2>1. run \in 1..Runs
    BY <1>4 DEF Connect, Connections
  <2>2. queue' \in [Responders -> Seq(1..Runs)]
    BY <1>4, <2>1 DEF Connect
  <2> QED
    BY <1>4, <2>2 DEF Connect
<1>5. ASSUME NEW n \in Responders, ReceiveReply(n) PROVE TypeOK'
  BY <1>5 DEF ReceiveReply
<1>6. ASSUME NEW n \in Responders, Fail(n) PROVE TypeOK'
  BY <1>6 DEF Fail
<1> QED
  BY <1>1, <1>2, <1>3, <1>4, <1>5, <1>6 DEF EmitterNext, TimesOut, Reset

\* So do those of the responders, the verification and the clock.
LEMMA ResponderTypes == ASSUME TypeOK, ResponderNext PROVE TypeOK'
<1> USE LiveAssumption, DraftsAreReceipts, LightIsNatural DEF TypeOK, emitter
<1> SUFFICES ASSUME NEW n \in Responders, Accept(n) \/ Stamp(n) \/ BadRequest(n) \/ Answer(n)
             PROVE  TypeOK'
  BY DEF ResponderNext
<1>1. CASE Accept(n)
  <2>1. Head(queue[n]) \in 1..Runs /\ Tail(queue[n]) \in Seq(1..Runs)
    BY <1>1 DEF Accept
  <2> QED
    BY <1>1, <2>1 DEF Accept
<1>2. CASE Stamp(n)
  <2> PICK u \in Budgets(n) :
         draft' = [draft EXCEPT ![n] = [node |-> n, run |-> serving[n], at |-> now, u |-> u]]
    BY <1>2 DEF Stamp
  <2>0. [node |-> n, run |-> serving[n], at |-> now, u |-> u] \in Receipt
    BY DEF Nodes
  <2>1. draft' \in [Responders -> Receipt]
    BY <2>0
  <2> QED
    BY <1>2, <2>1 DEF Stamp
<1>3. CASE BadRequest(n)
  BY <1>3 DEF BadRequest
<1>4. CASE Answer(n)
  <2>1. now + Light(n) \in Nat
    BY DEF Nodes
  <2>2. reply' \in [Responders -> [receipt : Receipt, due : Nat]]
    BY <1>4, <2>1 DEF Answer
  <2>3. stage' \in [Responders -> {"accepting", "serving", "stamped", "dead"}]
    BY <1>4 DEF Answer
  <2> QED
    BY <1>4, <2>2, <2>3 DEF Answer
<1> QED
  BY <1>1, <1>2, <1>3, <1>4

LEMMA OtherTypes == ASSUME TypeOK, Verify \/ Tick \/ UNCHANGED vars PROVE TypeOK'
<1>1. CASE Verify
  BY <1>1 DEF Verify, verify_live, aggregate, TypeOK, emitter, responder
<1>2. CASE Tick
  BY <1>2, LiveAssumption DEF Tick, TypeOK, emitter, responder
<1>3. CASE UNCHANGED vars
  BY <1>3 DEF vars, TypeOK, emitter, responder
<1> QED
  BY <1>1, <1>2, <1>3

---------------------------------------------------------------------------
(* The invariant, action by action. *)

\* A new run starts with nothing.
LEMMA EmitStep == ASSUME LiveInv, Emit PROVE LiveInv'
<1> USE LiveAssumption
<1>1. TypeOK'
  BY EmitterTypes DEF LiveInv, EmitterNext
<1>2. Counted'
  BY DEF Emit, Counted, Contributors, TypeOK
<1>3. Connections'
  BY DEF Emit, LiveInv, Connections, TypeOK, responder
<1>4. Answers'
  BY DEF Emit, LiveInv, Answers, TypeOK, responder, StillOpen, NoReply
<1>5. ReceiptsFollowEmission'
  BY DEF Emit, ReceiptsFollowEmission
<1> QED
  BY <1>1, <1>2, <1>3, <1>4, <1>5 DEF LiveInv

LEMMA StartThreadsStep == ASSUME LiveInv, StartThreads PROVE LiveInv'
<1> USE LiveAssumption
<1>1. TypeOK'
  BY EmitterTypes DEF LiveInv, EmitterNext
<1>2. receipts' = {} \/ \E u \in Budgets(Emitter) :
            receipts' = {[node |-> Emitter, run |-> run, at |-> now, u |-> u]}
  BY DEF StartThreads
<1>3. \A n \in Responders : thread[n] = "none" /\ n \notin errors
  BY DEF StartThreads, LiveInv, Connections, Counted
<1>4. Counted'
  BY <1>2, <1>3 DEF StartThreads, Counted, Contributors, LiveInv, TypeOK
<1>5. Connections'
  BY <1>3 DEF StartThreads, LiveInv, Connections, responder
<1>6. Answers'
  BY <1>3 DEF StartThreads, LiveInv, Answers, responder, StillOpen
<1>7. ReceiptsFollowEmission'
  BY <1>2 DEF StartThreads, ReceiptsFollowEmission
<1> QED
  BY <1>1, <1>4, <1>5, <1>6, <1>7 DEF LiveInv

LEMMA ConnectStep == ASSUME LiveInv, NEW n \in Responders, Connect(n) PROVE LiveInv'
<1> USE LiveAssumption, LightIsNatural
<1>1. TypeOK'
  BY EmitterTypes DEF LiveInv, EmitterNext
<1>2. Counted'
  BY DEF Connect, Counted, Contributors, LiveInv, TypeOK
<1>3. Connections'
  <2>1. run \in 1..Runs
    BY DEF Connect, LiveInv, Connections, TypeOK
  <2>2. \A i \in 1..Len(queue'[n]) : queue'[n][i] \in 1..run
    BY <2>1 DEF Connect, LiveInv, Connections, TypeOK
  <2> QED
    BY <2>1, <2>2 DEF Connect, LiveInv, Connections, TypeOK
<1>4. Answers'
  <2>1. since'[n] >= 2 * Light(n)
    BY DEF Connect, LiveInv, TypeOK, Nodes
  <2>2. stage[n] = "stamped" => ~StillOpen(n)'
    BY DEF Connect, LiveInv, Connections, StillOpen
  <2> QED
    BY <2>1, <2>2 DEF Connect, LiveInv, Answers, TypeOK, StillOpen
<1>5. ReceiptsFollowEmission'
  BY DEF Connect, LiveInv, ReceiptsFollowEmission
<1> QED
  BY <1>1, <1>2, <1>3, <1>4, <1>5 DEF LiveInv

\* The thread of a waiting responder adds the one receipt it has.
LEMMA ReceiveReplyStep == ASSUME LiveInv, NEW n \in Responders, ReceiveReply(n) PROVE LiveInv'
<1> USE LiveAssumption, LightIsNatural
<1>1. TypeOK'
  BY EmitterTypes DEF LiveInv, EmitterNext
<1>2. /\ thread[n] = "waiting" /\ n \notin Contributors /\ n \notin errors
      /\ reply[n].receipt.node = n /\ reply[n].receipt.run = run
      /\ reply[n].receipt.at >= 3 * Light(n)
  BY DEF ReceiveReply, Awaiting, LiveInv, Counted, Answers
<1>3. receipts' = receipts \cup {reply[n].receipt} /\ Contributors' = Contributors \cup {n}
  BY <1>2 DEF ReceiveReply, Contributors
<1>4. Counted'
  <2>1. \A m \in Responders : /\ thread'[m] = "received" <=> m \in Contributors'
                              /\ thread'[m] = "failed" <=> m \in errors'
    BY <1>2, <1>3 DEF ReceiveReply, LiveInv, Counted, TypeOK
  <2>2. \A r \in receipts : r.node # n
    BY <1>2 DEF Contributors
  <2>3. \A r \in receipts', q \in receipts' : r.node = q.node => r = q
    BY <1>2, <1>3, <2>2 DEF LiveInv, Counted
  <2>4. phase' # "written"
    BY <1>2 DEF ReceiveReply, LiveInv, Counted
  <2> QED
    BY <2>1, <2>3, <2>4 DEF Counted
<1>5. Connections'
  BY DEF ReceiveReply, LiveInv, Connections, TypeOK, responder, Awaiting
<1>6. Answers'
  BY DEF ReceiveReply, LiveInv, Answers, TypeOK, responder, StillOpen
<1>7. ReceiptsFollowEmission'
  BY <1>2, <1>3 DEF ReceiveReply, LiveInv, ReceiptsFollowEmission
<1> QED
  BY <1>1, <1>4, <1>5, <1>6, <1>7 DEF LiveInv

LEMMA FailStep ==
    ASSUME LiveInv, NEW n \in Responders, thread[n] \in {"connecting", "waiting"}, Fail(n)
    PROVE  LiveInv'
<1> USE LiveAssumption
<1>1. TypeOK'
  BY DraftsAreReceipts DEF Fail, LiveInv, TypeOK, responder
<1>2. Counted'
  <2>1. Contributors' = Contributors /\ n \notin Contributors
    BY DEF Fail, Contributors, LiveInv, Counted
  <2> QED
    BY <2>1 DEF Fail, LiveInv, Counted, TypeOK
<1>3. Connections'
  BY DEF Fail, LiveInv, Connections, TypeOK, responder
<1>4. Answers'
  BY DEF Fail, LiveInv, Answers, TypeOK, responder, StillOpen
<1>5. ReceiptsFollowEmission'
  BY DEF Fail, LiveInv, ReceiptsFollowEmission
<1> QED
  BY <1>1, <1>2, <1>3, <1>4, <1>5 DEF LiveInv

LEMMA WriteStep == ASSUME LiveInv, Write PROVE LiveInv'
<1>1. TypeOK'
  BY EmitterTypes DEF LiveInv, EmitterNext
<1>2. Counted'
  BY DEF Write, LiveInv, Counted, Contributors
<1>3. Connections'
  BY DEF Write, LiveInv, Connections, responder
<1>4. Answers'
  BY DEF Write, LiveInv, Answers, responder, StillOpen
<1>5. ReceiptsFollowEmission'
  BY DEF Write, LiveInv, ReceiptsFollowEmission
<1> QED
  BY <1>1, <1>2, <1>3, <1>4, <1>5 DEF LiveInv

\* No step of a responder touches what the threads have recorded.
LEMMA ResponderStep == ASSUME LiveInv, ResponderNext PROVE LiveInv'
<1> USE LiveAssumption, LightIsNatural
<1> SUFFICES ASSUME NEW n \in Responders, Accept(n) \/ Stamp(n) \/ BadRequest(n) \/ Answer(n)
             PROVE  LiveInv'
  BY DEF ResponderNext
<1>1. TypeOK'
  BY ResponderTypes DEF LiveInv, ResponderNext
<1>2. emitter' = emitter
  BY DEF Accept, Stamp, BadRequest, Answer
<1>3. Counted' /\ ReceiptsFollowEmission'
  BY <1>2 DEF LiveInv, Counted, Contributors, ReceiptsFollowEmission, emitter
<1>4. CASE Accept(n)
  <2>1. /\ Head(queue[n]) = queue[n][1] /\ 1 \in 1..Len(queue[n])
        /\ Len(Tail(queue[n])) = Len(queue[n]) - 1
        /\ \A i \in 1..Len(Tail(queue[n])) : Tail(queue[n])[i] = queue[n][i + 1] /\ i + 1 \in 1..Len(queue[n])
    BY <1>4 DEF Accept, LiveInv, TypeOK
  <2>2. Connections'
    <3> SUFFICES ASSUME NEW m \in Responders
                 PROVE  /\ \A i \in 1..Len(queue'[m]) : queue'[m][i] \in 1..run
                        /\ serving'[m] \in 0..run
                        /\ \/ thread[m] \notin {"none", "connecting"}
                           \/ /\ \A i \in 1..Len(queue'[m]) : queue'[m][i] # run
                              /\ stage'[m] \in {"serving", "stamped"} => serving'[m] # run
      BY <1>2 DEF LiveInv, Connections, emitter
    <3>1. CASE m = n
      <4>1. queue'[m] = Tail(queue[n]) /\ serving'[m] = Head(queue[n])
        BY <1>4, <3>1 DEF Accept, LiveInv, TypeOK
      <4> QED
        BY <2>1, <3>1, <4>1 DEF LiveInv, Connections
    <3>2. CASE m # n
      <4>1. queue'[m] = queue[m] /\ serving'[m] = serving[m] /\ stage'[m] = stage[m]
        BY <1>4, <3>2 DEF Accept, LiveInv, TypeOK
      <4> QED
        BY <4>1 DEF LiveInv, Connections
    <3> QED
      BY <3>1, <3>2
  <2>3. Answers'
    BY <1>4 DEF Accept, LiveInv, Answers, TypeOK, StillOpen, emitter
  <2> QED
    BY <1>1, <1>3, <2>2, <2>3 DEF LiveInv
<1>5. CASE Stamp(n)
  <2> PICK u \in Budgets(n) :
         draft' = [draft EXCEPT ![n] = [node |-> n, run |-> serving[n], at |-> now, u |-> u]]
    BY <1>5 DEF Stamp
  <2>1. Connections'
    BY <1>5 DEF Stamp, LiveInv, Connections, TypeOK, emitter
  <2>2. StillOpen(n) => now >= 3 * Light(n)
    BY <1>5 DEF Stamp, LiveInv, Answers, StillOpen, TypeOK, Nodes
  <2>3. /\ draft'[n].node = n /\ draft'[n].run = serving'[n] /\ draft'[n].at = now
        /\ \A m \in Responders : m # n => draft'[m] = draft[m] /\ stage'[m] = stage[m]
    BY <1>5 DEF Stamp, LiveInv, TypeOK
  <2>4. \A m \in Responders : StillOpen(m)' <=> StillOpen(m)
    BY <1>5 DEF Stamp, StillOpen, emitter
  <2>5. reply' = reply /\ serving' = serving /\ since' = since /\ thread' = thread /\ run' = run
    BY <1>5 DEF Stamp, emitter
  <2>6. Answers'
    BY <2>2, <2>3, <2>4, <2>5 DEF LiveInv, Answers
  <2> QED
    BY <1>1, <1>3, <2>1, <2>6 DEF LiveInv
<1>6. CASE BadRequest(n)
  <2>1. Connections'
    BY <1>6 DEF BadRequest, LiveInv, Connections, TypeOK, emitter
  <2>2. Answers'
    BY <1>6 DEF BadRequest, LiveInv, Answers, TypeOK, StillOpen, emitter
  <2> QED
    BY <1>1, <1>3, <2>1, <2>2 DEF LiveInv
<1>7. CASE Answer(n)
  <2>1. /\ stage'[n] \in {"accepting", "dead"}
        /\ \A m \in Responders : m # n => stage'[m] = stage[m] /\ draft'[m] = draft[m]
        /\ queue' = queue /\ serving' = serving
    BY <1>7 DEF Answer, LiveInv, TypeOK
  <2>2. Connections'
    BY <1>2, <2>1 DEF LiveInv, Connections, emitter
  <2>3. \A m \in Responders : StillOpen(m)' <=> StillOpen(m)
    BY <1>2, <2>1 DEF StillOpen, emitter
  <2>4. \A m \in Responders : reply'[m] = reply[m] \/ (m = n /\ StillOpen(n) /\ reply'[m].receipt = draft[n])
    BY <1>7 DEF Answer, LiveInv, TypeOK
  <2>5. StillOpen(n) => draft[n].node = n /\ draft[n].run = run /\ draft[n].at >= 3 * Light(n)
    BY <1>7 DEF Answer, LiveInv, Answers, StillOpen
  <2>6. Answers'
    BY <1>2, <2>1, <2>3, <2>4, <2>5 DEF LiveInv, Answers, emitter
  <2> QED
    BY <1>1, <1>3, <2>2, <2>6 DEF LiveInv
<1> QED
  BY <1>4, <1>5, <1>6, <1>7

LEMMA OtherStep == ASSUME LiveInv, Verify \/ Tick \/ UNCHANGED vars PROVE LiveInv'
<1>1. TypeOK'
  BY OtherTypes DEF LiveInv
<1>2. emitter' = emitter /\ responder' = responder /\ reply' = reply
  BY DEF Verify, Tick, vars
<1>3. Counted'
  BY <1>2 DEF LiveInv, Counted, Contributors, emitter
<1>4. Connections'
  BY <1>2 DEF LiveInv, Connections, emitter, responder
<1>5. Answers'
  BY <1>2 DEF LiveInv, Answers, StillOpen, emitter, responder
<1>6. ReceiptsFollowEmission'
  BY <1>2 DEF LiveInv, ReceiptsFollowEmission, emitter
<1> QED
  BY <1>1, <1>3, <1>4, <1>5, <1>6 DEF LiveInv

\* The invariant holds in every run.
THEOREM LiveInvariance == Spec => []LiveInv
<1>1. Init => LiveInv
  <2> SUFFICES ASSUME Init PROVE LiveInv
    OBVIOUS
  <2> USE LiveAssumption, DraftsAreReceipts DEF Init
  <2>1. TypeOK
    BY DEF TypeOK
  <2>2. Counted
    BY DEF Counted, Contributors
  <2>3. Connections
    BY DEF Connections
  <2>4. Answers
    BY DEF Answers
  <2>5. ReceiptsFollowEmission
    BY DEF ReceiptsFollowEmission
  <2> QED
    BY <2>1, <2>2, <2>3, <2>4, <2>5 DEF LiveInv
<1>2. LiveInv /\ [Next]_vars => LiveInv'
  <2> SUFFICES ASSUME LiveInv, [Next]_vars PROVE LiveInv'
    OBVIOUS
  <2>1. CASE EmitterNext
    <3>1. ASSUME NEW n \in Responders, TimesOut(n) \/ Reset(n) PROVE LiveInv'
      BY <3>1, FailStep DEF TimesOut, Overdue, Reset
    <3> QED
      BY <2>1, <3>1, EmitStep, StartThreadsStep, WriteStep, ConnectStep, ReceiveReplyStep DEF EmitterNext
  <2> QED
    BY <2>1, ResponderStep, OtherStep DEF Next
<1> QED
  BY <1>1, <1>2, PTL DEF Spec

\* Every responder is counted exactly once in a capture that was written.
THEOREM EveryResponderCountedHolds == Spec => []EveryResponderCounted
<1>1. LiveInv => EveryResponderCounted
  <2> SUFFICES ASSUME LiveInv, phase = "written", NEW n \in Responders
               PROVE  /\ n \in errors <=> n \notin Contributors
                      /\ Cardinality({r \in receipts : r.node = n}) <= 1
    BY DEF EveryResponderCounted
  <2>1. n \in errors <=> n \notin Contributors
    BY DEF LiveInv, Counted
  <2> DEFINE S == {r \in receipts : r.node = n}
  <2>2. S = {} \/ \E q : S = {q}
    BY DEF LiveInv, Counted
  <2> HIDE DEF S
  <2>3. Cardinality(S) <= 1
    <3>1. CASE S = {}
      BY <3>1, FS_EmptySet
    <3>2. ASSUME NEW q, S = {q} PROVE Cardinality(S) <= 1
      <4>1. Cardinality({q}) = 1
        BY FS_Singleton
      <4> QED
        BY <3>2, <4>1
    <3> QED
      BY <2>2, <3>1, <3>2
  <2> QED
    BY <2>1, <2>3 DEF S
<1> QED
  BY <1>1, LiveInvariance, PTL

\* What a capture holds was stamped for it, after its emission.
THEOREM ReceiptsFollowEmissionHolds == Spec => []ReceiptsFollowEmission
<1>1. LiveInv => ReceiptsFollowEmission
  BY DEF LiveInv
<1> QED
  BY <1>1, LiveInvariance, PTL

---------------------------------------------------------------------------
(* A receipt carries its node's own uncertainty, or none. *)

Signed == {r \in Receipt : r.u \in {U[r.node], NoBudget}}

Budgeted ==
    /\ receipts \subseteq Signed
    /\ \A n \in Responders : draft[n] \in Signed /\ reply[n].receipt \in Signed

LEMMA SignedReceipts ==
    /\ NoReceipt \in Signed /\ NoReply.receipt = NoReceipt
    /\ \A n \in Nodes, k \in 0..Runs, t \in Nat : \A u \in Budgets(n) :
         [node |-> n, run |-> k, at |-> t, u |-> u] \in Signed
BY DraftsAreReceipts DEF Signed, NoReceipt, NoReply, Budgets

THEOREM BudgetInvariance == Spec => []Budgeted
<1>1. Init => Budgeted
  BY SignedReceipts DEF Init, Budgeted
<1>2. TypeOK /\ Budgeted /\ [Next]_vars => Budgeted'
  <2> SUFFICES ASSUME TypeOK, Budgeted, [Next]_vars PROVE Budgeted'
    OBVIOUS
  <2> USE LiveAssumption, SignedReceipts
  <2>1. CASE Emit
    BY <2>1 DEF Emit, Budgeted, responder
  <2>2. CASE StartThreads
    <3>1. receipts' \subseteq Signed
      BY <2>2 DEF StartThreads, TypeOK, Nodes
    <3> QED
      BY <2>2, <3>1 DEF StartThreads, Budgeted, responder
  <2>3. CASE Write
    BY <2>3 DEF Write, Budgeted, responder
  <2>4. ASSUME NEW n \in Responders, Connect(n) PROVE Budgeted'
    BY <2>4 DEF Connect, Budgeted
  <2>5. ASSUME NEW n \in Responders, ReceiveReply(n) PROVE Budgeted'
    BY <2>5 DEF ReceiveReply, Budgeted, TypeOK, responder
  <2>6. ASSUME NEW n \in Responders, Fail(n) PROVE Budgeted'
    BY <2>6 DEF Fail, Budgeted, responder
  <2>7. ASSUME NEW n \in Responders, Accept(n) \/ BadRequest(n) PROVE Budgeted'
    BY <2>7 DEF Accept, BadRequest, Budgeted, emitter
  <2>8. ASSUME NEW n \in Responders, Stamp(n) PROVE Budgeted'
    <3> PICK u \in Budgets(n) :
           draft' = [draft EXCEPT ![n] = [node |-> n, run |-> serving[n], at |-> now, u |-> u]]
      BY <2>8 DEF Stamp
    <3>0. n \in Nodes /\ serving[n] \in 0..Runs /\ now \in Nat
      BY DEF TypeOK, Nodes
    <3>1. [node |-> n, run |-> serving[n], at |-> now, u |-> u] \in Signed
      BY <3>0
    <3>2. \A m \in Responders : draft'[m] \in Signed
      BY <3>1 DEF Budgeted, TypeOK
    <3> QED
      BY <2>8, <3>2 DEF Stamp, Budgeted, emitter
  <2>9. ASSUME NEW n \in Responders, Answer(n) PROVE Budgeted'
    BY <2>9 DEF Answer, Budgeted, TypeOK, emitter
  <2>10. CASE Verify \/ Tick \/ UNCHANGED vars
    BY <2>10 DEF Verify, Tick, vars, Budgeted, emitter, responder
  <2> QED
    BY <2>1, <2>2, <2>3, <2>4, <2>5, <2>6, <2>7, <2>8, <2>9, <2>10
       DEF Next, EmitterNext, ResponderNext, TimesOut, Reset
<1>3. LiveInv => TypeOK
  BY DEF LiveInv
<1> QED
  BY <1>1, <1>2, <1>3, LiveInvariance, PTL DEF Spec

LEMMA NoWayToItself == Light(Emitter) = 0
<1>1. Pos[Emitter] \in Point
  BY LiveAssumption DEF Nodes
<1>2. Reaches(0, Dist2(Pos[Emitter], Pos[Emitter]))
  BY <1>1, DistIsNatural, CAssumption DEF Reaches
<1> QED
  BY <1>1, <1>2, LightTimeIsExact DEF Light, IsLightTime

\* An honest receipt is rejected only when the emitter's clock ran ahead by more
\* than the light takes there and back.
THEOREM OnlyEmitterClockRejectsHolds == Spec => []OnlyEmitterClockRejects
<1>1. LiveInv /\ Budgeted => OnlyEmitterClockRejects
  <2> SUFFICES ASSUME LiveInv, Budgeted, NEW r \in receipts, NEW e \in ClockErrors,
                      r.u # NoBudget, Classified(r, e) = "REJECTED"
               PROVE  e[Emitter] > 2 * Light(r.node)
    BY DEF OnlyEmitterClockRejects
  <2> USE LiveAssumption
  <2> DEFINE typical == TransitTime(Pos[Emitter], Pos[r.node], 3, 5)
             light == Light(r.node)
             d == ReadAt(r, e)
  <2>1. /\ r.node \in Nodes /\ r.at \in Nat /\ r.u \in Nat /\ r.u = U[r.node]
        /\ r.node # Emitter => r.at >= 3 * light
    BY DEF LiveInv, Budgeted, Signed, Receipt, Nodes, ReceiptsFollowEmission, NoBudget
  <2>2. /\ light \in Nat /\ (r.node = Emitter => light = 0)
        /\ e[Emitter] \in Int /\ e[r.node] \in (-r.u)..r.u
    BY <2>1, LightIsNatural, NoWayToItself DEF Nodes
  <2>3. d + r.u < light
    <3> HIDE DEF typical, light, d
    <3>1. classify(d, r.u, light, typical) = "REJECTED"
      BY DEF Classified, typical, light, d
    <3> QED
      BY <3>1 DEF classify
  <2>4. d = (r.at + e[r.node]) - e[Emitter]
    BY DEF ReadAt
  <2> DEFINE at == r.at
             u == r.u
             own == e[r.node]
             lead == e[Emitter]
  <2>5. CASE r.node = Emitter
    <3>1. at \in Nat /\ u \in Nat /\ own \in Int /\ own = lead /\ light = 0 /\ d = (at + own) - lead
      BY <2>1, <2>2, <2>4, <2>5
    <3> HIDE DEF typical, light, d, at, own, lead
    <3> QED
      BY <2>3, <3>1
  <2>6. CASE r.node # Emitter
    <3>1. /\ at \in Nat /\ u \in Nat /\ own \in (-u)..u /\ lead \in Int /\ light \in Nat
          /\ at >= 3 * light /\ d = (at + own) - lead /\ d + u < light
      BY <2>1, <2>2, <2>3, <2>4, <2>6
    <3> HIDE DEF typical, light, d, at, u, own, lead
    <3>2. lead > 2 * light
      BY <3>1
    <3> QED
      BY <3>2 DEF lead, light
  <2> QED
    BY <2>5, <2>6 DEF light
<1> QED
  BY <1>1, LiveInvariance, BudgetInvariance, PTL
=============================================================================
