----------------------------- MODULE MVRegister -----------------------------
(***************************************************************************)
(* What causal-store promises of one replica, with no frontier, no           *)
(* supersedes lists and no classification: a multi-value register.  After a   *)
(* set of writes has been delivered, in whatever order, the current values    *)
(* of a key are the delivered writes that no delivered write of that key is   *)
(* causally after.                                                            *)
(***************************************************************************)
CONSTANTS Event, Key, KeyOf(_), Before(_, _)

VARIABLES delivered,    \* the writes the register has taken into account
          siblings      \* the current values of each key

vars == <<delivered, siblings>>

Maximal(S, k) ==
    {e \in S : KeyOf(e) = k /\ ~\E o \in S : KeyOf(o) = k /\ Before(e, o)}

Init == /\ delivered = {}
        /\ siblings = [k \in Key |-> {}]

Deliver(e) == /\ delivered' = delivered \cup {e}
              /\ siblings' = [k \in Key |-> Maximal(delivered', k)]

Next == \E e \in Event : Deliver(e)

Spec == Init /\ [][Next]_vars
=============================================================================
