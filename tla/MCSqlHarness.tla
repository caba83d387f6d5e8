---------------------------- MODULE MCSqlHarness ----------------------------
(***************************************************************************)
(* SqlHarness on every trace of MaxOps operations in which each operation     *)
(* waits for any of the earlier ones, in trace order.                         *)
(***************************************************************************)
EXTENDS SqlHarness, SequencesExt

CONSTANT MaxOps

MCTraces ==
    LET AsList(S) == SetToSortSeq(S, <)
    IN  {[o \in 1..MaxOps |-> [depends_on |-> AsList(f[o])]] :
           f \in {g \in [1..MaxOps -> SUBSET (1..MaxOps)] :
                    \A o \in 1..MaxOps : g[o] \subseteq 1..(o - 1)}}
MCLeftovers == {{}, {2}}
=============================================================================
