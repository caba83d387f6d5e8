--------------------------- MODULE MCCausalMemory ---------------------------
(***************************************************************************)
(* CausalMemory with the light-cone ordering of mnemesis/memory.py, which has *)
(* no uncertainties, over writes at two places.                               *)
(***************************************************************************)
EXTENDS CausalMemory, LightCone

here  == <<0, 0, 0>>
there == <<1, 0, 0>>
At(t, p) == [time_ns |-> t, pos_nm |-> p]

\* The two observers write a value of their own at times 0 and 1; at time 2 the
\* first one may write either value.  Under the second key there is one write,
\* for claims across keys.
MCKey == {"k1", "k2"}
MCBody ==
    [key : {"k1"}, value : {"x"}, clock : {At(t, here) : t \in 0..2}]
      \cup [key : {"k1"}, value : {"y"}, clock : {At(t, there) : t \in 0..1} \cup {At(2, here)}]
      \cup {[key |-> "k2", value |-> "x", clock |-> At(0, here)]}
MCKeyOf(b) == b.key
MCValueOf(b) == b.value

\* GeometricOrdering.before
MCBefore(a, b) ==
    /\ b.clock.time_ns > a.clock.time_ns
    /\ CausallyAdmissible(a.clock.time_ns, a.clock.pos_nm, b.clock.time_ns, b.clock.pos_nm)

MCStranger == {NewWrite([(CHOOSE b \in MCBody : TRUE) EXCEPT !.key = "unrecorded"], {})}
=============================================================================
