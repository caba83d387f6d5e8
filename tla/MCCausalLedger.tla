--------------------------- MODULE MCCausalLedger ---------------------------
(* CausalLedger with two places, one nanosecond of light apart. *)
EXTENDS CausalLedger, TLC

MCPlaces == {<<0, 0, 0>>, <<1, 0, 0>>}
Symmetry == Permutations(EventId)
=============================================================================
