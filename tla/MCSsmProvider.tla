---------------------------- MODULE MCSsmProvider ----------------------------
(* Model checking of SsmProvider: which types are asked for, and symmetry of *)
(* the callers.                                                              *)
EXTENDS SsmProvider, TLC

OneTypeEach  == {<<"k1", "boolean">>, <<"k2", "string">>}
TwoTypes     == {<<"k1", "boolean">>, <<"k1", "string">>}
BareFlag     == {<<"k1", "string">>}
CallerSymmetry == Permutations(Callers)
=============================================================================
