----------------------------- MODULE MCFlagdCore -----------------------------
(* Model checking of FlagdCore: symmetry of the threads.                     *)
EXTENDS FlagdCore, TLC

ThreadSymmetry == Permutations(Readers) \cup Permutations(Updaters)
=============================================================================
