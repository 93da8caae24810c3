--------------------------- MODULE MCFlagEvaluation ---------------------------
(* Model checking of FlagEvaluation: every flag there can be.                *)
EXTENDS FlagEvaluation

AllFlags == FlagRecords
===============================================================================
