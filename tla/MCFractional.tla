----------------------------- MODULE MCFractional -----------------------------
(* Model checking of Fractional: small weights, negative ones and zero.      *)
EXTENDS Fractional

SmallWeights == {-1, 0, 1, 3, 5}
===============================================================================
