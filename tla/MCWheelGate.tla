----------------------------- MODULE MCWheelGate -----------------------------
(* WheelGate with two wheels, so that one can be hopeless and the other not,  *)
(* and two runs in one checkout, so that a safe copy can be stale.            *)
EXTENDS WheelGate, TLC

Symmetry == Permutations(Wheel)
==============================================================================
