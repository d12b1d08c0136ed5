---------------------------- MODULE MCMacLauncher ----------------------------
(* MacLauncher with a few processes and two Pythons, which play the same part *)
(* and may be exchanged.                                                      *)
EXTENDS MacLauncher, TLC

Symmetry == Permutations(Launcher) \cup Permutations(Lib)
==============================================================================
