----------------------------- MODULE MCCodeSync -----------------------------
(* Small instances of CodeSync for TLC: codes and call slots are           *)
(* interchangeable, which the liveness run may not use.                    *)
EXTENDS CodeSync, TLC

Symmetry == Permutations(Codes) \cup Permutations(Calls)
=============================================================================
