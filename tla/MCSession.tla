------------------------------ MODULE MCSession ------------------------------
(* Small instances of Session for TLC: users (with their codes), dashboards  *)
(* and chains are interchangeable.                                           *)
EXTENDS Session, TLC

Symmetry == Permutations(Users) \cup Permutations(Dashes) \cup Permutations(Chains)
=============================================================================
