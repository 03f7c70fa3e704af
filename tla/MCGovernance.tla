---------------------------- MODULE MCGovernance ----------------------------
(* Governance on small instances. *)
EXTENDS Governance, TLC

DefaultSettings == [tier |-> 1, shadow |-> "on"]

Symmetry == Permutations(Operators)
=============================================================================
