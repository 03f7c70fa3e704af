--------------------------- MODULE MCModelRegistry ---------------------------
(* ModelRegistry on small instances. *)
EXTENDS ModelRegistry, TLC

Symmetry == Permutations(Trainers) \cup Permutations(Promoters)
==============================================================================
