----------------------------- MODULE MCResponse ------------------------------
(* Response on small instances. *)
EXTENDS Response, TLC

Symmetry == Permutations(Clients)
==============================================================================
