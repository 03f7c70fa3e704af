-------------------------- MODULE MCExecutionBroker --------------------------
(* ExecutionBroker on small instances. *)
EXTENDS ExecutionBroker, TLC

ASSUME EnoughExecutionIds ==
  Cardinality(Execs) >= Cardinality(Approvers)
                        * (Cardinality(Tokens) + Cardinality(BarricadeTokens))

Symmetry == Permutations(Execs) \cup Permutations(Approvers) \cup Permutations(Operators)
==============================================================================
