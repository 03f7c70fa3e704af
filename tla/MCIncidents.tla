----------------------------- MODULE MCIncidents -----------------------------
(* Incidents on small instances. *)
EXTENDS Incidents, TLC

Symmetry == Permutations(Events) \cup Permutations(Senders) \cup Permutations(Sockets)
==============================================================================
