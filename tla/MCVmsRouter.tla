----------------------------- MODULE MCVmsRouter -----------------------------
(* VmsRouter on small instances. *)
EXTENDS VmsRouter, TLC

ASSUME EnoughDeliveryIds ==
  Cardinality(Deliveries) >= Cardinality(Callers) * Cardinality(Pushes) * BoardCount
==============================================================================
