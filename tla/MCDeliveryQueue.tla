-------------------------- MODULE MCDeliveryQueue --------------------------
(* Small instances of DeliveryQueue for TLC; the configurations give the    *)
(* constants their values.                                                  *)
EXTENDS DeliveryQueue, TLC

\* Sound where the messages are alike (BestEffort is empty); for safety only.
Symmetry == Permutations(Deliveries)
=============================================================================
