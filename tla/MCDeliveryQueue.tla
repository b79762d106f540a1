-------------------------- MODULE MCDeliveryQueue --------------------------
(***************************************************************************)
(* Instances of DeliveryQueue for TLC.                                     *)
(***************************************************************************)
EXTENDS DeliveryQueue, TLC

CONSTANTS c1, c2, j1, j2, j3, d1, d2, p1, p2, p3, worker

\* Every process was started with the same worker id.
SharedId == [p \in Processes |-> worker]

=============================================================================
