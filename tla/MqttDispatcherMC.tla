--------------------------- MODULE MqttDispatcherMC ---------------------------
(* Model checking of MqttDispatcher on small sets.                         *)
EXTENDS MqttDispatcher, TLC

(* Clients, machines and topics are told apart by their roles only.        *)
Symmetry == Permutations(Clients) \cup Permutations(Machines) \cup Permutations(Topics)
=============================================================================
