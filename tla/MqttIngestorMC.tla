---------------------------- MODULE MqttIngestorMC ----------------------------
(* Model checking of MqttIngestor on small sets of clients.                *)
EXTENDS MqttIngestor, TLC

(* Clients are created in no particular order: they are interchangeable.   *)
Symmetry == Permutations(Clients)
=============================================================================
