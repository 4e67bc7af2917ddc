------------------------- MODULE IngestionControllerMC -------------------------
(* Model checking of IngestionController on small sets of clients, topics  *)
(* and calls.                                                              *)
EXTENDS IngestionController
=============================================================================
