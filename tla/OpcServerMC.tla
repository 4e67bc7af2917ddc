------------------------------ MODULE OpcServerMC ------------------------------
(* Model checking of OpcServer with a few other callers.                   *)
EXTENDS OpcServer
=============================================================================
