---------------------------- MODULE MachinesServiceMC ----------------------------
(* Model checking of MachinesService: two requests under way at a time.    *)
EXTENDS MachinesService, TLC

RequestSymmetry == Permutations(Requests)
=============================================================================
