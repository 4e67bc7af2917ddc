----------------------------- MODULE EventStreamMC -----------------------------
(* Model checking of EventStream: one topic that is subscribed by its name *)
(* and one that a wildcard covers.                                         *)
EXTENDS EventStream, TLC

MCTopics == {<<"machine", "1">>, <<"status">>}

MCSources == {<<"status">>, <<"machine", "+">>}

MCPatterns == {<<"status">>, <<"machine", "+">>, <<"machine", "#">>}

ClientSymmetry == Permutations(Clients)
=============================================================================
