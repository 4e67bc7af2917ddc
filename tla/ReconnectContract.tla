--------------------------- MODULE ReconnectContract ---------------------------
(***************************************************************************)
(* What MqttIngestorService promises of its connection, without clients,   *)
(* timers and promises: one attempt at a time, at most Limit retries, each *)
(* after a pause, then it gives up; success ends the chain, and what has   *)
(* been switched off stays off.                                            *)
(***************************************************************************)
EXTENDS Naturals

CONSTANT Limit   \* the configured number of retries

VARIABLES
  mode,      \* what the service is doing about its connection
  retries    \* retries made since the first attempt

contractVars == <<mode, retries>>

ContractInit == mode = "idle" /\ retries = 0

Start == mode = "idle" /\ mode' = "trying" /\ UNCHANGED retries

Succeeds == mode = "trying" /\ mode' = "up" /\ retries' = 0

Fails ==
  /\ mode = "trying"
  /\ mode' = IF retries < Limit THEN "backoff" ELSE "gaveUp"
  /\ UNCHANGED retries

Retries == mode = "backoff" /\ mode' = "trying" /\ retries' = retries + 1

(* The connection came back by itself during the pause.                    *)
Recovers == mode = "backoff" /\ mode' = "up" /\ retries' = 0

Stops == mode # "off" /\ mode' = "off" /\ retries' = 0

ContractNext == Start \/ Succeeds \/ Fails \/ Retries \/ Recovers \/ Stops

ContractSpec == ContractInit /\ [][ContractNext]_contractVars

(* The chain comes to an end: it succeeds, gives up or is switched off.    *)
Settles == <>[](mode \in {"up", "gaveUp", "off"})
=============================================================================
