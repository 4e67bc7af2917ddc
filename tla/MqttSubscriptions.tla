--------------------------- MODULE MqttSubscriptions ---------------------------
(***************************************************************************)
(* The subscriptions of the mqtt.js clients in the broker: what            *)
(* MqttDispatcher and IngestionController have in common.                  *)
(*                                                                         *)
(* The session is a clean one (mqtt.clean in local.yml), so the broker     *)
(* forgets every subscription with the connection.  mqtt.js remembers what *)
(* it was asked for: in the 'connect' event of a reconnection it sends one *)
(* SUBSCRIBE with all of it, whose acknowledgement comes later and which   *)
(* no code of the service waits for.                                       *)
(***************************************************************************)
EXTENDS MqttIngestor

CONSTANT Topics   \* topics to subscribe

VARIABLES
  wanted,      \* wanted[c]: the topics mqtt.js subscribes again for client c
  restoring,   \* restoring[c]: the topics of its SUBSCRIBE that is in flight
  served,      \* the topics subscribed in the broker's current session
  lapsed       \* history: topics dropped with a refused restoration, not granted since

brokerVars == <<wanted, restoring, served, lapsed>>

BrokerTypeOK ==
  /\ wanted \in [Clients -> SUBSET Topics]
  /\ restoring \in [Clients -> SUBSET Topics]
  /\ served \subseteq Topics
  /\ lapsed \subseteq Topics

BrokerInit ==
  /\ wanted = [c \in Clients |-> {}]
  /\ restoring = [c \in Clients |-> {}]
  /\ served = {}
  /\ lapsed = {}

(* Neither MqttClientService nor mqtt.js takes a request without a         *)
(* connection, mqtt.js not even on a connection that is ending.            *)
Reachable == client # NoClient /\ conn[client] = "connected"

(* The broker answers on the connection of c, in the order of the          *)
(* requests: the restoration was sent before any other.                    *)
Answers(c) ==
  /\ Alive
  /\ conn[c] \in {"connected", "ending"}
  /\ restoring[c] = {}

(* With the CONNACK of c a new session begins, and mqtt.js subscribes      *)
(* again to what it wants.                                                 *)
SessionBegins_NotRestored(c) ==
  /\ served' = {}
  /\ UNCHANGED <<wanted, restoring, lapsed>>

SessionBegins(c) ==
  /\ served' = {}
  /\ restoring' = [restoring EXCEPT ![c] = wanted[c]]
  /\ UNCHANGED <<wanted, lapsed>>

(* The connection of c is closed.                                          *)
SessionEnds(c) ==
  /\ served' = IF session = c THEN {} ELSE served
  /\ restoring' = [restoring EXCEPT ![c] = {}]
  /\ UNCHANGED <<wanted, lapsed>>

(* The SUBACK of a request of the service that grants t to client c.       *)
Granting(c, t) ==
  /\ served' = IF session = c THEN served \cup {t} ELSE served
  /\ lapsed' = IF t \in wanted[c] THEN lapsed \ {t} ELSE lapsed

-----------------------------------------------------------------------------
(* The SUBACK of the restoration.                                          *)

Restoration(c, granted) ==
  /\ Alive
  /\ restoring[c] # {}
  /\ conn[c] \in {"connected", "ending"}
  /\ served' = IF session = c THEN served \cup granted ELSE served
  /\ restoring' = [restoring EXCEPT ![c] = {}]
  /\ UNCHANGED vars

RestoreGranted(c) ==
  /\ Restoration(c, restoring[c])
  /\ UNCHANGED <<wanted, lapsed>>

(* The broker refuses some of the topics: mqtt.js forgets all of them, and *)
(* will not restore the granted ones next time.  Nobody is told.           *)
RestoreRefused(c) ==
  /\ \E granted \in SUBSET restoring[c] :
       granted # restoring[c] /\ Restoration(c, granted)
  /\ lapsed' = lapsed \cup restoring[c]
  /\ wanted' = [wanted EXCEPT ![c] = @ \ restoring[c]]

RestoreAcked(c) == RestoreGranted(c) \/ RestoreRefused(c)
=============================================================================
