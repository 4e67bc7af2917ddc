------------------------------ MODULE MqttClient ------------------------------
(***************************************************************************)
(* The MQTT connection that MqttClientService keeps                        *)
(* (src/src/mqtt/mqtt-client.service.ts), the mqtt.js clients it creates   *)
(* and the broker session they compete for.                                *)
(*                                                                         *)
(* The service holds ONE reference, `client`, but every connect() that     *)
(* finds it unconnected creates ANOTHER mqtt.js client.  A client that is  *)
(* replaced or released without end() stays alive inside mqtt.js and dials *)
(* again whenever it is down (reconnectPeriod is set): this module keeps   *)
(* every client ever created, not only the one that is referenced.         *)
(*                                                                         *)
(* The module defines the operations; MqttIngestor composes them into      *)
(* steps.  A Node.js callback and the promise continuations it releases    *)
(* run without interruption, so the callback of a client and the code that *)
(* was awaiting it are one step there.                                     *)
(*                                                                         *)
(* Left out: the subscriptions map, the counters and the message callbacks *)
(* of the service.  connect() and disconnect() never read them.            *)
(***************************************************************************)
EXTENDS Naturals, FiniteSets

CONSTANTS Clients,   \* the mqtt.js clients the process may create (a bound)
          NoClient   \* the value of the field `client` when it is null

ASSUME ClientsAssumption == NoClient \notin Clients

VARIABLES
  client,    \* MqttClientService.client
  conn,      \* conn[c]: what mqtt.js is doing with the connection of client c
  awaited,   \* awaited[c]: who awaits the connect() promise that created c
  closer,    \* closer[c]: who awaits the end() of c
  session    \* the client whose connection the broker serves, if any

clientVars == <<client, conn, awaited, closer, session>>

(* "waiting" is the pause of reconnectPeriod before mqtt.js dials again.   *)
(* "severed" is an end() whose connection broke before the broker had      *)
(* acknowledged everything: see Sever.                                     *)
ConnStates ==
  {"unused", "connecting", "connected", "waiting", "ending", "severed", "ended"}

(* onModuleInit(), POST /connect and the reconnection timer.               *)
Callers == {"init", "api", "timer"}

(* POST /disconnect, onModuleDestroy() and onApplicationShutdown().        *)
Closers == {"api", "destroy", "shutdown"}

ClientTypeOK ==
  /\ client \in Clients \cup {NoClient}
  /\ conn \in [Clients -> ConnStates]
  /\ awaited \in [Clients -> Callers \cup {"none"}]
  /\ closer \in [Clients -> Closers \cup {"none"}]
  /\ session \in Clients \cup {NoClient}

ClientInit ==
  /\ client = NoClient
  /\ conn = [c \in Clients |-> "unused"]
  /\ awaited = [c \in Clients |-> "none"]
  /\ closer = [c \in Clients |-> "none"]
  /\ session = NoClient

Used == {c \in Clients : conn[c] # "unused"}

(* A client that mqtt.js keeps working for: it is up, dialling or about to. *)
Live(c) == conn[c] \in {"connecting", "connected", "waiting"}

(* mqtt.js clears the flag `connected` when the stream closes, so a client *)
(* that is being ended still reads as connected until then.                *)
Connected(c) == conn[c] \in {"connected", "ending"}

(* this.client?.connected *)
ClientConnected == client # NoClient /\ Connected(client)

-----------------------------------------------------------------------------
(* MqttClientService.connect() past its early return.  (Here and in the    *)
(* other modules, a definition X_Something is X with one plausible mistake *)
(* in it: a property is checked to notice it.  No specification uses it.)  *)
Open_FieldNotAssigned(c, caller) ==
  /\ conn[c] = "unused"
  /\ conn' = [conn EXCEPT ![c] = "connecting"]
  /\ awaited' = [awaited EXCEPT ![c] = caller]
  /\ UNCHANGED <<client, closer, session>>

Open(c, caller) ==
  /\ ~ClientConnected
  /\ conn[c] = "unused"
  /\ client' = c
  /\ conn' = [conn EXCEPT ![c] = "connecting"]
  /\ awaited' = [awaited EXCEPT ![c] = caller]
  /\ UNCHANGED <<closer, session>>

(* CONNACK: the 'connect' handler resolves the promise, once.  Every       *)
(* client carries the same clientId, so the broker gives it the session    *)
(* and will close the connection that had it.                              *)
Accept_PromiseKept(c) ==
  /\ conn[c] = "connecting"
  /\ conn' = [conn EXCEPT ![c] = "connected"]
  /\ session' = c
  /\ UNCHANGED <<client, awaited, closer>>

Accept(c) ==
  /\ conn[c] = "connecting"
  /\ conn' = [conn EXCEPT ![c] = "connected"]
  /\ awaited' = [awaited EXCEPT ![c] = "none"]
  /\ session' = c
  /\ UNCHANGED <<client, closer>>

(* The attempt ends with an 'error' event: the handler rejects the promise *)
(* (nothing if it was settled) and mqtt.js plans to dial again.            *)
Refuse(c) ==
  /\ conn[c] = "connecting"
  /\ conn' = [conn EXCEPT ![c] = "waiting"]
  /\ awaited' = [awaited EXCEPT ![c] = "none"]
  /\ UNCHANGED <<client, closer, session>>

(* The attempt ends with 'close' alone: no handler of the service listens  *)
(* to it, so the promise stays pending.                                    *)
DropSilently(c) ==
  /\ conn[c] = "connecting"
  /\ conn' = [conn EXCEPT ![c] = "waiting"]
  /\ UNCHANGED <<client, awaited, closer, session>>

(* The client is created with a reconnectPeriod: when it has passed,       *)
(* mqtt.js dials again, whatever became of the promise.                    *)
Dial_UntilSettled(c) ==
  /\ conn[c] = "waiting"
  /\ awaited[c] # "none"
  /\ conn' = [conn EXCEPT ![c] = "connecting"]
  /\ UNCHANGED <<client, awaited, closer, session>>

Dial(c) ==
  /\ conn[c] = "waiting"
  /\ conn' = [conn EXCEPT ![c] = "connecting"]
  /\ UNCHANGED <<client, awaited, closer, session>>

(* An established connection breaks, and mqtt.js plans to dial again.  (If *)
(* it is being ended, see EndCallback and Sever.)                          *)
Break(c) ==
  /\ conn[c] = "connected"
  /\ conn' = [conn EXCEPT ![c] = "waiting"]
  /\ session' = IF session = c THEN NoClient ELSE session
  /\ UNCHANGED <<client, awaited, closer>>

-----------------------------------------------------------------------------
(* MqttClientService.disconnect() on a connected client: a graceful end()  *)
(* whose callback, EndCallback, comes later.                               *)
BeginEnd(k) ==
  /\ client # NoClient
  /\ conn[client] = "connected"
  /\ conn' = [conn EXCEPT ![client] = "ending"]
  /\ closer' = [closer EXCEPT ![client] = k]
  /\ UNCHANGED <<client, awaited, session>>

(* disconnect() that completes at once.  A client that is not connected is *)
(* forgotten WITHOUT end() and lives on in mqtt.js.  On a client that is   *)
(* already ending, mqtt.js calls the second callback immediately; one that *)
(* is severed is not connected and is forgotten as well.                   *)
Release ==
  /\ client # NoClient => conn[client] # "connected"
  /\ client' = NoClient
  /\ UNCHANGED <<conn, awaited, closer, session>>

(* The callback of end(): it nulls the field, whatever the field holds by  *)
(* then.  A graceful end() whose requests are all acknowledged closes the  *)
(* connection itself, and completes too if it breaks meanwhile.            *)
EndCallback_FieldKept(c) ==
  /\ conn[c] = "ending"
  /\ conn' = [conn EXCEPT ![c] = "ended"]
  /\ closer' = [closer EXCEPT ![c] = "none"]
  /\ session' = IF session = c THEN NoClient ELSE session
  /\ UNCHANGED <<client, awaited>>

EndCallback(c) ==
  /\ conn[c] = "ending"
  /\ conn' = [conn EXCEPT ![c] = "ended"]
  /\ closer' = [closer EXCEPT ![c] = "none"]
  /\ session' = IF session = c THEN NoClient ELSE session
  /\ client' = NoClient
  /\ UNCHANGED awaited

(* end(false) with requests in flight closes the connection only when the  *)
(* last acknowledgement has arrived.  If the connection breaks before, the *)
(* requests fail, but mqtt.js goes on waiting for the acknowledgement; and *)
(* a client that is being ended does not dial again.  The callback never   *)
(* runs.                                                                   *)
Sever(c) ==
  /\ conn[c] = "ending"
  /\ conn' = [conn EXCEPT ![c] = "severed"]
  /\ session' = IF session = c THEN NoClient ELSE session
  /\ UNCHANGED <<client, awaited, closer>>
=============================================================================
