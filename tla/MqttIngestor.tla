----------------------------- MODULE MqttIngestor -----------------------------
(***************************************************************************)
(* MqttIngestorService (src/src/mqtt/mqtt-ingestor.service.ts) over        *)
(* MqttClient: the connection status it reports, its reconnection chain    *)
(* with exponential backoff, and its part in the NestJS life cycle.        *)
(*                                                                         *)
(* With ControllerCalls = 0 this is the application as AppModule wires it: *)
(* IngestionModule, whose controller exposes POST /connect and POST        *)
(* /disconnect, is not imported there.  ControllerCalls > 0 adds it.       *)
(*                                                                         *)
(* Delays are not represented: a timer that is armed may fire at any time. *)
(* Nor are the requests that MqttDispatcherService and the endpoints have  *)
(* in flight: an end() may be severed here whenever it runs, and the       *)
(* modules that have the requests say when.                                *)
(***************************************************************************)
EXTENDS MqttClient

CONSTANTS RetryAttempts,    \* config mqtt.retryAttempts, a positive integer
          ControllerCalls   \* bound on the calls of the two endpoints

ASSUME RetryAssumption == RetryAttempts \in Nat \ {0}
ASSUME CallsAssumption == ControllerCalls \in Nat

VARIABLES
  status,      \* connectionStatus
  attempt,     \* reconnectionAttempt
  timerArmed,  \* the timer that reconnectionTimer holds has yet to fire
  strays,      \* armed timers whose handle was overwritten: nobody can clear them
  boot,        \* onModuleInit(): not yet called, awaiting connect(), returned
  phase,       \* how far the shutdown has come
  calls        \* endpoint calls made so far

chainVars == <<status, attempt, timerArmed, strays>>
lifeVars == <<boot, phase>>
vars == <<clientVars, chainVars, lifeVars, calls>>

Statuses == {"DISCONNECTED", "RECONNECTING", "CONNECTED", "FAILED"}

Boots == {"pending", "awaiting", "returned"}

Phases == {"up", "destroying", "destroyed", "stopping", "stopped"}

TypeOK ==
  /\ ClientTypeOK
  /\ status \in Statuses
  /\ attempt \in Nat
  /\ timerArmed \in BOOLEAN
  /\ strays \in Nat
  /\ boot \in Boots
  /\ phase \in Phases
  /\ calls \in 0..ControllerCalls

Init ==
  /\ ClientInit
  /\ status = "DISCONNECTED"
  /\ attempt = 0
  /\ timerArmed = FALSE
  /\ strays = 0
  /\ boot = "pending"
  /\ phase = "up"
  /\ calls = 0

-----------------------------------------------------------------------------
(* The reconnection chain.                                                 *)

ShouldReconnect_OneMore(n) == n =< RetryAttempts
ShouldReconnect_OneLess(n) == n + 1 < RetryAttempts
ShouldReconnect(n) == n < RetryAttempts

(* scheduleReconnection(), entered with the status s its caller just set.  *)
(* setTimeout overwrites the handle of a timer that is still armed.        *)
ScheduleReconnection_StatusKept(s) ==
  /\ status' = s
  /\ timerArmed' = (timerArmed \/ ShouldReconnect(attempt))
  /\ strays' = IF timerArmed /\ ShouldReconnect(attempt) THEN strays + 1 ELSE strays

ScheduleReconnection_NoReturn(s) ==
  /\ status' = IF ShouldReconnect(attempt) THEN s ELSE "FAILED"
  /\ timerArmed' = TRUE
  /\ strays' = IF timerArmed THEN strays + 1 ELSE strays

ScheduleReconnection(s) ==
  \/ /\ ShouldReconnect(attempt)
     /\ status' = s
     /\ timerArmed' = TRUE
     /\ strays' = IF timerArmed THEN strays + 1 ELSE strays
  \/ /\ ~ShouldReconnect(attempt)
     /\ status' = "FAILED"
     /\ UNCHANGED <<timerArmed, strays>>

(* The end of onModuleInit() when it was the one awaiting.                 *)
InitReturns(caller) == boot' = IF caller = "init" THEN "returned" ELSE boot

(* What follows `await mqttClientService.connect()` when it resolves.      *)
OnResolved(caller) ==
  \/ caller = "none" /\ UNCHANGED <<chainVars, boot>>
  \/ /\ caller # "none"
     /\ status' = "CONNECTED"
     /\ attempt' = 0
     /\ UNCHANGED <<timerArmed, strays>>
     /\ InitReturns(caller)

(* ... and when it rejects: the catch block of connect() or of the timer.  *)
OnRejected_BootWaits(caller) ==
  \/ caller = "none" /\ UNCHANGED <<chainVars, boot>>
  \/ /\ caller # "none"
     /\ ScheduleReconnection(IF caller = "timer" THEN "RECONNECTING" ELSE "DISCONNECTED")
     /\ UNCHANGED <<attempt, boot>>

OnRejected(caller) ==
  \/ caller = "none" /\ UNCHANGED <<chainVars, boot>>
  \/ /\ caller # "none"
     /\ ScheduleReconnection(IF caller = "timer" THEN "RECONNECTING" ELSE "DISCONNECTED")
     /\ InitReturns(caller)
     /\ UNCHANGED attempt

(* Nest re-raises the signal after the last hook: the process is gone.     *)
Alive == phase # "stopped"

(* An armed timer fires: the one of the handle or a stray one.             *)
TakeTimer_Interval ==
  /\ timerArmed \/ strays > 0
  /\ UNCHANGED <<timerArmed, strays>>

TakeTimer ==
  \/ timerArmed /\ timerArmed' = FALSE /\ UNCHANGED strays
  \/ strays > 0 /\ strays' = strays - 1 /\ UNCHANGED timerArmed

(* The callback of setTimeout up to its await.                             *)
ReconnectTimer_NotCounted ==
  /\ Alive
  /\ TakeTimer
  /\ \/ /\ ClientConnected
        /\ status' = "CONNECTED"
        /\ attempt' = 0
        /\ UNCHANGED clientVars
     \/ /\ \E c \in Clients : Open(c, "timer")
        /\ UNCHANGED <<status, attempt>>
  /\ UNCHANGED <<lifeVars, calls>>

ReconnectTimer ==
  /\ Alive
  /\ TakeTimer
  /\ \/ /\ ClientConnected
        /\ status' = "CONNECTED"
        /\ attempt' = 0
        /\ UNCHANGED clientVars
     \/ /\ \E c \in Clients : Open(c, "timer")
        /\ attempt' = attempt + 1
        /\ UNCHANGED status
  /\ UNCHANGED <<lifeVars, calls>>

-----------------------------------------------------------------------------
(* connect() and disconnect(), up to their await.                          *)

ConnectFrom(caller) ==
  /\ \/ /\ ClientConnected
        /\ status' = "CONNECTED"
        /\ UNCHANGED clientVars
     \/ /\ \E c \in Clients : Open(c, caller)
        /\ status' = "RECONNECTING"
  /\ attempt' = 0
  /\ UNCHANGED <<timerArmed, strays>>

(* Where the shutdown stands once the disconnect() of k has returned.      *)
PhaseAfter(k) ==
  CASE k = "destroy"  -> "destroyed"
    [] k = "shutdown" -> "stopped"
    [] OTHER          -> phase

PhaseDuring(k) ==
  CASE k = "destroy"  -> "destroying"
    [] k = "shutdown" -> "stopping"
    [] OTHER          -> phase

DisconnectFrom(k) ==
  /\ timerArmed' = FALSE
  /\ UNCHANGED <<strays, attempt>>
  /\ \/ BeginEnd(k) /\ phase' = PhaseDuring(k) /\ UNCHANGED status
     \/ Release /\ phase' = PhaseAfter(k) /\ status' = "DISCONNECTED"

-----------------------------------------------------------------------------
(* The life cycle and the endpoints.                                       *)

(* Nest calls the hook of the boot whether or not a signal has come.       *)
OnModuleInit ==
  /\ Alive
  /\ boot = "pending"
  /\ ConnectFrom("init")
  /\ boot' = "awaiting"
  /\ UNCHANGED <<phase, calls>>

(* The HTTP server listens from the end of the boot until Nest disposes of *)
(* it, which is after the onModuleDestroy hooks.                           *)
Serving == boot = "returned" /\ phase \in {"up", "destroying", "destroyed"}

ApiCall ==
  /\ Serving
  /\ calls < ControllerCalls
  /\ calls' = calls + 1

ApiConnect == ApiCall /\ ConnectFrom("api") /\ UNCHANGED lifeVars

ApiDisconnect == ApiCall /\ DisconnectFrom("api") /\ UNCHANGED boot

(* A signal: main.ts enables the shutdown hooks before the boot, and       *)
(* NestApplication does not make them wait for its end.                    *)
OnModuleDestroy ==
  /\ phase = "up"
  /\ DisconnectFrom("destroy")
  /\ UNCHANGED <<boot, calls>>

(* Closing the HTTP server waits for the requests in flight.               *)
OnApplicationShutdown ==
  /\ phase = "destroyed"
  /\ \A c \in Clients : awaited[c] # "api" /\ closer[c] # "api"
  /\ DisconnectFrom("shutdown")
  /\ UNCHANGED <<boot, calls>>

-----------------------------------------------------------------------------
(* The callbacks of mqtt.js, each with the code that was awaiting it.      *)

Accepted(c) ==
  /\ Alive
  /\ Accept(c)
  /\ OnResolved(awaited[c])
  /\ UNCHANGED <<phase, calls>>

Refused(c) ==
  /\ Alive
  /\ Refuse(c)
  /\ OnRejected(awaited[c])
  /\ UNCHANGED <<phase, calls>>

ClosedSilently(c) == Alive /\ DropSilently(c) /\ UNCHANGED <<chainVars, lifeVars, calls>>

Dialled(c) == Alive /\ Dial(c) /\ UNCHANGED <<chainVars, lifeVars, calls>>

(* The network, or a restart of the broker, breaks the connection: nothing *)
(* in either service listens to 'close'.                                   *)
Lost(c) == Alive /\ session = c /\ Break(c) /\ UNCHANGED <<chainVars, lifeVars, calls>>

(* The broker closes the connection of a client whose session was taken    *)
(* over by another one.                                                    *)
Evicted(c) == Alive /\ session # c /\ Break(c) /\ UNCHANGED <<chainVars, lifeVars, calls>>

EndDone_NotResumed(c) ==
  /\ Alive
  /\ EndCallback(c)
  /\ status' = "DISCONNECTED"
  /\ UNCHANGED <<attempt, timerArmed, strays, lifeVars, calls>>

EndDone(c) ==
  /\ Alive
  /\ EndCallback(c)
  /\ status' = "DISCONNECTED"
  /\ phase' = PhaseAfter(closer[c])
  /\ UNCHANGED <<attempt, timerArmed, strays, boot, calls>>

(* The connection of a client that is being ended breaks while an          *)
(* acknowledgement is owed: disconnect() never returns.                    *)
Severed(c) == Alive /\ Sever(c) /\ UNCHANGED <<chainVars, lifeVars, calls>>

(* The application as AppModule wires it, and with the endpoints.          *)
WiredNext ==
  \/ OnModuleInit
  \/ OnModuleDestroy
  \/ OnApplicationShutdown
  \/ ReconnectTimer
  \/ \E c \in Clients :
       \/ Accepted(c)
       \/ Refused(c)
       \/ ClosedSilently(c)
       \/ Dialled(c)
       \/ Lost(c)
       \/ Evicted(c)
       \/ EndDone(c)
       \/ Severed(c)

Next == WiredNext \/ ApiConnect \/ ApiDisconnect

WiredSpec == Init /\ [][WiredNext]_vars
Spec == Init /\ [][Next]_vars

-----------------------------------------------------------------------------
(* Fairness.  Attempts and timers end by themselves: mqtt.js gives up an   *)
(* unanswered attempt after connectTimeout, Node.js fires every timer, and *)
(* Nest goes through its shutdown hooks.  Nothing is assumed of faults, of *)
(* the endpoints, nor that a shutdown ever begins.                         *)

AttemptEnds(c) == Accepted(c) \/ Refused(c) \/ ClosedSilently(c)

LibraryFairness ==
  /\ WF_vars(OnModuleInit)
  /\ WF_vars(ReconnectTimer)
  /\ WF_vars(OnApplicationShutdown)
  /\ \A c \in Clients :
       /\ WF_vars(AttemptEnds(c))
       /\ WF_vars(Dialled(c))
       /\ WF_vars(Evicted(c))
       /\ WF_vars(EndDone(c))

(* A client that dials again and again is answered, by a CONNACK or by an  *)
(* error, sooner or later.                                                 *)
Answered == \A c \in Clients : SF_vars(Accepted(c) \/ Refused(c))

LibrarySpec == WiredSpec /\ LibraryFairness
FairSpec == LibrarySpec /\ Answered

(* What the network, and not the program, does to the connections.         *)
NetworkFault == \E c \in Clients : Refused(c) \/ ClosedSilently(c) \/ Lost(c)

QuietNetwork == <>[][~NetworkFault]_vars

StaysConnectedStatus == <>[](phase = "up" /\ status = "CONNECTED")

-----------------------------------------------------------------------------
(* Safety.                                                                 *)

(* A status of RECONNECTING is never a dead end: an attempt is awaited, a  *)
(* timer is armed or an end() is about to report.  The one exception is an *)
(* end() that was severed and will never report.  It holds whatever calls  *)
(* of the endpoints interleave with the chain.                             *)
ReconnectingIsDriven ==
  status = "RECONNECTING" =>
    \/ timerArmed
    \/ strays > 0
    \/ \E c \in Clients : awaited[c] # "none" \/ closer[c] # "none"

(* No continuation is lost: a pending connect() promise belongs to a       *)
(* client mqtt.js still works for, and who awaits an end() awaits one that *)
(* is running or was severed while it ran.                                 *)
NoStrandedAwait ==
  \A c \in Clients :
    /\ awaited[c] # "none" => conn[c] \in {"connecting", "waiting"}
    /\ closer[c] # "none" <=> conn[c] \in {"ending", "severed"}

(* Who waits has something to wait for: the boot a client whose promise it *)
(* awaits, and a hook of the shutdown an end() that has not called back.   *)
WaitsAreDriven ==
  /\ boot = "awaiting" => \E c \in Clients : awaited[c] = "init"
  /\ phase = "destroying" => \E c \in Clients : closer[c] = "destroy"
  /\ phase = "stopping" => \E c \in Clients : closer[c] = "shutdown"

(* The field never holds a client that was ended: subscribe() would use it *)
(* and connect() would take it for one that is coming back.                *)
FieldNotEnded == client # NoClient => conn[client] \notin {"unused", "ended"}

(* As wired, there is one reconnection chain: never two attempts awaited,  *)
(* never a timer beside an attempt, never a timer nobody can clear.        *)
SingleRetryChain ==
  /\ \A c, d \in Clients : awaited[c] # "none" /\ awaited[d] # "none" => c = d
  /\ timerArmed => \A c \in Clients : awaited[c] = "none"
  /\ strays = 0

(* As wired, the chain creates at most one client per attempt, the first   *)
(* one included, although every one of them is left alive.                 *)
ClientBudget == Cardinality(Used) =< RetryAttempts + 1

(* As wired, the status becomes FAILED only when every configured retry    *)
(* has been made.                                                          *)
FailedMeansExhausted ==
  status = "FAILED" => Cardinality(Used) = RetryAttempts + 1

(* As wired, until the shutdown the status CONNECTED always refers to a    *)
(* client the service still holds and mqtt.js still works for.             *)
ConnectedIsOwned ==
  phase = "up" /\ status = "CONNECTED" => client # NoClient /\ Live(client)

(* As wired, giving up is final: nothing but a hook of the shutdown leaves *)
(* FAILED, restarts the count or arms a timer again.                       *)
FailedIsFinal ==
  [][status = "FAILED" => UNCHANGED chainVars \/ phase' # phase]_vars

(* What makes the properties of the wiring inductive.  ChainShape: nothing *)
(* runs before the boot, and FAILED means the chain is over.  ChainCount:  *)
(* as long as the chain runs, attempt is the number of clients it created, *)
(* less one.  LifeCycle: an end() that is awaited is the only one and tells *)
(* the phase; until the shutdown the awaited client is the one held.  With *)
(* WaitsAreDriven no part of the life cycle waits for nothing.             *)
ChainIdle == ~timerArmed /\ \A c \in Clients : awaited[c] = "none"

ChainShape ==
  /\ boot = "pending" => ChainIdle /\ Used = {} /\ status = "DISCONNECTED"
  /\ status = "FAILED" => ChainIdle

ChainCount ==
  /\ IsFiniteSet(Used)
  /\ ~ChainIdle => Cardinality(Used) = attempt + 1 /\ attempt =< RetryAttempts
  /\ timerArmed => attempt < RetryAttempts

LifeCycle ==
  \A c \in Clients :
    /\ closer[c] # "api"
    /\ closer[c] = "destroy" => phase = "destroying"
    /\ closer[c] = "shutdown" => phase = "stopping"
    /\ awaited[c] = "init" => boot = "awaiting"
    /\ awaited[c] # "none" /\ phase = "up" => client = c
    /\ \A d \in Clients : closer[c] # "none" /\ closer[d] # "none" => c = d

WiringInv == ChainShape /\ ChainCount /\ LifeCycle /\ WaitsAreDriven

-----------------------------------------------------------------------------
(* The abstract connection that this one implements.  disconnect() does    *)
(* not switch off an attempt that is awaited: it goes on until it is       *)
(* answered or the process ends.                                           *)

Mode ==
  CASE ~Alive -> "off"
    [] Alive /\ timerArmed -> "backoff"
    [] Alive /\ ~timerArmed /\ ~ChainIdle -> "trying"
    [] Alive /\ ChainIdle /\ boot = "pending" -> "idle"
    [] Alive /\ ChainIdle /\ boot # "pending" ->
         CASE status = "CONNECTED" -> "up"
           [] status = "FAILED"    -> "gaveUp"
           [] OTHER                -> "off"

RetriesMade == IF Mode \in {"trying", "backoff", "gaveUp"} THEN attempt ELSE 0

Contract == INSTANCE ReconnectContract
              WITH Limit <- RetryAttempts, mode <- Mode, retries <- RetriesMade

(* As wired, whatever faults and shutdowns interleave with them, the       *)
(* clients, timers and promises amount to the one chain of the contract.   *)
ImplementsContract == Contract!ContractSpec

-----------------------------------------------------------------------------
(* Liveness.                                                               *)

(* As wired, the chain always comes to an end, if attempts are answered.   *)
ChainEnds == Contract!Settles

(* A boot is never blocked for ever by a broker that answers, be it with   *)
(* an error, nor by hooks of a shutdown that run beside it: onModuleInit() *)
(* returns, or the process has ended.                                      *)
BootCompletes == <>(boot = "returned" \/ ~Alive)

(* A hook of the shutdown, or a call of POST /disconnect that the closing  *)
(* HTTP server waits for, awaits an end() that will never call back.       *)
Hung == \E c \in Clients : conn[c] = "severed" /\ closer[c] # "none"

(* Once it has begun, the shutdown is not blocked by the MQTT connection,  *)
(* whatever state it is in, nor by a boot that is still awaiting it, except *)
(* by an end() whose connection broke while an acknowledgement was owed.   *)
ShutdownCompletes == phase \in {"destroying", "destroyed", "stopping"} ~> phase = "stopped" \/ Hung

(* As wired, if the first attempt succeeded, mqtt.js brings the connection *)
(* back after every loss and it stays once the network is quiet.           *)
SingleClientRecovers ==
  QuietNetwork /\ StaysConnectedStatus /\ [](Cardinality(Used) =< 1) => <>[]ClientConnected

-----------------------------------------------------------------------------
(* What the documents say and the code does not do.  The lines are those   *)
(* of openspec/changes/add-ingestion-module/specs/ingestion/spec.md.       *)

(* Lines 213 and 244: the connection is restored after a loss and "message *)
(* reception continues normally".                                          *)
QuietNetworkHolds == QuietNetwork /\ StaysConnectedStatus => <>[]ClientConnected
=============================================================================
