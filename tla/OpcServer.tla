------------------------------- MODULE OpcServer -------------------------------
(***************************************************************************)
(* OpcServerService (src/src/opc-server/opc-server.service.ts): the start, *)
(* the stop and the registration of types, whoever calls them and however  *)
(* their calls interleave at the awaits.                                   *)
(*                                                                         *)
(* Two callers are wired: OpcServerModule, whose hooks start and stop the  *)
(* server, and CncDeviceService, whose constructor registers a type.  The  *)
(* module is @Global and exports the service: Others stands for the other  *)
(* components that may use it, each with one call at a time.               *)
(*                                                                         *)
(* The code between two awaits is one step, and so are the continuations   *)
(* that wait for the same promise.  The content of a type (variables and   *)
(* methods) is left out: its registration succeeds or fails as a whole.    *)
(***************************************************************************)
EXTENDS Naturals

CONSTANT Others   \* components that call the service besides the two wired

ASSUME OthersAssumption == Others \cap {"module", "cnc"} = {}

VARIABLES
  server,    \* the field server is not null
  space,     \* the fields addressSpace and namespace are not null
  running,   \* isRunningFlag
  ready,     \* serverReadyPromise: "none" is null
  engine,    \* what the OPCUAServer of node-opcua is really doing
  created,   \* how many OPCUAServer objects were constructed
  types,     \* the callers whose type is in the current address space
  awaiting,  \* what the pending call of each caller awaits
  last,      \* how the last call of each caller ended
  phase      \* the life cycle of OpcServerModule

serverVars == <<server, space, running, ready, engine, created>>
opcVars == <<serverVars, types, awaiting, last, phase>>

Users == Others \cup {"module", "cnc"}

Outcomes == {"none", "started", "stopped", "registered", "failed"}

OpcPhases == {"created", "boot", "up", "closing", "closed", "gone"}

(* A call awaits the start only while the start is under way, a shutdown   *)
(* only after it.                                                          *)
AwaitsWhatComes ==
  /\ ready = "pending" <=> engine \in {"initializing", "starting"}
  /\ \A u \in Users : awaiting[u] \in {"start", "register"} => ready = "pending"
  /\ \A u \in Users : awaiting[u] = "shutdown" => ready = "resolved"

OpcTypeOK ==
  /\ server \in BOOLEAN /\ space \in BOOLEAN /\ running \in BOOLEAN
  /\ ready \in {"none", "pending", "resolved", "rejected"}
  /\ engine \in {"none", "initializing", "starting", "serving", "stopping", "down", "broken"}
  /\ created \in Nat
  /\ types \subseteq Users
  /\ awaiting \in [Users -> {"nothing", "start", "register", "shutdown"}]
  /\ last \in [Users -> Outcomes]
  /\ phase \in OpcPhases
  /\ AwaitsWhatComes

OpcInit ==
  /\ server = FALSE /\ space = FALSE /\ running = FALSE
  /\ ready = "none"
  /\ engine = "none"
  /\ created = 0
  /\ types = {}
  /\ awaiting = [u \in Users |-> "nothing"]
  /\ last = [u \in Users |-> "none"]
  /\ phase = "created"

OpcAlive == phase # "gone"

-----------------------------------------------------------------------------
(* How a call of u ends, or comes to its await.                            *)

Returns(u, outcome) ==
  /\ last' = [last EXCEPT ![u] = outcome]
  /\ UNCHANGED awaiting

AwaitsOn(u, what) ==
  /\ awaiting' = [awaiting EXCEPT ![u] = what]
  /\ last' = [last EXCEPT ![u] = "none"]

(* startServer(): the first call constructs the server and keeps the       *)
(* promise of its start; the later ones await that same promise, settled   *)
(* or not.  Nothing ever resets it.                                        *)
Construct ==
  /\ server' = TRUE
  /\ created' = created + 1
  /\ ready' = "pending"
  /\ engine' = "initializing"
  /\ UNCHANGED <<space, running>>

StartServer_FlagOnly(u) ==
  \/ running /\ Returns(u, "started") /\ UNCHANGED serverVars
  \/ ~running /\ Construct /\ AwaitsOn(u, "start")

StartServer(u) ==
  \/ /\ running \/ ready = "resolved"
     /\ Returns(u, "started")
     /\ UNCHANGED serverVars
  \/ /\ ~running /\ ready = "rejected"
     /\ Returns(u, "failed")
     /\ UNCHANGED serverVars
  \/ /\ ready = "none"
     /\ Construct
     /\ AwaitsOn(u, "start")
  \/ /\ ready = "pending"
     /\ AwaitsOn(u, "start")
     /\ UNCHANGED serverVars

(* registerType() past its wait: without an address space it is a          *)
(* BadRequestException; node-opcua may refuse the type.                    *)
Register(u) ==
  \/ space /\ types' = types \cup {u} /\ Returns(u, "registered")
  \/ types' = types /\ Returns(u, "failed")

RegisterType_NoWait(u) ==
  /\ UNCHANGED serverVars
  /\ Register(u)

RegisterType(u) ==
  /\ UNCHANGED serverVars
  /\ \/ ready = "pending" /\ AwaitsOn(u, "register") /\ UNCHANGED types
     \/ ready = "rejected" /\ Returns(u, "failed") /\ UNCHANGED types
     \/ ready \in {"none", "resolved"} /\ Register(u)

(* stopServer(): a server that is not yet, or no longer, running is none   *)
(* of its business.                                                        *)
StopServer(u) ==
  \/ /\ ~running \/ ~server
     /\ Returns(u, "stopped")
     /\ UNCHANGED serverVars
  \/ /\ running /\ server
     /\ engine' = "stopping"
     /\ AwaitsOn(u, "shutdown")
     /\ UNCHANGED <<server, space, running, ready, created>>

-----------------------------------------------------------------------------
(* startServerInternal(), after its awaits.                                *)

(* The promise is settled: every call that awaits it goes on.  A start     *)
(* returns or throws; a registration goes on with the address space.       *)
Waiting(what) == {u \in Users : awaiting[u] = what}

Woken == Waiting("start") \cup Waiting("register")

WakeAll_StartsOnly ==
  awaiting' = [u \in Users |-> IF awaiting[u] = "start" THEN "nothing" ELSE awaiting[u]]

WakeAll == awaiting' = [u \in Users |-> IF u \in Woken THEN "nothing" ELSE awaiting[u]]

(* onModuleInit() of OpcServerModule returns; when it throws, the start of *)
(* the application fails and the process ends, even if a signal has come   *)
(* meanwhile.                                                              *)
BootReturns == phase' = IF phase = "boot" THEN "up" ELSE phase

BootThrows == phase' = IF awaiting["module"] = "start" THEN "gone" ELSE phase

EngineInitialized ==
  /\ OpcAlive
  /\ engine = "initializing"
  /\ engine' = "starting"
  /\ space' = TRUE
  /\ UNCHANGED <<server, running, ready, created, types, awaiting, last, phase>>

EngineStarted ==
  /\ OpcAlive
  /\ engine = "starting"
  /\ engine' = "serving"
  /\ running' = TRUE
  /\ ready' = "resolved"
  /\ WakeAll
  /\ \E accepted \in SUBSET Waiting("register") :
       /\ types' = types \cup accepted
       /\ last' = [u \in Users |->
                     CASE awaiting[u] = "start"    -> "started"
                       [] awaiting[u] = "register" -> IF u \in accepted THEN "registered" ELSE "failed"
                       [] OTHER                    -> last[u]]
  /\ BootReturns
  /\ UNCHANGED <<server, space, created>>

EngineFails ==
  /\ OpcAlive
  /\ engine \in {"initializing", "starting"}
  /\ engine' = "broken"
  /\ ready' = "rejected"
  /\ WakeAll
  /\ last' = [u \in Users |-> IF u \in Woken THEN "failed" ELSE last[u]]
  /\ BootThrows
  /\ UNCHANGED <<server, space, running, created, types>>

(* The end of shutdown().  When it fails every field stays as it was.      *)
HookEnds(u) == phase' = IF u = "module" THEN "closed" ELSE phase

ShutdownDone_FlagOnly(u) ==
  /\ OpcAlive
  /\ awaiting[u] = "shutdown"
  /\ awaiting' = [awaiting EXCEPT ![u] = "nothing"]
  /\ last' = [last EXCEPT ![u] = "stopped"]
  /\ running' = FALSE
  /\ engine' = "down"
  /\ types' = {}
  /\ HookEnds(u)
  /\ UNCHANGED <<server, space, ready, created>>

ShutdownDone(u) ==
  /\ OpcAlive
  /\ awaiting[u] = "shutdown"
  /\ awaiting' = [awaiting EXCEPT ![u] = "nothing"]
  /\ last' = [last EXCEPT ![u] = "stopped"]
  /\ server' = FALSE /\ space' = FALSE /\ running' = FALSE
  /\ engine' = "down"
  /\ types' = {}
  /\ HookEnds(u)
  /\ UNCHANGED <<ready, created>>

ShutdownFails(u) ==
  /\ OpcAlive
  /\ awaiting[u] = "shutdown"
  /\ awaiting' = [awaiting EXCEPT ![u] = "nothing"]
  /\ last' = [last EXCEPT ![u] = "failed"]
  /\ engine' = IF engine = "stopping" THEN "broken" ELSE engine
  /\ HookEnds(u)
  /\ UNCHANGED <<server, space, running, ready, created, types>>

-----------------------------------------------------------------------------
(* The callers.                                                            *)

(* The constructor of CncDeviceService, when Nest creates its instance:    *)
(* before any hook.                                                        *)
CncDeviceInit ==
  /\ phase = "created" /\ last["cnc"] = "none" /\ awaiting["cnc"] = "nothing"
  /\ RegisterType("cnc")
  /\ UNCHANGED phase

OpcModuleInit ==
  /\ phase = "created"
  /\ last["cnc"] # "none" \/ awaiting["cnc"] # "nothing"
  /\ StartServer("module")
  /\ phase' = IF running \/ ready = "resolved" THEN "up"
              ELSE IF ready = "rejected" THEN "gone" ELSE "boot"
  /\ UNCHANGED types

(* A signal may come while the server is still starting: stopServer()      *)
(* finds none that runs and returns, and the start goes on.                *)
OpcModuleDestroy ==
  /\ phase \in {"boot", "up"}
  /\ StopServer("module")
  /\ phase' = IF running /\ server THEN "closing" ELSE "closed"
  /\ UNCHANGED types

(* The hooks of the other modules are over as well: Nest re-raises the     *)
(* signal.                                                                 *)
OpcProcessEnds ==
  /\ phase = "closed"
  /\ phase' = "gone"
  /\ UNCHANGED <<serverVars, types, awaiting, last>>

Idles(u) == u \in Others /\ awaiting[u] = "nothing" /\ OpcAlive

OtherStarts(u) == Idles(u) /\ StartServer(u) /\ UNCHANGED <<types, phase>>

OtherStops(u) == Idles(u) /\ StopServer(u) /\ UNCHANGED <<types, phase>>

OtherRegisters(u) == Idles(u) /\ RegisterType(u) /\ UNCHANGED phase

OpcNext ==
  \/ CncDeviceInit
  \/ OpcModuleInit
  \/ OpcModuleDestroy
  \/ OpcProcessEnds
  \/ EngineInitialized
  \/ EngineStarted
  \/ EngineFails
  \/ \E u \in Users : ShutdownDone(u) \/ ShutdownFails(u)
  \/ \E u \in Others : OtherStarts(u) \/ OtherStops(u) \/ OtherRegisters(u)

OpcSpec == OpcInit /\ [][OpcNext]_opcVars

(* Nest runs its hooks, and every operation of node-opcua ends somehow.    *)
OpcFairness ==
  /\ WF_opcVars(CncDeviceInit)
  /\ WF_opcVars(OpcModuleInit)
  /\ WF_opcVars(EngineInitialized \/ EngineFails)
  /\ WF_opcVars(EngineStarted \/ EngineFails)
  /\ \A u \in Users : WF_opcVars(ShutdownDone(u) \/ ShutdownFails(u))

OpcFairSpec == OpcSpec /\ OpcFairness

-----------------------------------------------------------------------------
(* Properties.                                                             *)

(* However the calls interleave, one OPCUAServer is ever constructed: two  *)
(* would compete for the port.                                             *)
SingleServer == created =< 1

(* isRunning() never outlives the objects: as long as it is true the       *)
(* server, its address space and its settled promise are there, and the    *)
(* address space is gone once the server is down.                          *)
RunningHasServer ==
  /\ running => server /\ space /\ ready = "resolved"
  /\ engine = "down" => ~running /\ ~space /\ types = {}

(* A type enters the address space of a server that has started and was    *)
(* not stopped: a registration that comes too early waits for the start.   *)
RegisteredWhileUp == [][types' \subseteq types \/ (running' /\ engine' # "down")]_opcVars

(* What makes the three inductive: the promise tells whether a server was  *)
(* constructed, an engine that works has its fields, and once the start    *)
(* has ended the address space is there exactly while the flag is set.     *)
FieldsOfEngine ==
  /\ created = IF ready = "none" THEN 0 ELSE 1
  /\ engine \in {"initializing", "starting", "serving"} => server
  /\ engine \in {"starting", "serving"} => space
  /\ ready = "none" => ~space
  /\ ready = "resolved" => (space <=> running)

(* No call is forgotten: what awaits the start or a shutdown comes back.   *)
CallsReturn == \A u \in Users : awaiting[u] # "nothing" ~> awaiting[u] = "nothing" \/ ~OpcAlive

-----------------------------------------------------------------------------
(* What the comments say and the code does not do.                         *)

(* cnc-device.service.ts, line 22: "wait for the start of the server and   *)
(* register the type".                                                     *)
CncTypeRegistered == phase = "up" /\ engine = "serving" => "cnc" \in types
=============================================================================
