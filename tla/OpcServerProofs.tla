---------------------------- MODULE OpcServerProofs ----------------------------
(***************************************************************************)
(* Theorems about OpcServer, for every set of callers.                     *)
(***************************************************************************)
EXTENDS OpcServer, TLAPS

OpcInv == OpcTypeOK /\ SingleServer /\ RunningHasServer /\ FieldsOfEngine

LEMMA OpcInitInv == OpcInit => OpcInv
<1> SUFFICES ASSUME OpcInit PROVE OpcInv
  OBVIOUS
<1>1. ~server /\ ~space /\ ~running
  BY DEF OpcInit
<1>2. server \in BOOLEAN /\ space \in BOOLEAN /\ running \in BOOLEAN
  BY DEF OpcInit
<1>3. OpcTypeOK
  BY <1>2 DEF OpcInit, OpcTypeOK, AwaitsWhatComes, Outcomes, OpcPhases
<1>4. SingleServer /\ RunningHasServer /\ FieldsOfEngine
  BY <1>1 DEF OpcInit, SingleServer, RunningHasServer, FieldsOfEngine
<1> QED
  BY <1>3, <1>4 DEF OpcInv

(* The three operations of the service keep the invariant, whoever calls.  *)
LEMMA StartInv ==
  ASSUME OpcInv, NEW u \in Users, StartServer(u), UNCHANGED types,
         phase' \in OpcPhases
  PROVE  OpcInv'
<1> USE DEF OpcInv, OpcTypeOK, AwaitsWhatComes, SingleServer, RunningHasServer, FieldsOfEngine, Outcomes, OpcPhases
<1>1. CASE Construct /\ ready = "none" /\ AwaitsOn(u, "start")
  BY <1>1 DEF Construct, AwaitsOn
<1>2. CASE UNCHANGED serverVars /\ (Returns(u, "started") \/ Returns(u, "failed"))
  BY <1>2 DEF serverVars, Returns
<1>3. CASE UNCHANGED serverVars /\ ready = "pending" /\ AwaitsOn(u, "start")
  BY <1>3 DEF serverVars, AwaitsOn
<1> QED
  BY <1>1, <1>2, <1>3 DEF StartServer

LEMMA RegisterInv ==
  ASSUME OpcInv, NEW u \in Users, RegisterType(u), UNCHANGED phase
  PROVE  /\ OpcInv'
         /\ types' \subseteq types \/ (running' /\ engine' # "down")
<1> USE DEF OpcInv, OpcTypeOK, AwaitsWhatComes, SingleServer, RunningHasServer, FieldsOfEngine, Outcomes, OpcPhases
<1>1. UNCHANGED serverVars
  BY DEF RegisterType
<1>2. CASE types' = types /\ Returns(u, "failed")
  BY <1>1, <1>2 DEF serverVars, Returns
<1>3. CASE types' = types /\ ready = "pending" /\ AwaitsOn(u, "register")
  BY <1>1, <1>3 DEF serverVars, AwaitsOn
<1>4. CASE /\ ready \in {"none", "resolved"} /\ space
           /\ types' = types \cup {u} /\ Returns(u, "registered")
  BY <1>1, <1>4 DEF serverVars, Returns
<1> QED
  BY <1>2, <1>3, <1>4 DEF RegisterType, Register

LEMMA StopInv ==
  ASSUME OpcInv, NEW u \in Users, StopServer(u), UNCHANGED types,
         phase' \in OpcPhases
  PROVE  OpcInv'
<1> USE DEF OpcInv, OpcTypeOK, AwaitsWhatComes, SingleServer, RunningHasServer, FieldsOfEngine, Outcomes, OpcPhases
<1>1. CASE UNCHANGED serverVars /\ Returns(u, "stopped")
  BY <1>1 DEF serverVars, Returns
<1>2. CASE /\ running /\ engine' = "stopping" /\ AwaitsOn(u, "shutdown")
           /\ UNCHANGED <<server, space, running, ready, created>>
  BY <1>2 DEF AwaitsOn
<1> QED
  BY <1>1, <1>2 DEF StopServer

(* So do the ends of what node-opcua was asked to do.                      *)
LEMMA EngineInv ==
  ASSUME OpcInv, EngineInitialized \/ EngineStarted \/ EngineFails
  PROVE  OpcInv' /\ (types' \subseteq types \/ (running' /\ engine' # "down"))
<1> USE DEF OpcInv, OpcTypeOK, AwaitsWhatComes, SingleServer, RunningHasServer, FieldsOfEngine, Outcomes, OpcPhases
<1>1. CASE EngineInitialized
  BY <1>1 DEF EngineInitialized
<1>2. ASSUME EngineStarted \/ EngineFails
      PROVE  awaiting' = [u \in Users |-> "nothing"]
  BY <1>2 DEF EngineStarted, EngineFails, WakeAll, Woken, Waiting
<1>3. CASE EngineStarted
  BY <1>2, <1>3 DEF EngineStarted, BootReturns, BootThrows, Waiting
<1>4. CASE EngineFails
  BY <1>2, <1>4 DEF EngineFails, BootReturns, BootThrows
<1> QED
  BY <1>1, <1>3, <1>4

LEMMA ShutdownInv ==
  ASSUME OpcInv, NEW u \in Users, ShutdownDone(u) \/ ShutdownFails(u)
  PROVE  OpcInv' /\ types' \subseteq types
<1> USE DEF OpcInv, OpcTypeOK, AwaitsWhatComes, SingleServer, RunningHasServer, FieldsOfEngine, Outcomes, OpcPhases
<1>1. CASE ShutdownDone(u)
  <2>1. ~server' /\ ~space' /\ ~running'
    BY <1>1 DEF ShutdownDone
  <2>2. server' \in BOOLEAN /\ space' \in BOOLEAN /\ running' \in BOOLEAN
    BY <1>1 DEF ShutdownDone
  <2>3. /\ engine' = "down" /\ types' = {} /\ ready' = ready /\ created' = created
        /\ awaiting' = [awaiting EXCEPT ![u] = "nothing"]
        /\ last' = [last EXCEPT ![u] = "stopped"]
        /\ phase' \in {phase, "closed"}
    BY <1>1 DEF ShutdownDone, HookEnds
  <2>4. ready = "resolved"
    BY <1>1 DEF ShutdownDone
  <2>5. AwaitsWhatComes'
    BY <2>3, <2>4
  <2>6. OpcTypeOK'
    BY <2>2, <2>3, <2>5
  <2> QED
    BY <2>1, <2>3, <2>6
<1>2. CASE ShutdownFails(u)
  BY <1>2 DEF ShutdownFails, HookEnds
<1> QED
  BY <1>1, <1>2

LEMMA OpcStepInv ==
  ASSUME OpcInv, [OpcNext]_opcVars
  PROVE  OpcInv' /\ (types' \subseteq types \/ (running' /\ engine' # "down"))
<1>1. CASE UNCHANGED opcVars
  BY <1>1 DEF opcVars, serverVars, OpcInv, OpcTypeOK, AwaitsWhatComes, SingleServer, RunningHasServer,
              FieldsOfEngine
<1>2. "module" \in Users /\ "cnc" \in Users /\ Others \subseteq Users
  BY DEF Users
<1>3. CASE CncDeviceInit
  BY <1>2, <1>3, RegisterInv DEF CncDeviceInit
<1>4. CASE OpcModuleInit
  BY <1>2, <1>4, StartInv DEF OpcModuleInit, OpcPhases
<1>5. CASE OpcModuleDestroy
  BY <1>2, <1>5, StopInv DEF OpcModuleDestroy, OpcPhases
<1>6. CASE EngineInitialized \/ EngineStarted \/ EngineFails
  BY <1>6, EngineInv
<1>7. CASE \E u \in Users : ShutdownDone(u) \/ ShutdownFails(u)
  BY <1>7, ShutdownInv
<1>8. ASSUME NEW u \in Others, OtherStarts(u) \/ OtherStops(u)
      PROVE  OpcInv' /\ types' \subseteq types
  <2>1. /\ StartServer(u) \/ StopServer(u)
        /\ UNCHANGED types /\ phase' = phase
    BY <1>8 DEF OtherStarts, OtherStops
  <2>2. phase' \in OpcPhases
    BY <2>1 DEF OpcInv, OpcTypeOK
  <2> QED
    BY <1>2, <2>1, <2>2, StartInv, StopInv
<1>9. ASSUME NEW u \in Others, OtherRegisters(u)
      PROVE  OpcInv' /\ (types' \subseteq types \/ (running' /\ engine' # "down"))
  BY <1>2, <1>9, RegisterInv DEF OtherRegisters
<1>10. CASE OpcProcessEnds
  BY <1>10 DEF OpcProcessEnds, OpcPhases, serverVars, OpcInv, OpcTypeOK, AwaitsWhatComes, SingleServer,
               RunningHasServer, FieldsOfEngine
<1> QED
  BY <1>1, <1>3, <1>4, <1>5, <1>6, <1>7, <1>8, <1>9, <1>10 DEF OpcNext

(* However the calls interleave, every variable keeps its type and a call  *)
(* awaits the start only while one is under way.                           *)
THEOREM OpcTypeCorrect == OpcSpec => []OpcTypeOK
<1>1. OpcInv /\ [OpcNext]_opcVars => OpcInv'
  BY OpcStepInv
<1>2. OpcInv => OpcTypeOK
  BY DEF OpcInv
<1> QED
  BY <1>1, <1>2, OpcInitInv, PTL DEF OpcSpec

(* However the calls interleave, one OPCUAServer is ever constructed, and  *)
(* isRunning() never outlives the server and its address space.            *)
THEOREM OneServer == OpcSpec => [](SingleServer /\ RunningHasServer)
<1>1. OpcInv /\ [OpcNext]_opcVars => OpcInv'
  BY OpcStepInv
<1>2. OpcInv => SingleServer /\ RunningHasServer
  BY DEF OpcInv
<1> QED
  BY <1>1, <1>2, OpcInitInv, PTL DEF OpcSpec

(* isRunning() is true only while a server and its address space exist.    *)
COROLLARY RunningAlwaysHasServer == OpcSpec => []RunningHasServer
  BY OneServer, PTL

(* A type enters the address space of a server that has started and was    *)
(* not stopped.                                                            *)
THEOREM RegisteredAfterStart == OpcSpec => RegisteredWhileUp
<1>1. OpcInv /\ [OpcNext]_opcVars => OpcInv'
  BY OpcStepInv
<1>2. OpcInv /\ [OpcNext]_opcVars
        => [types' \subseteq types \/ (running' /\ engine' # "down")]_opcVars
  BY OpcStepInv
<1> QED
  BY <1>1, <1>2, OpcInitInv, PTL DEF OpcSpec, RegisteredWhileUp

-----------------------------------------------------------------------------
(* What does not come back.                                                *)

(* Only a constructed server has an engine.                                *)
EngineIsConstructed == ready = "none" <=> engine = "none"

LEMMA ConstructedStep ==
  ASSUME OpcInv, EngineIsConstructed, [OpcNext]_opcVars
  PROVE  EngineIsConstructed'
<1> USE DEF EngineIsConstructed
<1>1. /\ \A u \in Users : awaiting[u] = "shutdown" => ready = "resolved"
      /\ ready = "pending" <=> engine \in {"initializing", "starting"}
      /\ running => ready = "resolved"
  BY DEF OpcInv, OpcTypeOK, AwaitsWhatComes, RunningHasServer
<1>2. ASSUME NEW u, StartServer(u) \/ StopServer(u) \/ RegisterType(u) PROVE EngineIsConstructed'
  BY <1>1, <1>2 DEF StartServer, Construct, StopServer, RegisterType, serverVars
<1>3. CASE CncDeviceInit \/ OpcModuleInit \/ OpcModuleDestroy
  BY <1>2, <1>3 DEF CncDeviceInit, OpcModuleInit, OpcModuleDestroy
<1>4. CASE \E u \in Others : OtherStarts(u) \/ OtherStops(u) \/ OtherRegisters(u)
  BY <1>2, <1>4 DEF OtherStarts, OtherStops, OtherRegisters
<1> QED
  BY <1>1, <1>3, <1>4 DEF OpcNext, OpcProcessEnds, EngineInitialized, EngineStarted, EngineFails,
                          ShutdownDone, ShutdownFails, serverVars, opcVars

(* A server that went down stays down (hazard: the promise of the start    *)
(* survives the stop): startServer() finds that promise settled, returns   *)
(* as if it had started one, and nobody constructs a second server.        *)
THEOREM DownForGood == OpcSpec => [](engine = "down" => [](engine = "down" /\ ~running /\ types = {}))
<1> DEFINE Inv == OpcInv /\ EngineIsConstructed
           Down == engine = "down"
<1>1. OpcInit => Inv
  BY OpcInitInv DEF OpcInit, EngineIsConstructed
<1>2. Inv /\ [OpcNext]_opcVars => Inv'
  BY OpcStepInv, ConstructedStep
<1>3. ASSUME Inv, Down, [OpcNext]_opcVars PROVE Down'
  <2>1. ready # "none" /\ ~running
    BY <1>3 DEF OpcInv, RunningHasServer, EngineIsConstructed
  <2>2. ASSUME NEW u, StartServer(u) \/ StopServer(u) \/ RegisterType(u) PROVE engine' = "down"
    BY <1>3, <2>1, <2>2 DEF StartServer, StopServer, RegisterType, serverVars
  <2>3. CASE CncDeviceInit \/ OpcModuleInit \/ OpcModuleDestroy
    BY <2>2, <2>3 DEF CncDeviceInit, OpcModuleInit, OpcModuleDestroy
  <2>4. CASE \E u \in Others : OtherStarts(u) \/ OtherStops(u) \/ OtherRegisters(u)
    BY <2>2, <2>4 DEF OtherStarts, OtherStops, OtherRegisters
  <2> QED
    BY <1>3, <2>3, <2>4 DEF OpcNext, OpcProcessEnds, EngineInitialized, EngineStarted, EngineFails,
                            ShutdownDone, ShutdownFails, serverVars, opcVars
<1>4. Inv /\ Down => engine = "down" /\ ~running /\ types = {}
  BY DEF OpcInv, RunningHasServer
<1> HIDE DEF Inv, Down
<1>5. OpcSpec => [](Down => [](engine = "down" /\ ~running /\ types = {}))
  BY <1>1, <1>2, <1>3, <1>4, PTL DEF OpcSpec
<1> QED
  BY <1>5 DEF Down

(* How many operations of node-opcua the start is still away from its end. *)
StartSteps ==
  CASE engine = "none"         -> 3
    [] engine = "initializing" -> 2
    [] engine = "starting"     -> 1
    [] OTHER                   -> 0

(* No call is left waiting for a start that will not end: one that awaits  *)
(* it does so while node-opcua has one or two operations to finish, each   *)
(* takes the start forward, nothing takes it back or repeats it, and with  *)
(* the last one every call has returned.  CallsReturn adds the fairness.   *)
THEOREM StartIsBounded ==
  OpcSpec =>
    /\ [](\A u \in Users : awaiting[u] \in {"start", "register"} => StartSteps \in {1, 2})
    /\ [][StartSteps' < StartSteps]_StartSteps
<1> DEFINE Inv == OpcInv /\ EngineIsConstructed
           Near == \A u \in Users : awaiting[u] \in {"start", "register"} => StartSteps \in {1, 2}
<1>1. OpcInit => Inv
  BY OpcInitInv DEF OpcInit, EngineIsConstructed
<1>2. Inv /\ [OpcNext]_opcVars => Inv'
  BY OpcStepInv, ConstructedStep
<1>3. Inv => Near
  BY DEF OpcInv, OpcTypeOK, AwaitsWhatComes, StartSteps
<1>4. ASSUME Inv, [OpcNext]_opcVars PROVE StartSteps' < StartSteps \/ StartSteps' = StartSteps
  <2>1. /\ ready = "none" => engine = "none"
        /\ running => engine \in {"serving", "stopping", "broken"}
    BY <1>4 DEF OpcInv, OpcTypeOK, AwaitsWhatComes, RunningHasServer, FieldsOfEngine, EngineIsConstructed
  <2>2. ASSUME NEW u, StartServer(u) \/ StopServer(u) \/ RegisterType(u)
        PROVE  \/ engine' = engine
               \/ engine = "none" /\ engine' = "initializing"
               \/ engine \in {"serving", "stopping", "broken"} /\ engine' = "stopping"
    BY <2>1, <2>2 DEF StartServer, Construct, StopServer, RegisterType, serverVars
  <2>3. CASE CncDeviceInit \/ OpcModuleInit \/ OpcModuleDestroy
    BY <2>2, <2>3 DEF CncDeviceInit, OpcModuleInit, OpcModuleDestroy, StartSteps
  <2>4. CASE \E u \in Others : OtherStarts(u) \/ OtherStops(u) \/ OtherRegisters(u)
    BY <2>2, <2>4 DEF OtherStarts, OtherStops, OtherRegisters, StartSteps
  <2>5. CASE OpcProcessEnds \/ EngineInitialized \/ EngineStarted \/ EngineFails \/ UNCHANGED opcVars
    BY <2>5 DEF OpcProcessEnds, EngineInitialized, EngineStarted, EngineFails, serverVars, opcVars, StartSteps
  <2>6. CASE \E u \in Users : ShutdownDone(u) \/ ShutdownFails(u)
    <3>1. ready = "resolved" /\ engine \notin {"initializing", "starting", "none"}
      BY <1>4, <2>6 DEF OpcInv, OpcTypeOK, AwaitsWhatComes, EngineIsConstructed, ShutdownDone, ShutdownFails
    <3> QED
      BY <2>6, <3>1 DEF ShutdownDone, ShutdownFails, StartSteps
  <2> QED
    BY <1>4, <2>3, <2>4, <2>5, <2>6 DEF OpcNext
<1>5. Inv /\ [OpcNext]_opcVars => [StartSteps' < StartSteps]_StartSteps
  BY <1>4
<1> HIDE DEF Inv, Near
<1>6. OpcSpec => []Near /\ [][StartSteps' < StartSteps]_StartSteps
  BY <1>1, <1>2, <1>3, <1>5, PTL DEF OpcSpec
<1> QED
  BY <1>6 DEF Near

(* As wired, the type of CncDeviceService is in no address space, at no    *)
(* time (hazard and finding: its constructor calls registerType() before   *)
(* any hook): the call does not wait, it fails, and is not repeated.       *)
THEOREM CncTypeNeverRegistered ==
  ASSUME Others = {}
  PROVE  OpcSpec => [](types = {})
<1> DEFINE TooEarly == /\ types = {} /\ \A u \in Users : awaiting[u] # "register"
                       /\ phase = "created" => ready = "none" /\ ~space
<1>1. OpcInit => TooEarly
  BY DEF OpcInit
<1>2. ASSUME OpcTypeOK, TooEarly, [OpcNext]_opcVars PROVE TooEarly'
  <2>1. /\ "module" \in Users /\ "cnc" \in Users
        /\ awaiting \in [Users -> {"nothing", "start", "register", "shutdown"}]
    BY <1>2 DEF Users, OpcTypeOK
  <2>2. CASE UNCHANGED opcVars \/ OpcProcessEnds
    BY <1>2, <2>2 DEF OpcProcessEnds, opcVars, serverVars
  <2>3. CASE CncDeviceInit
    BY <1>2, <2>1, <2>3 DEF CncDeviceInit, RegisterType, Register, Returns, serverVars
  <2>4. CASE OpcModuleInit
    BY <1>2, <2>1, <2>4 DEF OpcModuleInit, StartServer, Construct, Returns, AwaitsOn, serverVars
  <2>5. CASE OpcModuleDestroy
    BY <1>2, <2>1, <2>5 DEF OpcModuleDestroy, StopServer, Returns, AwaitsOn, serverVars
  <2>6. CASE EngineInitialized \/ EngineFails
    BY <1>2, <2>1, <2>6 DEF EngineInitialized, EngineFails, WakeAll, BootThrows, AwaitsWhatComes, OpcTypeOK
  <2>7. CASE EngineStarted
    BY <1>2, <2>1, <2>7 DEF EngineStarted, WakeAll, Waiting, BootReturns, AwaitsWhatComes, OpcTypeOK
  <2>8. ASSUME NEW u \in Users, ShutdownDone(u) \/ ShutdownFails(u) PROVE TooEarly'
    BY <1>2, <2>1, <2>8 DEF ShutdownDone, ShutdownFails, HookEnds, AwaitsWhatComes, OpcTypeOK
  <2> QED
    BY <1>2, <2>2, <2>3, <2>4, <2>5, <2>6, <2>7, <2>8 DEF OpcNext
<1> HIDE DEF TooEarly
<1>3. OpcSpec => []TooEarly
  BY <1>1, <1>2, OpcTypeCorrect, PTL DEF OpcSpec
<1>4. TooEarly => types = {}
  BY DEF TooEarly
<1> QED
  BY <1>3, <1>4, PTL
=============================================================================
