-------------------------- MODULE MqttIngestorProofs --------------------------
(***************************************************************************)
(* Theorems about MqttIngestor, for every set of clients, every number of  *)
(* retries and, unless a theorem says otherwise, every number of endpoint  *)
(* calls.                                                                  *)
(***************************************************************************)
EXTENDS MqttIngestor, FiniteSetTheorems, TLAPS

USE DEF ConnStates, Callers, Closers, Statuses, Boots, Phases

(* What any step of the system does to the variables of MqttClient: one of *)
(* the operations that module defines, or nothing.                         *)
ClientStep ==
  \/ \E c \in Clients, caller \in Callers : Open(c, caller)
  \/ \E c \in Clients : \/ Accept(c) \/ Refuse(c) \/ DropSilently(c)
                        \/ Dial(c) \/ Break(c) \/ EndCallback(c) \/ Sever(c)
  \/ \E k \in Closers : BeginEnd(k)
  \/ Release
  \/ UNCHANGED clientVars

(* Every operation of the client module keeps its variables typed.         *)
LEMMA ClientStepType ==
  ASSUME ClientTypeOK, ClientStep
  PROVE  ClientTypeOK'
<1> USE DEF ClientTypeOK
<1>1. CASE \E c \in Clients, caller \in Callers : Open(c, caller)
  BY <1>1 DEF Open
<1>2. CASE \E c \in Clients : Accept(c)
  BY <1>2 DEF Accept
<1>3. CASE \E c \in Clients : Refuse(c)
  BY <1>3 DEF Refuse
<1>4. CASE \E c \in Clients : DropSilently(c)
  BY <1>4 DEF DropSilently
<1>5. CASE \E c \in Clients : Dial(c)
  BY <1>5 DEF Dial
<1>6. CASE \E c \in Clients : Break(c)
  BY <1>6 DEF Break
<1>7. CASE \E c \in Clients : EndCallback(c)
  BY <1>7 DEF EndCallback
<1>8. CASE \E k \in Closers : BeginEnd(k)
  BY <1>8 DEF BeginEnd
<1>9. CASE Release
  BY <1>9 DEF Release
<1>10. CASE \E c \in Clients : Sever(c)
  BY <1>10 DEF Sever
<1>11. CASE UNCHANGED clientVars
  BY <1>11 DEF clientVars
<1> QED
  BY <1>1, <1>2, <1>3, <1>4, <1>5, <1>6, <1>7, <1>8, <1>9, <1>10, <1>11 DEF ClientStep

(* The steps of the system are steps of the client module.                 *)
LEMMA NextIsClientStep == [Next]_vars => ClientStep
<1> SUFFICES ASSUME [Next]_vars PROVE ClientStep
  OBVIOUS
<1> USE DEF ClientStep
<1>1. CASE OnModuleInit \/ ApiConnect
  BY <1>1 DEF OnModuleInit, ApiConnect, ConnectFrom
<1>2. CASE ApiDisconnect \/ OnModuleDestroy \/ OnApplicationShutdown
  BY <1>2 DEF ApiDisconnect, OnModuleDestroy, OnApplicationShutdown, DisconnectFrom
<1>3. CASE ReconnectTimer
  BY <1>3 DEF ReconnectTimer
<1>4. ASSUME NEW c \in Clients, Accepted(c) \/ Refused(c) \/ EndDone(c)
      PROVE  ClientStep
  BY <1>4 DEF Accepted, Refused, EndDone
<1>5. ASSUME NEW c \in Clients,
             ClosedSilently(c) \/ Dialled(c) \/ Lost(c) \/ Evicted(c) \/ Severed(c)
      PROVE  ClientStep
  BY <1>5 DEF ClosedSilently, Dialled, Lost, Evicted, Severed
<1>6. CASE UNCHANGED vars
  BY <1>6 DEF vars
<1> QED
  BY <1>1, <1>2, <1>3, <1>4, <1>5, <1>6 DEF Next, WiredNext

(* The continuations of an awaited connect() keep the service typed.       *)
LEMMA ContinuationType ==
  ASSUME TypeOK, NEW caller \in Callers \cup {"none"},
         OnResolved(caller) \/ OnRejected(caller)
  PROVE  /\ status' \in Statuses
         /\ attempt' \in Nat
         /\ timerArmed' \in BOOLEAN
         /\ strays' \in Nat
         /\ boot' \in Boots
<1> USE DEF TypeOK, chainVars, InitReturns
<1>1. CASE OnResolved(caller)
  BY <1>1 DEF OnResolved
<1>2. CASE OnRejected(caller)
  <2>1. CASE caller = "none"
    BY <1>2, <2>1 DEF OnRejected
  <2>2. CASE caller # "none"
    <3>1. ScheduleReconnection(IF caller = "timer" THEN "RECONNECTING" ELSE "DISCONNECTED")
      BY <1>2, <2>2, Zenon DEF OnRejected
    <3>2. timerArmed' \in BOOLEAN
      BY <3>1, Zenon DEF ScheduleReconnection
    <3>3. status' \in Statuses /\ strays' \in Nat
      BY <3>1 DEF ScheduleReconnection
    <3> QED
      BY <1>2, <2>2, <3>2, <3>3 DEF OnRejected
  <2> QED
    BY <2>1, <2>2
<1> QED
  BY <1>1, <1>2

LEMMA DisconnectType ==
  ASSUME TypeOK, NEW k \in Closers, DisconnectFrom(k)
  PROVE  /\ status' \in Statuses
         /\ attempt' \in Nat
         /\ timerArmed' \in BOOLEAN
         /\ strays' \in Nat
         /\ phase' \in Phases
BY DEF TypeOK, DisconnectFrom, PhaseAfter, PhaseDuring

LEMMA ConnectType ==
  ASSUME TypeOK, NEW caller \in Callers, ConnectFrom(caller)
  PROVE  /\ status' \in Statuses
         /\ attempt' \in Nat
         /\ timerArmed' \in BOOLEAN
         /\ strays' \in Nat
BY DEF TypeOK, ConnectFrom

(* Every step keeps every variable in its type.                            *)
LEMMA TypeStep == TypeOK /\ [Next]_vars => TypeOK'
<1> SUFFICES ASSUME TypeOK, [Next]_vars
             PROVE  TypeOK'
  OBVIOUS
<1>0. ClientTypeOK'
  BY NextIsClientStep, ClientStepType DEF TypeOK
<1>1. CASE OnModuleInit
  BY <1>0, <1>1, ConnectType DEF TypeOK, OnModuleInit
<1>2. CASE ApiConnect
  BY <1>0, <1>2, ConnectType, CallsAssumption DEF TypeOK, ApiConnect, ApiCall, lifeVars
<1>3. CASE ApiDisconnect
  BY <1>0, <1>3, DisconnectType, CallsAssumption DEF TypeOK, ApiDisconnect, ApiCall
<1>4. CASE OnModuleDestroy
  BY <1>0, <1>4, DisconnectType DEF TypeOK, OnModuleDestroy
<1>5. CASE OnApplicationShutdown
  BY <1>0, <1>5, DisconnectType DEF TypeOK, OnApplicationShutdown
<1>6. CASE ReconnectTimer
  <2>1. timerArmed' \in BOOLEAN
    BY <1>6, Zenon DEF TypeOK, ReconnectTimer, TakeTimer
  <2>2. strays' \in Nat
    BY <1>6 DEF TypeOK, ReconnectTimer, TakeTimer
  <2> QED
    BY <1>0, <1>6, <2>1, <2>2 DEF TypeOK, ReconnectTimer, lifeVars
<1>7. ASSUME NEW c \in Clients, Accepted(c) \/ Refused(c)
      PROVE  TypeOK'
  <2>1. awaited[c] \in Callers \cup {"none"}
    BY DEF TypeOK, ClientTypeOK
  <2> QED
    BY <1>0, <1>7, <2>1, ContinuationType DEF TypeOK, Accepted, Refused
<1>8. ASSUME NEW c \in Clients,
             ClosedSilently(c) \/ Dialled(c) \/ Lost(c) \/ Evicted(c) \/ Severed(c)
      PROVE  TypeOK'
  BY <1>0, <1>8 DEF TypeOK, ClosedSilently, Dialled, Lost, Evicted, Severed, chainVars, lifeVars
<1>9. ASSUME NEW c \in Clients, EndDone(c)
      PROVE  TypeOK'
  BY <1>0, <1>9 DEF TypeOK, EndDone, PhaseAfter
<1>10. CASE UNCHANGED vars
  BY <1>0, <1>10 DEF TypeOK, vars, chainVars, lifeVars
<1> QED
  BY <1>1, <1>2, <1>3, <1>4, <1>5, <1>6, <1>7, <1>8, <1>9, <1>10 DEF Next, WiredNext

LEMMA TypeInit == Init => TypeOK
<1> SUFFICES ASSUME Init PROVE TypeOK
  OBVIOUS
<1>1. ClientTypeOK
  BY DEF Init, ClientInit, ClientTypeOK
<1>2. calls \in 0..ControllerCalls
  BY CallsAssumption DEF Init
<1>3. timerArmed \in BOOLEAN
  BY Zenon DEF Init
<1> QED
  BY <1>1, <1>2, <1>3 DEF Init, TypeOK

(* Type correctness, for every number of endpoint calls.                   *)
THEOREM TypeCorrect == Spec => []TypeOK
  BY TypeInit, TypeStep, PTL DEF Spec

-----------------------------------------------------------------------------
(* What holds whatever the endpoints do.                                   *)

(* NoStrandedAwait and FieldNotEnded together are preserved by every       *)
(* operation of the client module, whoever calls it and when.              *)
LEMMA ClientStepSound ==
  ASSUME ClientTypeOK, NoStrandedAwait, FieldNotEnded, ClientStep
  PROVE  NoStrandedAwait' /\ FieldNotEnded'
<1> USE ClientsAssumption DEF ClientTypeOK, NoStrandedAwait, FieldNotEnded
<1>1. CASE \E c \in Clients, caller \in Callers : Open(c, caller)
  BY <1>1 DEF Open
<1>2. CASE \E c \in Clients : Accept(c)
  BY <1>2 DEF Accept
<1>3. CASE \E c \in Clients : Refuse(c)
  BY <1>3 DEF Refuse
<1>4. CASE \E c \in Clients : DropSilently(c)
  BY <1>4 DEF DropSilently
<1>5. CASE \E c \in Clients : Dial(c)
  BY <1>5 DEF Dial
<1>6. CASE \E c \in Clients : Break(c)
  BY <1>6 DEF Break
<1>7. CASE \E c \in Clients : EndCallback(c)
  BY <1>7 DEF EndCallback
<1>8. CASE \E k \in Closers : BeginEnd(k)
  BY <1>8 DEF BeginEnd
<1>9. CASE Release
  BY <1>9 DEF Release
<1>10. CASE \E c \in Clients : Sever(c)
  BY <1>10 DEF Sever
<1>11. CASE UNCHANGED clientVars
  BY <1>11 DEF clientVars
<1> QED
  BY <1>1, <1>2, <1>3, <1>4, <1>5, <1>6, <1>7, <1>8, <1>9, <1>10, <1>11 DEF ClientStep

(* No pending connect() or end() is ever left without a callback to come,  *)
(* and the field never holds a client that was ended.                      *)
THEOREM NoAwaitIsStranded == Spec => [](NoStrandedAwait /\ FieldNotEnded)
<1> DEFINE Inv == TypeOK /\ NoStrandedAwait /\ FieldNotEnded
<1>1. Init => Inv
  <2>1. Init => TypeOK
    BY TypeInit
  <2> QED
    BY <2>1 DEF Init, ClientInit, NoStrandedAwait, FieldNotEnded
<1>2. Inv /\ [Next]_vars => Inv'
  BY TypeStep, NextIsClientStep, ClientStepSound DEF TypeOK
<1> QED
  BY <1>1, <1>2, PTL DEF Spec

(* The field `client` never holds a client that was ended, whoever calls   *)
(* disconnect() and connect() and however often.                           *)
COROLLARY FieldNeverEnded == Spec => []FieldNotEnded
  BY NoAwaitIsStranded, PTL

(* RECONNECTING is never a dead end, however the calls of the endpoints    *)
(* interleave with the chain.                                              *)
LEMMA DrivenStep == TypeOK /\ ReconnectingIsDriven /\ [Next]_vars => ReconnectingIsDriven'
<1> SUFFICES ASSUME TypeOK, ReconnectingIsDriven, [Next]_vars
             PROVE  ReconnectingIsDriven'
  OBVIOUS
<1> USE DEF ReconnectingIsDriven
<1>1. CASE OnModuleInit \/ ApiConnect
  <2>1. PICK caller \in Callers : ConnectFrom(caller)
    BY <1>1 DEF OnModuleInit, ApiConnect
  <2>2. CASE status' = "CONNECTED"
    BY <2>2
  <2>3. CASE \E c \in Clients : Open(c, caller)
    BY <2>3 DEF Open, TypeOK, ClientTypeOK
  <2> QED
    BY <2>1, <2>2, <2>3 DEF ConnectFrom
<1>2. CASE ApiDisconnect \/ OnModuleDestroy \/ OnApplicationShutdown
  <2>1. PICK k \in Closers : DisconnectFrom(k)
    BY <1>2 DEF ApiDisconnect, OnModuleDestroy, OnApplicationShutdown
  <2>2. CASE BeginEnd(k)
    BY <2>2 DEF BeginEnd, TypeOK, ClientTypeOK
  <2>3. CASE status' = "DISCONNECTED"
    BY <2>3
  <2> QED
    BY <2>1, <2>2, <2>3 DEF DisconnectFrom
<1>3. CASE ReconnectTimer
  <2>1. CASE status' = "CONNECTED"
    BY <2>1
  <2>2. CASE \E c \in Clients : Open(c, "timer")
    BY <2>2 DEF Open, TypeOK, ClientTypeOK
  <2> QED
    BY <1>3, <2>1, <2>2 DEF ReconnectTimer
<1>4. ASSUME NEW c \in Clients, Accepted(c)
      PROVE  ReconnectingIsDriven'
  BY <1>4 DEF Accepted, Accept, OnResolved, chainVars, TypeOK, ClientTypeOK
<1>5. ASSUME NEW c \in Clients, Refused(c)
      PROVE  ReconnectingIsDriven'
  <2>1. CASE awaited[c] = "none"
    BY <1>5, <2>1 DEF Refused, Refuse, OnRejected, chainVars, TypeOK, ClientTypeOK
  <2>2. CASE awaited[c] # "none"
    <3>1. timerArmed' = TRUE \/ status' = "FAILED"
      BY <1>5, <2>2 DEF Refused, OnRejected, ScheduleReconnection
    <3> QED
      BY <3>1
  <2> QED
    BY <2>1, <2>2
<1>6. ASSUME NEW c \in Clients,
             ClosedSilently(c) \/ Dialled(c) \/ Lost(c) \/ Evicted(c) \/ Severed(c)
      PROVE  ReconnectingIsDriven'
  BY <1>6 DEF ClosedSilently, Dialled, Lost, Evicted, Severed, DropSilently, Dial, Break, Sever,
              chainVars, TypeOK, ClientTypeOK
<1>7. ASSUME NEW c \in Clients, EndDone(c)
      PROVE  ReconnectingIsDriven'
  BY <1>7 DEF EndDone
<1>8. CASE UNCHANGED vars
  BY <1>8 DEF vars, chainVars, clientVars
<1> QED
  BY <1>1, <1>2, <1>3, <1>4, <1>5, <1>6, <1>7, <1>8 DEF Next, WiredNext

THEOREM ReconnectingAlwaysDriven == Spec => []ReconnectingIsDriven
<1>1. Init => ReconnectingIsDriven
  BY DEF Init, ReconnectingIsDriven
<1> QED
  BY <1>1, TypeCorrect, DrivenStep, PTL DEF Spec

-----------------------------------------------------------------------------
(* The boot and the shutdown hooks wait for something that will come.      *)

(* Before the boot no timer runs and no client exists.                     *)
PendingIsFresh == boot = "pending" => ~timerArmed /\ strays = 0 /\ Used = {}

(* A continuation of c that leaves the boot where it is does not answer    *)
(* the boot; and nothing makes the boot wait but its hook.                 *)
LEMMA BootSteps ==
  ASSUME TypeOK, NoStrandedAwait, PendingIsFresh, [Next]_vars
  PROVE  /\ boot' = "pending" => boot = "pending"
         /\ boot' = "awaiting" =>
              \/ boot = "pending" /\ \E c \in Clients : awaited'[c] = "init"
              \/ /\ boot = "awaiting"
                 /\ \A c \in Clients : awaited[c] = "init" => awaited'[c] = "init"
<1>0. ClientTypeOK
  BY DEF TypeOK
<1> USE <1>0 DEF ClientTypeOK
<1>1. CASE OnModuleInit
  <2>1. ~ClientConnected
    BY <1>1 DEF OnModuleInit, PendingIsFresh, ClientConnected, Connected, Used
  <2>2. PICK c \in Clients : Open(c, "init")
    BY <1>1, <2>1 DEF OnModuleInit, ConnectFrom
  <2>3. awaited'[c] = "init"
    BY <2>2 DEF Open
  <2> QED
    BY <1>1, <2>3 DEF OnModuleInit
<1>2. CASE ApiConnect \/ ReconnectTimer
  <2>1. boot' = boot
    BY <1>2 DEF ApiConnect, ReconnectTimer, lifeVars
  <2>2. \/ awaited' = awaited
        \/ \E d \in Clients, k \in Callers :
             conn[d] = "unused" /\ awaited' = [awaited EXCEPT ![d] = k]
    BY <1>2 DEF ApiConnect, ConnectFrom, ReconnectTimer, Open, clientVars, Callers
  <2>3. \A c \in Clients : awaited[c] = "init" => conn[c] # "unused"
    BY DEF NoStrandedAwait
  <2>4. \A c \in Clients : awaited[c] = "init" => awaited'[c] = "init"
    BY <2>2, <2>3
  <2>5. boot = "awaiting" \/ boot = "pending" \/ boot = "returned"
    BY DEF TypeOK, Boots
  <2> QED
    BY <2>1, <2>4, <2>5
<1>3. CASE ApiDisconnect \/ OnModuleDestroy \/ OnApplicationShutdown
  BY <1>3 DEF ApiDisconnect, OnModuleDestroy, OnApplicationShutdown, DisconnectFrom, BeginEnd, Release
<1>4. ASSUME NEW c \in Clients, Accepted(c) \/ Refused(c)
      PROVE  /\ boot' = boot \/ boot' = "returned"
             /\ boot' = "awaiting" =>
                  \A d \in Clients : awaited[d] = "init" => awaited'[d] = "init"
  <2>1. awaited' = [awaited EXCEPT ![c] = "none"]
    BY <1>4 DEF Accepted, Accept, Refused, Refuse
  <2>2. IF awaited[c] = "init" THEN boot' = "returned" ELSE boot' = boot
    BY <1>4 DEF Accepted, OnResolved, Refused, OnRejected, InitReturns
  <2> QED
    BY <2>1, <2>2
<1>5. ASSUME NEW c \in Clients,
             ClosedSilently(c) \/ Dialled(c) \/ Lost(c) \/ Evicted(c) \/ Severed(c) \/ EndDone(c)
      PROVE  UNCHANGED <<boot, awaited>>
  BY <1>5 DEF ClosedSilently, Dialled, Lost, Evicted, Severed, EndDone,
              DropSilently, Dial, Break, Sever, EndCallback, lifeVars
<1>6. CASE UNCHANGED vars
  BY <1>6 DEF vars, clientVars, lifeVars
<1> QED
  BY <1>1, <1>2, <1>3, <1>4, <1>5, <1>6 DEF Next, WiredNext

LEMMA FreshStep ==
  ASSUME TypeOK, NoStrandedAwait, PendingIsFresh, [Next]_vars
  PROVE  PendingIsFresh'
<1> SUFFICES ASSUME boot' = "pending" PROVE ~timerArmed' /\ strays' = 0 /\ Used' = {}
  BY DEF PendingIsFresh
<1>0. ClientTypeOK /\ boot = "pending" /\ ~timerArmed /\ strays = 0 /\ Used = {}
  BY BootSteps DEF TypeOK, PendingIsFresh
<1>1. \A c \in Clients : conn[c] = "unused"
  BY <1>0 DEF Used
<1>2. CASE OnModuleInit \/ ApiConnect \/ ApiDisconnect
  BY <1>0, <1>2 DEF OnModuleInit, ApiConnect, ApiDisconnect, ApiCall, Serving
<1>3. CASE ReconnectTimer
  BY <1>0, <1>3 DEF ReconnectTimer, TakeTimer
<1>4. CASE OnModuleDestroy \/ OnApplicationShutdown
  BY <1>0, <1>1, <1>4 DEF OnModuleDestroy, OnApplicationShutdown, DisconnectFrom, BeginEnd,
                          Release, Used, ClientTypeOK
<1>5. ASSUME NEW c \in Clients,
             \/ Accepted(c) \/ Refused(c) \/ ClosedSilently(c) \/ Dialled(c)
             \/ Lost(c) \/ Evicted(c) \/ Severed(c) \/ EndDone(c)
      PROVE  FALSE
  BY <1>1, <1>5 DEF Accepted, Refused, ClosedSilently, Dialled, Lost, Evicted, Severed, EndDone,
                    Accept, Refuse, DropSilently, Dial, Break, Sever, EndCallback
<1>6. CASE UNCHANGED vars
  BY <1>0, <1>6 DEF vars, clientVars, chainVars, Used
<1> QED
  BY <1>2, <1>3, <1>4, <1>5, <1>6 DEF Next, WiredNext

(* The phase in which a hook waits for the end() it began.                 *)
WaitsFor(p, k) == <<p, k>> \in {<<"destroying", "destroy">>, <<"stopping", "shutdown">>}

(* Such a phase begins with an end() of its hook, and goes on as long as   *)
(* that one has not called back.                                           *)
LEMMA PhaseSteps ==
  ASSUME TypeOK, NoStrandedAwait, [Next]_vars,
         NEW p, NEW k, WaitsFor(p, k), phase' = p
  PROVE  \/ \E c \in Clients : closer'[c] = k
         \/ /\ phase = p
            /\ \A c \in Clients : closer[c] = k => closer'[c] = k
<1>0. ClientTypeOK
  BY DEF TypeOK
<1> USE <1>0 DEF ClientTypeOK, WaitsFor
<1>1. ASSUME NEW j \in Closers, DisconnectFrom(j), phase' # phase \/ j = "api"
      PROVE  \/ \E c \in Clients : closer'[c] = k
             \/ phase = p /\ \A c \in Clients : closer[c] = k => closer'[c] = k
  <2>1. CASE Release
    <3>1. phase' = PhaseAfter(j) \/ phase' = phase
      BY <1>1, <2>1, ClientsAssumption DEF DisconnectFrom, BeginEnd, Release
    <3>2. phase' = phase
      BY <1>1, <3>1 DEF PhaseAfter, Closers
    <3> QED
      BY <2>1, <3>2 DEF Release
  <2>2. CASE BeginEnd(j) /\ phase' = PhaseDuring(j)
    <3>1. closer' = [closer EXCEPT ![client] = j] /\ client \in Clients /\ conn[client] = "connected"
      BY <2>2 DEF BeginEnd
    <3>2. closer[client] = "none"
      BY <3>1 DEF NoStrandedAwait
    <3>3. CASE j = k
      BY <3>1, <3>3
    <3>4. CASE j # k
      <4>1. phase = p
        BY <1>1, <2>2, <3>4 DEF PhaseDuring, Closers
      <4>2. k # "none"
        OBVIOUS
      <4> QED
        BY <3>1, <3>2, <4>1, <4>2
    <3> QED
      BY <3>3, <3>4
  <2> QED
    BY <1>1, <2>1, <2>2 DEF DisconnectFrom
<1>2. CASE OnModuleDestroy
  <2>1. DisconnectFrom("destroy") /\ phase = "up"
    BY <1>2 DEF OnModuleDestroy
  <2>2. phase' # phase
    BY <2>1
  <2> QED
    BY <1>1, <2>1, <2>2 DEF Closers
<1>3. CASE OnApplicationShutdown
  <2>1. DisconnectFrom("shutdown") /\ phase = "destroyed"
    BY <1>3 DEF OnApplicationShutdown
  <2>2. phase' # phase
    BY <2>1
  <2> QED
    BY <1>1, <2>1, <2>2 DEF Closers
<1>4. CASE ApiDisconnect
  BY <1>1, <1>4 DEF ApiDisconnect, Closers
<1>5. CASE OnModuleInit \/ ApiConnect \/ ReconnectTimer
  BY <1>5 DEF OnModuleInit, ApiConnect, ReconnectTimer, ConnectFrom, Open, clientVars, lifeVars
<1>6. ASSUME NEW c \in Clients,
             Accepted(c) \/ Refused(c) \/ ClosedSilently(c) \/ Dialled(c) \/ Lost(c) \/ Evicted(c) \/ Severed(c)
      PROVE  UNCHANGED <<phase, closer>>
  BY <1>6 DEF Accepted, Refused, ClosedSilently, Dialled, Lost, Evicted, Severed,
              Accept, Refuse, DropSilently, Dial, Break, Sever, lifeVars
<1>7. ASSUME NEW c \in Clients, EndDone(c)
      PROVE  phase = p /\ \A d \in Clients : closer[d] = k => closer'[d] = k
  <2>1. /\ phase' = PhaseAfter(closer[c])
        /\ closer' = [closer EXCEPT ![c] = "none"]
        /\ closer[c] # "none"
    BY <1>7 DEF EndDone, EndCallback, NoStrandedAwait
  <2>2. closer[c] # k /\ phase = p
    BY <2>1 DEF PhaseAfter
  <2> QED
    BY <2>1, <2>2
<1>8. CASE UNCHANGED vars
  BY <1>8 DEF vars, clientVars, lifeVars
<1> QED
  BY <1>2, <1>3, <1>4, <1>5, <1>6, <1>7, <1>8 DEF Next, WiredNext

LEMMA WaitsStep ==
  ASSUME TypeOK, NoStrandedAwait, PendingIsFresh, WaitsAreDriven, [Next]_vars
  PROVE  WaitsAreDriven'
<1>1. boot' = "awaiting" => \E c \in Clients : awaited'[c] = "init"
  BY BootSteps DEF WaitsAreDriven
<1>2. phase' = "destroying" => \E c \in Clients : closer'[c] = "destroy"
  BY PhaseSteps DEF WaitsAreDriven, WaitsFor
<1>3. phase' = "stopping" => \E c \in Clients : closer'[c] = "shutdown"
  BY PhaseSteps DEF WaitsAreDriven, WaitsFor
<1> QED
  BY <1>1, <1>2, <1>3 DEF WaitsAreDriven

LEMMA WaitsInit == Init => PendingIsFresh /\ WaitsAreDriven
BY DEF Init, ClientInit, PendingIsFresh, WaitsAreDriven, Used

(* However calls, faults and signals interleave, onModuleInit() awaits a   *)
(* promise that is still pending and a hook of the shutdown an end() that  *)
(* is under way: neither waits for a callback that will never come.        *)
THEOREM WaitsAlwaysDriven == Spec => [](WaitsAreDriven /\ NoStrandedAwait)
<1> DEFINE Inv == TypeOK /\ NoStrandedAwait /\ FieldNotEnded
           Waits == PendingIsFresh /\ WaitsAreDriven
<1>1. Spec => []Inv
  BY TypeCorrect, NoAwaitIsStranded, PTL
<1>2. Inv /\ Waits /\ [Next]_vars => Waits'
  BY FreshStep, WaitsStep
<1>3. Init => Waits
  BY WaitsInit
<1>4. Inv /\ Waits => WaitsAreDriven /\ NoStrandedAwait
  OBVIOUS
<1> HIDE DEF Inv, Waits
<1> QED
  BY <1>1, <1>2, <1>3, <1>4, PTL DEF Spec

-----------------------------------------------------------------------------
(* The application as AppModule wires it: nobody calls the endpoints.      *)

LEMMA NoEndpoints ==
  ASSUME ControllerCalls = 0, TypeOK
  PROVE  ~ApiConnect /\ ~ApiDisconnect
BY DEF TypeOK, ApiConnect, ApiDisconnect, ApiCall

(* There is one chain; before the boot and after FAILED there is none.     *)
LEMMA ShapeStep ==
  ASSUME ControllerCalls = 0, TypeOK, SingleRetryChain, ChainShape, [Next]_vars
  PROVE  SingleRetryChain' /\ ChainShape'
<1> USE DEF SingleRetryChain, ChainShape, ChainIdle
<1>1. CASE OnModuleInit
  <2>1. ChainIdle /\ timerArmed' = FALSE /\ strays' = 0
    BY <1>1 DEF OnModuleInit, ConnectFrom, TypeOK
  <2>2. status' # "FAILED" /\ boot' # "pending"
    BY <1>1 DEF OnModuleInit, ConnectFrom
  <2>3. \A c, d \in Clients : awaited'[c] # "none" /\ awaited'[d] # "none" => c = d
    BY <1>1, <2>1 DEF OnModuleInit, ConnectFrom, Open, clientVars, TypeOK, ClientTypeOK
  <2> QED
    BY <2>1, <2>2, <2>3
<1>2. CASE OnModuleDestroy \/ OnApplicationShutdown
  <2>1. PICK k \in Closers : DisconnectFrom(k)
    BY <1>2 DEF OnModuleDestroy, OnApplicationShutdown
  <2>2. timerArmed' = FALSE /\ strays' = 0 /\ UNCHANGED awaited
    BY <2>1 DEF DisconnectFrom, BeginEnd, Release
  <2>3. boot' = boot /\ Used' = Used
    BY <1>2, <2>1 DEF OnModuleDestroy, OnApplicationShutdown, DisconnectFrom, BeginEnd, Release,
                      Used, TypeOK, ClientTypeOK
  <2>4. status' \in {status, "DISCONNECTED"}
    BY <2>1 DEF DisconnectFrom
  <2> QED
    BY <2>2, <2>3, <2>4
<1>3. CASE ReconnectTimer
  <2>1. timerArmed /\ timerArmed' = FALSE /\ strays' = 0
    BY <1>3 DEF ReconnectTimer, TakeTimer, TypeOK
  <2>2. status' # "FAILED" /\ boot' # "pending"
    BY <1>3, <2>1 DEF ReconnectTimer, lifeVars
  <2>3. \A c, d \in Clients : awaited'[c] # "none" /\ awaited'[d] # "none" => c = d
    BY <1>3, <2>1 DEF ReconnectTimer, Open, clientVars, TypeOK, ClientTypeOK
  <2> QED
    BY <2>1, <2>2, <2>3
<1>4. ASSUME NEW c \in Clients, Accepted(c) \/ Refused(c)
      PROVE  SingleRetryChain' /\ ChainShape'
  <2>1. awaited' = [awaited EXCEPT ![c] = "none"] /\ boot # "pending"
    BY <1>4 DEF Accepted, Accept, Refused, Refuse, Used
  <2>2. CASE awaited[c] = "none"
    <3>1. UNCHANGED <<chainVars, boot, awaited>>
      BY <1>4, <2>1, <2>2 DEF Accepted, OnResolved, Refused, OnRejected, TypeOK, ClientTypeOK
    <3> QED
      BY <2>1, <3>1 DEF chainVars
  <2>3. CASE awaited[c] # "none"
    <3>1. \A d \in Clients : awaited'[d] = "none"
      BY <2>1, <2>3 DEF TypeOK, ClientTypeOK
    <3>2. timerArmed = FALSE /\ strays = 0
      BY <2>3 DEF TypeOK
    <3>3. /\ strays' = 0
          /\ status' = "FAILED" => timerArmed' = FALSE
          /\ boot' # "pending"
      BY <1>4, <2>1, <2>3, <3>2
      DEF Accepted, OnResolved, Refused, OnRejected, ScheduleReconnection, InitReturns
    <3> QED
      BY <3>1, <3>3
  <2> QED
    BY <2>2, <2>3
<1>5. ASSUME NEW c \in Clients,
             ClosedSilently(c) \/ Dialled(c) \/ Lost(c) \/ Evicted(c) \/ Severed(c)
      PROVE  SingleRetryChain' /\ ChainShape'
  <2>1. UNCHANGED <<chainVars, awaited, boot>>
    BY <1>5 DEF ClosedSilently, Dialled, Lost, Evicted, Severed, DropSilently, Dial, Break, Sever, lifeVars
  <2>2. boot # "pending"
    BY <1>5 DEF ClosedSilently, Dialled, Lost, Evicted, Severed, DropSilently, Dial, Break, Sever, Used
  <2> QED
    BY <2>1, <2>2 DEF chainVars
<1>6. ASSUME NEW c \in Clients, EndDone(c)
      PROVE  SingleRetryChain' /\ ChainShape'
  <2>1. UNCHANGED <<timerArmed, strays, awaited>> /\ status' = "DISCONNECTED"
    BY <1>6 DEF EndDone, EndCallback
  <2>2. boot' # "pending"
    BY <1>6 DEF EndDone, EndCallback, Used
  <2> QED
    BY <2>1, <2>2
<1>7. CASE UNCHANGED vars
  BY <1>7 DEF vars, chainVars, clientVars, lifeVars, Used
<1> QED
  BY <1>1, <1>2, <1>3, <1>4, <1>5, <1>6, <1>7, NoEndpoints DEF Next, WiredNext

LEMMA ShapeInit == Init => SingleRetryChain /\ ChainShape
BY DEF Init, ClientInit, SingleRetryChain, ChainShape, ChainIdle, Used

(* As wired, at most one attempt or timer is ever pending.                 *)
THEOREM OneRetryChain ==
  ASSUME ControllerCalls = 0
  PROVE  Spec => [](SingleRetryChain /\ ChainShape)
<1>1. TypeOK /\ SingleRetryChain /\ ChainShape /\ [Next]_vars => (SingleRetryChain /\ ChainShape)'
  BY ShapeStep
<1> QED
  BY <1>1, TypeCorrect, ShapeInit, PTL DEF Spec

(* A client is created by Open and by nothing else.                        *)
LEMMA OpenUses ==
  ASSUME ClientTypeOK, NEW c \in Clients, NEW caller \in Callers, Open(c, caller)
  PROVE  c \notin Used /\ Used' = Used \cup {c}
BY DEF ClientTypeOK, Open, Used

LEMMA OpenCounts ==
  ASSUME ClientTypeOK, NEW c \in Clients, NEW caller \in Callers, Open(c, caller),
         IsFiniteSet(Used)
  PROVE  /\ IsFiniteSet(Used')
         /\ Cardinality(Used) \in Nat
         /\ Cardinality(Used') = Cardinality(Used) + 1
BY OpenUses, FS_AddElement, FS_CardinalityType

LEMMA OthersUseNone ==
  ASSUME ClientTypeOK, ClientStep,
         ~\E c \in Clients, caller \in Callers : Open(c, caller)
  PROVE  Used' = Used
<1> USE DEF ClientTypeOK, Used
<1>1. ASSUME NEW c \in Clients,
             Accept(c) \/ Refuse(c) \/ DropSilently(c) \/ Dial(c) \/ Break(c) \/ EndCallback(c) \/ Sever(c)
      PROVE  Used' = Used
  BY <1>1 DEF Accept, Refuse, DropSilently, Dial, Break, Sever, EndCallback
<1>2. CASE \E k \in Closers : BeginEnd(k)
  BY <1>2 DEF BeginEnd
<1>3. CASE Release \/ UNCHANGED clientVars
  BY <1>3 DEF Release, clientVars
<1> QED
  BY <1>1, <1>2, <1>3 DEF ClientStep

(* A process that has had one client at most.                              *)
SingleClient == \A c, d \in Used : c = d

(* Once created, a client stays used.                                      *)
LEMMA UsedGrows ==
  ASSUME ClientTypeOK, ClientStep
  PROVE  /\ Used \subseteq Used'
         /\ SingleClient' => SingleClient
<1>1. Used \subseteq Used'
  BY OpenUses, OthersUseNone
<1> QED
  BY <1>1 DEF SingleClient

(* Every client but a finite number is unused.                             *)
LEMMA UsedFinite ==
  ASSUME ClientTypeOK, IsFiniteSet(Used), ClientStep
  PROVE  IsFiniteSet(Used')
  BY OpenCounts, OthersUseNone

LEMMA SingleByCount ==
  ASSUME IsFiniteSet(Used), Cardinality(Used) =< 1
  PROVE  SingleClient
<1> SUFFICES ASSUME NEW c \in Used, NEW d \in Used, c # d PROVE FALSE
  BY DEF SingleClient
<1>1. IsFiniteSet({c}) /\ Cardinality({c}) = 1
  BY FS_Singleton
<1>2. Cardinality({c} \cup {d}) = 2
  BY <1>1, FS_AddElement
<1>3. Cardinality({c} \cup {d}) =< Cardinality(Used)
  BY FS_Subset
<1>4. Cardinality(Used) \in Nat
  BY FS_CardinalityType
<1> QED
  BY <1>2, <1>3, <1>4

Counted == ChainCount /\ ClientBudget /\ FailedMeansExhausted

(* Each attempt of the chain creates one client and is counted once.       *)
LEMMA CountStep ==
  ASSUME ControllerCalls = 0, TypeOK, SingleRetryChain, ChainShape, Counted, [Next]_vars
  PROVE  Counted'
<1> USE RetryAssumption
    DEF Counted, ChainCount, ClientBudget, FailedMeansExhausted, ShouldReconnect
<1>0. Cardinality(Used) \in Nat /\ ClientTypeOK /\ attempt \in Nat
  BY FS_CardinalityType DEF TypeOK
<1>1. CASE OnModuleInit
  <2>1. ChainIdle /\ Used = {} /\ ~ClientConnected
    BY <1>1 DEF OnModuleInit, ChainShape, TypeOK, ClientTypeOK, ClientConnected,
                Connected, Used
  <2>2. PICK c \in Clients : Open(c, "init")
    BY <1>1, <2>1 DEF OnModuleInit, ConnectFrom
  <2>3. /\ attempt' = 0 /\ timerArmed' = FALSE /\ status' # "FAILED"
    BY <1>1, <2>1, <2>2 DEF OnModuleInit, ConnectFrom, Open, ChainIdle, TypeOK
  <2>4. IsFiniteSet(Used') /\ Cardinality(Used') = 1
    BY <1>0, <2>1, <2>2, OpenCounts, FS_EmptySet
  <2> QED
    BY <2>3, <2>4
<1>2. CASE ReconnectTimer
  <2>1. timerArmed /\ timerArmed' = FALSE
    BY <1>2 DEF ReconnectTimer, TakeTimer, SingleRetryChain, TypeOK
  <2>2. Cardinality(Used) = attempt + 1 /\ attempt < RetryAttempts /\ status # "FAILED"
    BY <2>1 DEF ChainIdle, ChainShape
  <2>3. CASE \E c \in Clients : Open(c, "timer") /\ attempt' = attempt + 1 /\ UNCHANGED status
    <3>1. IsFiniteSet(Used') /\ Cardinality(Used') = Cardinality(Used) + 1
      BY <1>0, <2>3, OpenCounts
    <3> QED
      BY <1>0, <2>1, <2>2, <2>3, <3>1
  <2>4. CASE UNCHANGED clientVars /\ status' = "CONNECTED"
    <3>1. Used' = Used /\ ChainIdle'
      BY <2>1, <2>4 DEF clientVars, Used, SingleRetryChain, ChainIdle
    <3> QED
      BY <1>0, <2>1, <2>2, <2>4, <3>1
  <2> QED
    BY <1>2, <2>3, <2>4 DEF ReconnectTimer
<1>3. CASE OnModuleDestroy \/ OnApplicationShutdown
  <2>1. PICK k \in Closers : DisconnectFrom(k)
    BY <1>3 DEF OnModuleDestroy, OnApplicationShutdown
  <2>2. timerArmed' = FALSE /\ UNCHANGED <<attempt, awaited>>
        /\ status' \in {status, "DISCONNECTED"}
    BY <2>1 DEF DisconnectFrom, BeginEnd, Release
  <2>3. Used' = Used
    BY <2>1 DEF DisconnectFrom, BeginEnd, Release, Used, TypeOK, ClientTypeOK
  <2>4. ~ChainIdle' => ~ChainIdle
    BY <2>2 DEF ChainIdle
  <2> QED
    BY <1>0, <2>2, <2>3, <2>4
<1>4. ASSUME NEW c \in Clients, Accepted(c) \/ Refused(c)
      PROVE  Counted'
  <2>1. awaited' = [awaited EXCEPT ![c] = "none"] /\ Used' = Used
    BY <1>0, <1>4 DEF Accepted, Accept, Refused, Refuse, Used, ClientTypeOK
  <2>2. CASE awaited[c] = "none"
    <3>1. UNCHANGED <<chainVars, awaited>>
      BY <1>4, <2>1, <2>2 DEF Accepted, OnResolved, Refused, OnRejected, TypeOK, ClientTypeOK
    <3> QED
      BY <2>1, <3>1 DEF chainVars, ChainIdle
  <2>3. CASE awaited[c] # "none"
    <3>1. ~timerArmed /\ Cardinality(Used) = attempt + 1 /\ attempt =< RetryAttempts
      BY <2>3 DEF SingleRetryChain, ChainIdle
    <3>2. \A d \in Clients : awaited'[d] = "none"
      BY <2>1, <2>3 DEF SingleRetryChain, TypeOK, ClientTypeOK
    <3>3. CASE Accepted(c)
      <4>1. ChainIdle' /\ status' = "CONNECTED" /\ ~timerArmed'
        BY <2>3, <3>1, <3>2, <3>3 DEF Accepted, OnResolved, ChainIdle
      <4> QED
        BY <1>0, <2>1, <4>1
    <3>4. CASE Refused(c) /\ attempt < RetryAttempts
      <4>1. timerArmed' /\ attempt' = attempt /\ status' # "FAILED"
        BY <2>3, <3>4 DEF Refused, OnRejected, ScheduleReconnection
      <4> QED
        BY <1>0, <2>1, <3>1, <3>4, <4>1
    <3>5. CASE Refused(c) /\ ~(attempt < RetryAttempts)
      <4>1. ~timerArmed' /\ attempt' = attempt
        BY <2>3, <3>1, <3>5 DEF Refused, OnRejected, ScheduleReconnection
      <4>2. ChainIdle' /\ Cardinality(Used) = RetryAttempts + 1
        BY <1>0, <3>1, <3>2, <3>5, <4>1 DEF ChainIdle
      <4> QED
        BY <1>0, <2>1, <4>1, <4>2
    <3> QED
      BY <1>4, <3>3, <3>4, <3>5
  <2> QED
    BY <2>2, <2>3
<1>5. ASSUME NEW c \in Clients,
             ClosedSilently(c) \/ Dialled(c) \/ Lost(c) \/ Evicted(c) \/ Severed(c)
      PROVE  Counted'
  <2>1. UNCHANGED <<chainVars, awaited>> /\ Used' = Used
    BY <1>0, <1>5 DEF ClosedSilently, Dialled, Lost, Evicted, Severed, DropSilently, Dial,
                      Break, Sever, Used, ClientTypeOK
  <2> QED
    BY <2>1 DEF chainVars, ChainIdle
<1>6. ASSUME NEW c \in Clients, EndDone(c)
      PROVE  Counted'
  <2>1. UNCHANGED <<timerArmed, attempt, awaited>> /\ status' = "DISCONNECTED" /\ Used' = Used
    BY <1>0, <1>6 DEF EndDone, EndCallback, Used, ClientTypeOK
  <2> QED
    BY <2>1 DEF ChainIdle
<1>7. CASE UNCHANGED vars
  BY <1>7 DEF vars, chainVars, clientVars, Used, ChainIdle
<1> QED
  BY <1>1, <1>2, <1>3, <1>4, <1>5, <1>6, <1>7, NoEndpoints DEF Next, WiredNext

LEMMA CountInit == Init => Counted
<1> SUFFICES ASSUME Init PROVE Counted
  OBVIOUS
<1>1. Used = {} /\ ChainIdle /\ ~timerArmed /\ status # "FAILED"
  BY DEF Init, ClientInit, Used, ChainIdle
<1> QED
  BY <1>1, FS_EmptySet, RetryAssumption
  DEF Counted, ChainCount, ClientBudget, FailedMeansExhausted

(* As wired, the process never creates more than RetryAttempts + 1 mqtt.js *)
(* clients, and reports FAILED only after creating that many.              *)
THEOREM RetryBudget ==
  ASSUME ControllerCalls = 0
  PROVE  Spec => [](ClientBudget /\ FailedMeansExhausted)
<1> DEFINE Inv == TypeOK /\ SingleRetryChain /\ ChainShape /\ Counted
<1>1. Inv /\ [Next]_vars => Inv'
  BY TypeStep, ShapeStep, CountStep
<1>2. Inv => ClientBudget /\ FailedMeansExhausted
  BY DEF Counted
<1> QED
  BY <1>1, <1>2, TypeInit, ShapeInit, CountInit, PTL DEF Spec

(* As wired, FAILED is reported only after every configured retry.         *)
COROLLARY FailedOnlyWhenExhausted ==
  ASSUME ControllerCalls = 0
  PROVE  Spec => []FailedMeansExhausted
  BY RetryBudget, PTL

-----------------------------------------------------------------------------
(* The life cycle: who is awaited in which phase.                          *)

LEMMA LifeStep ==
  ASSUME ControllerCalls = 0, TypeOK, NoStrandedAwait, SingleRetryChain, ChainShape,
         LifeCycle, [Next]_vars
  PROVE  LifeCycle'
<1>0. ClientTypeOK /\ SingleRetryChain'
  BY ShapeStep DEF TypeOK
<1>1. CASE OnModuleInit
  <2>1. \A c \in Clients : awaited[c] = "none"
    BY <1>1 DEF OnModuleInit, ChainShape, ChainIdle
  <2>2. boot' = "awaiting" /\ UNCHANGED <<phase, closer>>
    BY <1>1 DEF OnModuleInit, ConnectFrom, Open, clientVars
  <2>3. \A c \in Clients : awaited'[c] # "none" => client' = c
    BY <1>0, <1>1, <2>1 DEF OnModuleInit, ConnectFrom, Open, clientVars, ClientTypeOK
  <2> QED
    BY <2>2, <2>3 DEF LifeCycle
<1>2. CASE ReconnectTimer
  <2>1. \A c \in Clients : awaited[c] = "none"
    BY <1>2 DEF ReconnectTimer, TakeTimer, SingleRetryChain, TypeOK
  <2>2. UNCHANGED <<boot, phase, closer>>
    BY <1>2 DEF ReconnectTimer, Open, clientVars, lifeVars
  <2>3. \A c \in Clients : awaited'[c] # "none" => client' = c /\ awaited'[c] = "timer"
    BY <1>0, <1>2, <2>1 DEF ReconnectTimer, Open, clientVars, ClientTypeOK
  <2> QED
    BY <2>2, <2>3 DEF LifeCycle
<1>3. ASSUME NEW k \in {"destroy", "shutdown"}, DisconnectFrom(k),
             phase = IF k = "destroy" THEN "up" ELSE "destroyed", UNCHANGED boot
      PROVE  LifeCycle'
  <2>1. \A c \in Clients : closer[c] = "none"
    BY <1>0, <1>3 DEF LifeCycle, ClientTypeOK
  <2>2. phase' # "up" /\ UNCHANGED awaited
    BY <1>3 DEF DisconnectFrom, BeginEnd, Release, PhaseDuring, PhaseAfter
  <2>3. CASE BeginEnd(k) /\ phase' = PhaseDuring(k)
    <3>1. \A c \in Clients : closer'[c] # "none" => c = client /\ closer'[c] = k
      BY <1>0, <2>1, <2>3 DEF BeginEnd, ClientTypeOK
    <3> QED
      BY <1>3, <2>1, <2>2, <2>3, <3>1 DEF LifeCycle, PhaseDuring
  <2>4. CASE Release
    BY <1>3, <2>1, <2>2, <2>4 DEF Release, LifeCycle
  <2> QED
    BY <1>3, <2>3, <2>4 DEF DisconnectFrom
<1>4. ASSUME NEW c \in Clients, Accepted(c) \/ Refused(c)
      PROVE  LifeCycle'
  <2>1. awaited' = [awaited EXCEPT ![c] = "none"] /\ UNCHANGED <<client, closer, phase>>
    BY <1>4 DEF Accepted, Accept, Refused, Refuse
  <2>2. CASE boot' = boot
    BY <1>0, <2>1, <2>2 DEF LifeCycle, ClientTypeOK
  <2>3. CASE boot' # boot
    <3>1. awaited[c] = "init"
      BY <1>4, <2>3 DEF Accepted, Refused, OnResolved, OnRejected, InitReturns
    <3>2. \A d \in Clients : awaited'[d] = "none"
      BY <1>0, <2>1, <3>1 DEF SingleRetryChain, ClientTypeOK
    <3> QED
      BY <2>1, <3>2 DEF LifeCycle
  <2> QED
    BY <2>2, <2>3
<1>5. ASSUME NEW c \in Clients,
             ClosedSilently(c) \/ Dialled(c) \/ Lost(c) \/ Evicted(c) \/ Severed(c)
      PROVE  LifeCycle'
  <2>1. UNCHANGED <<client, awaited, closer, lifeVars>>
    BY <1>5 DEF ClosedSilently, Dialled, Lost, Evicted, Severed, DropSilently, Dial, Break, Sever
  <2> QED
    BY <2>1 DEF LifeCycle, lifeVars
<1>6. ASSUME NEW c \in Clients, EndDone(c)
      PROVE  LifeCycle'
  <2>1. /\ closer[c] # "none" /\ closer' = [closer EXCEPT ![c] = "none"]
        /\ UNCHANGED <<awaited, boot>>
    BY <1>6 DEF EndDone, EndCallback, NoStrandedAwait
  <2>2. \A d \in Clients : closer'[d] = "none"
    BY <1>0, <2>1 DEF LifeCycle, ClientTypeOK
  <2>3. phase \in {"destroying", "stopping"} /\ phase' \in {"destroyed", "stopped"}
    BY <1>0, <1>6, <2>1 DEF EndDone, LifeCycle, ClientTypeOK, PhaseAfter
  <2> QED
    BY <2>1, <2>2, <2>3 DEF LifeCycle
<1>7. CASE UNCHANGED vars
  BY <1>7 DEF vars, clientVars, lifeVars, LifeCycle
<1>8. CASE OnModuleDestroy \/ OnApplicationShutdown
  BY <1>3, <1>8 DEF OnModuleDestroy, OnApplicationShutdown
<1> QED
  BY <1>1, <1>2, <1>4, <1>5, <1>6, <1>7, <1>8, NoEndpoints DEF Next, WiredNext

(* Until the shutdown begins, none of its clients is being ended.         *)
LEMMA NoEndWhileUp ==
  ASSUME TypeOK, NoStrandedAwait, LifeCycle, phase = "up"
  PROVE  \A c \in Clients : conn[c] # "ending"
BY DEF TypeOK, ClientTypeOK, NoStrandedAwait, LifeCycle

LEMMA OwnedStep ==
  ASSUME ControllerCalls = 0, TypeOK, NoStrandedAwait, SingleRetryChain, ChainShape,
         LifeCycle, ConnectedIsOwned, [Next]_vars
  PROVE  ConnectedIsOwned'
<1>0. ClientTypeOK
  BY DEF TypeOK
<1> USE ClientsAssumption DEF ConnectedIsOwned, Live
<1>1. CASE OnModuleInit
  BY <1>0, <1>1, NoEndWhileUp
     DEF OnModuleInit, ConnectFrom, ClientConnected, Connected, clientVars, ClientTypeOK
<1>2. CASE ReconnectTimer
  <2>1. CASE ClientConnected /\ UNCHANGED <<clientVars, phase>>
    BY <2>1, NoEndWhileUp DEF ClientConnected, Connected, clientVars, ClientTypeOK, TypeOK
  <2>2. CASE \E c \in Clients : Open(c, "timer")
    BY <1>0, <2>2 DEF Open, ClientTypeOK
  <2> QED
    BY <1>2, <2>1, <2>2 DEF ReconnectTimer, lifeVars
<1>3. CASE OnModuleDestroy \/ OnApplicationShutdown
  BY <1>3 DEF OnModuleDestroy, OnApplicationShutdown, DisconnectFrom, PhaseDuring, PhaseAfter
<1>4. ASSUME NEW c \in Clients, Accepted(c)
      PROVE  ConnectedIsOwned'
  <2>1. conn' = [conn EXCEPT ![c] = "connected"] /\ UNCHANGED client
    BY <1>4 DEF Accepted, Accept
  <2>2. CASE awaited[c] = "none"
    BY <1>0, <1>4, <2>1, <2>2 DEF Accepted, OnResolved, chainVars, ClientTypeOK
  <2>3. CASE awaited[c] # "none"
    BY <1>0, <1>4, <2>1, <2>3 DEF Accepted, LifeCycle, ClientTypeOK
  <2> QED
    BY <2>2, <2>3
<1>5. ASSUME NEW c \in Clients, Refused(c)
      PROVE  ConnectedIsOwned'
  <2>1. conn' = [conn EXCEPT ![c] = "waiting"] /\ UNCHANGED client
    BY <1>5 DEF Refused, Refuse
  <2>2. CASE awaited[c] = "none"
    BY <1>0, <1>5, <2>1, <2>2 DEF Refused, OnRejected, chainVars, ClientTypeOK
  <2>3. CASE awaited[c] # "none"
    BY <1>5, <2>3 DEF Refused, OnRejected, ScheduleReconnection
  <2> QED
    BY <2>2, <2>3
<1>6. ASSUME NEW c \in Clients,
             ClosedSilently(c) \/ Dialled(c) \/ Lost(c) \/ Evicted(c) \/ Severed(c)
      PROVE  ConnectedIsOwned'
  BY <1>0, <1>6 DEF ClosedSilently, Dialled, Lost, Evicted, Severed, DropSilently, Dial, Break, Sever,
                    chainVars, lifeVars, ClientTypeOK
<1>7. ASSUME NEW c \in Clients, EndDone(c)
      PROVE  ConnectedIsOwned'
  BY <1>7 DEF EndDone
<1>8. CASE UNCHANGED vars
  BY <1>8 DEF vars, chainVars, clientVars, lifeVars
<1> QED
  BY <1>1, <1>2, <1>3, <1>4, <1>5, <1>6, <1>7, <1>8, NoEndpoints DEF Next, WiredNext

LEMMA LifeInit == Init => NoStrandedAwait /\ FieldNotEnded /\ LifeCycle /\ ConnectedIsOwned
BY DEF Init, ClientInit, NoStrandedAwait, FieldNotEnded, LifeCycle, ConnectedIsOwned

(* As wired, until the shutdown CONNECTED always refers to a client the    *)
(* service holds and mqtt.js works for.                                    *)
THEOREM ConnectedAlwaysOwned ==
  ASSUME ControllerCalls = 0
  PROVE  Spec => [](LifeCycle /\ ConnectedIsOwned)
<1> DEFINE Inv == /\ TypeOK /\ NoStrandedAwait /\ FieldNotEnded
                  /\ SingleRetryChain /\ ChainShape
                  /\ LifeCycle /\ ConnectedIsOwned
<1>1. Inv /\ [Next]_vars => Inv'
  BY TypeStep, NextIsClientStep, ClientStepSound, ShapeStep, LifeStep, OwnedStep DEF TypeOK
<1> QED
  BY <1>1, TypeInit, ShapeInit, LifeInit, PTL DEF Spec

(* As wired, the chain, the count of its clients and the life cycle fit    *)
(* together: the invariant that the run checks is the one of the proofs.   *)
THEOREM WiringHolds ==
  ASSUME ControllerCalls = 0
  PROVE  Spec => []WiringInv
<1> DEFINE Inv == TypeOK /\ SingleRetryChain /\ ChainShape /\ Counted
<1>1. Inv /\ [Next]_vars => Inv'
  BY TypeStep, ShapeStep, CountStep
<1>2. Init => Inv
  BY TypeInit, ShapeInit, CountInit
<1>3. Spec => []Inv
  BY <1>1, <1>2, PTL DEF Spec
<1>4. Inv /\ LifeCycle /\ WaitsAreDriven => WiringInv
  BY DEF Counted, WiringInv
<1> HIDE DEF Inv
<1> QED
  BY <1>3, <1>4, ConnectedAlwaysOwned, WaitsAlwaysDriven, PTL

(* As wired, FAILED is left by nothing but the shutdown.                   *)
LEMMA FailedStep ==
  ASSUME ControllerCalls = 0, TypeOK, NoStrandedAwait, SingleRetryChain, ChainShape,
         LifeCycle, status = "FAILED", [Next]_vars
  PROVE  UNCHANGED chainVars \/ phase' # phase
<1>0. ClientTypeOK /\ ChainIdle
  BY DEF TypeOK, ChainShape
<1>1. CASE OnModuleInit
  BY <1>1 DEF OnModuleInit, ChainShape
<1>2. CASE ReconnectTimer
  BY <1>0, <1>2 DEF ReconnectTimer, TakeTimer, SingleRetryChain, ChainIdle, TypeOK
<1>3. CASE OnModuleDestroy \/ OnApplicationShutdown
  BY <1>3 DEF OnModuleDestroy, OnApplicationShutdown, DisconnectFrom, PhaseDuring, PhaseAfter
<1>4. ASSUME NEW c \in Clients, Accepted(c) \/ Refused(c)
      PROVE  UNCHANGED chainVars
  BY <1>0, <1>4 DEF Accepted, OnResolved, Refused, OnRejected, ChainIdle
<1>5. ASSUME NEW c \in Clients,
             ClosedSilently(c) \/ Dialled(c) \/ Lost(c) \/ Evicted(c) \/ Severed(c)
      PROVE  UNCHANGED chainVars
  BY <1>5 DEF ClosedSilently, Dialled, Lost, Evicted, Severed
<1>6. ASSUME NEW c \in Clients, EndDone(c)
      PROVE  phase' # phase
  <2>1. closer[c] \in {"destroy", "shutdown"}
    BY <1>0, <1>6 DEF EndDone, EndCallback, NoStrandedAwait, LifeCycle, ClientTypeOK
  <2> QED
    BY <1>6, <2>1 DEF EndDone, LifeCycle, PhaseAfter
<1>7. CASE UNCHANGED vars
  BY <1>7 DEF vars
<1> QED
  BY <1>1, <1>2, <1>3, <1>4, <1>5, <1>6, <1>7, NoEndpoints DEF Next, WiredNext

THEOREM GivingUpIsFinal ==
  ASSUME ControllerCalls = 0
  PROVE  Spec => FailedIsFinal
<1> DEFINE Inv == TypeOK /\ NoStrandedAwait /\ SingleRetryChain /\ ChainShape /\ LifeCycle
<1>1. Spec => []Inv
  BY TypeCorrect, NoAwaitIsStranded, OneRetryChain, ConnectedAlwaysOwned, PTL
<1>2. Inv /\ [Next]_vars =>
        [status = "FAILED" => UNCHANGED chainVars \/ phase' # phase]_vars
  BY FailedStep
<1> QED
  BY <1>1, <1>2, PTL DEF Spec, FailedIsFinal

-----------------------------------------------------------------------------
(* The refinement: the clients, timers and promises amount to one chain.   *)

(* While the chain runs the status is neither of the two it can end with.  *)
StatusWaits == status \in {"CONNECTED", "FAILED"} => ChainIdle

LEMMA StatusStep ==
  ASSUME ControllerCalls = 0, TypeOK, SingleRetryChain, ChainShape, StatusWaits, [Next]_vars
  PROVE  StatusWaits'
<1>0. ClientTypeOK /\ ChainShape'
  BY ShapeStep DEF TypeOK
<1> SUFFICES ASSUME status' = "CONNECTED" PROVE ChainIdle'
  BY <1>0 DEF StatusWaits, ChainShape
<1> USE DEF StatusWaits, ChainIdle, SingleRetryChain
<1>1. CASE OnModuleInit
  BY <1>0, <1>1 DEF OnModuleInit, ConnectFrom, ChainShape, clientVars
<1>2. CASE ReconnectTimer
  BY <1>2 DEF ReconnectTimer, TakeTimer, clientVars, TypeOK
<1>3. CASE OnModuleDestroy \/ OnApplicationShutdown
  BY <1>3 DEF OnModuleDestroy, OnApplicationShutdown, DisconnectFrom, BeginEnd, Release
<1>4. ASSUME NEW c \in Clients, Accepted(c) \/ Refused(c)
      PROVE  ChainIdle'
  <2>1. awaited' = [awaited EXCEPT ![c] = "none"]
    BY <1>4 DEF Accepted, Accept, Refused, Refuse
  <2>2. CASE awaited[c] = "none"
    BY <1>0, <1>4, <2>1, <2>2 DEF Accepted, OnResolved, Refused, OnRejected, chainVars, ClientTypeOK
  <2>3. CASE awaited[c] # "none"
    <3>1. \A d \in Clients : awaited'[d] = "none"
      BY <1>0, <2>1, <2>3 DEF ClientTypeOK
    <3> QED
      BY <1>4, <2>3, <3>1 DEF Accepted, OnResolved, Refused, OnRejected, ScheduleReconnection
  <2> QED
    BY <2>2, <2>3
<1>5. ASSUME NEW c \in Clients,
             ClosedSilently(c) \/ Dialled(c) \/ Lost(c) \/ Evicted(c) \/ Severed(c)
      PROVE  ChainIdle'
  BY <1>5 DEF ClosedSilently, Dialled, Lost, Evicted, Severed, DropSilently, Dial, Break, Sever, chainVars
<1>6. ASSUME NEW c \in Clients, EndDone(c)
      PROVE  ChainIdle'
  BY <1>6 DEF EndDone
<1>7. CASE UNCHANGED vars
  BY <1>7 DEF vars, chainVars, clientVars
<1> QED
  BY <1>1, <1>2, <1>3, <1>4, <1>5, <1>6, <1>7, NoEndpoints DEF Next, WiredNext

(* Every step maps to a step of the contract or leaves its state alone.    *)
LEMMA ContractStep ==
  ASSUME ControllerCalls = 0, TypeOK, SingleRetryChain, ChainShape, StatusWaits, [Next]_vars
  PROVE  [Contract!ContractNext]_(Contract!contractVars)
<1>0. ClientTypeOK /\ attempt \in Nat
  BY DEF TypeOK
<1> USE DEF Contract!ContractNext, Contract!contractVars, Mode, RetriesMade, Alive
<1>1. CASE OnModuleInit
  <2>0. Used = {} /\ ~ClientConnected
    BY <1>0, <1>1 DEF OnModuleInit, ChainShape, ClientTypeOK, ClientConnected, Connected, Used
  <2>1. PICK c \in Clients : Open(c, "init")
    BY <1>1, <2>0 DEF OnModuleInit, ConnectFrom
  <2>2. Mode = "idle" /\ RetriesMade = 0
    BY <1>1 DEF OnModuleInit, ChainShape, ChainIdle
  <2>3. ~ChainIdle' /\ ~timerArmed' /\ Alive' /\ attempt' = 0
    BY <1>0, <1>1, <2>1 DEF OnModuleInit, ConnectFrom, ChainShape, ChainIdle, Open, ClientTypeOK
  <2>4. Mode' = "trying" /\ RetriesMade' = 0
    BY <2>3
  <2> QED
    BY <2>2, <2>4 DEF Contract!Start
<1>2. CASE ReconnectTimer
  <2>1. timerArmed /\ ~timerArmed' /\ boot' # "pending" /\ Alive /\ Alive'
    BY <1>2 DEF ReconnectTimer, TakeTimer, SingleRetryChain, ChainShape, ChainIdle, TypeOK, lifeVars
  <2>2. Mode = "backoff" /\ RetriesMade = attempt
    BY <2>1 DEF ChainIdle
  <2>3. CASE UNCHANGED clientVars /\ status' = "CONNECTED"
    <3>1. ChainIdle'
      BY <2>1, <2>3 DEF SingleRetryChain, ChainIdle, clientVars
    <3>2. Mode' = "up" /\ RetriesMade' = 0
      BY <2>1, <2>3, <3>1
    <3> QED
      BY <2>2, <3>2 DEF Contract!Recovers
  <2>4. CASE attempt' = attempt + 1 /\ \E c \in Clients : Open(c, "timer")
    <3>1. ~ChainIdle'
      BY <1>0, <2>4 DEF ChainIdle, Open, ClientTypeOK
    <3>2. Mode' = "trying" /\ RetriesMade' = attempt + 1
      BY <2>1, <2>4, <3>1
    <3> QED
      BY <2>2, <3>2 DEF Contract!Retries
  <2> QED
    BY <1>2, <2>3, <2>4 DEF ReconnectTimer
<1>3. CASE OnModuleDestroy \/ OnApplicationShutdown
  <2>1. PICK k \in Closers : DisconnectFrom(k)
    BY <1>3 DEF OnModuleDestroy, OnApplicationShutdown
  <2>2. /\ ~timerArmed' /\ UNCHANGED <<awaited, attempt, boot>> /\ Alive
        /\ status' \in {status, "DISCONNECTED"}
    BY <1>3, <2>1 DEF OnModuleDestroy, OnApplicationShutdown, DisconnectFrom, BeginEnd, Release
  <2>3. (Mode' = "off" /\ RetriesMade' = 0) \/ UNCHANGED <<Mode, RetriesMade>>
    <3>1. CASE ~Alive'
      BY <3>1
    <3>2. CASE Alive' /\ timerArmed
      <4>1. boot # "pending" /\ ChainIdle' /\ status' \notin {"CONNECTED", "FAILED"}
        BY <2>2, <3>2 DEF ChainShape, ChainIdle, SingleRetryChain, StatusWaits
      <4> QED
        BY <2>2, <3>2, <4>1
    <3>3. CASE Alive' /\ ~timerArmed /\ ~ChainIdle
      <4>1. ~ChainIdle'
        BY <2>2, <3>3 DEF ChainIdle
      <4> QED
        BY <2>2, <3>3, <4>1
    <3>4. CASE Alive' /\ ChainIdle
      <4>1. ChainIdle' /\ ~timerArmed
        BY <2>2, <3>4 DEF ChainIdle
      <4> QED
        BY <2>2, <3>4, <4>1
    <3> QED
      BY <3>1, <3>2, <3>3, <3>4
  <2> QED
    BY <2>3 DEF Contract!Stops
<1>4. ASSUME NEW c \in Clients, Accepted(c) \/ Refused(c)
      PROVE  [Contract!ContractNext]_(Contract!contractVars)
  <2>1. awaited' = [awaited EXCEPT ![c] = "none"] /\ Alive /\ Alive' /\ boot # "pending"
    BY <1>4 DEF Accepted, Accept, Refused, Refuse, ChainShape, Used
  <2>2. CASE awaited[c] = "none"
    <3>1. UNCHANGED <<chainVars, boot, awaited>>
      BY <1>0, <1>4, <2>1, <2>2 DEF Accepted, OnResolved, Refused, OnRejected, ClientTypeOK
    <3> QED
      BY <2>1, <3>1 DEF chainVars, ChainIdle
  <2>3. CASE awaited[c] # "none"
    <3>1. ~timerArmed /\ ~ChainIdle /\ \A d \in Clients : awaited'[d] = "none"
      BY <1>0, <2>1, <2>3 DEF SingleRetryChain, ChainIdle, ClientTypeOK
    <3>2. Mode = "trying" /\ RetriesMade = attempt
      BY <2>1, <3>1
    <3>3. boot' # "pending"
      BY <1>4, <2>1, <2>3 DEF Accepted, Refused, OnResolved, OnRejected, InitReturns
    <3>4. CASE Accepted(c)
      <4>1. ChainIdle' /\ status' = "CONNECTED"
        BY <2>3, <3>1, <3>4 DEF Accepted, OnResolved, ChainIdle
      <4>2. Mode' = "up" /\ RetriesMade' = 0
        BY <2>1, <3>3, <4>1 DEF ChainIdle
      <4> QED
        BY <3>2, <4>2 DEF Contract!Succeeds
    <3>5. CASE Refused(c) /\ ShouldReconnect(attempt)
      <4>1. timerArmed' /\ attempt' = attempt
        BY <2>3, <3>5 DEF Refused, OnRejected, ScheduleReconnection
      <4>2. Mode' = "backoff" /\ RetriesMade' = attempt
        BY <2>1, <4>1 DEF ChainIdle
      <4> QED
        BY <3>2, <3>5, <4>2 DEF Contract!Fails, ShouldReconnect
    <3>6. CASE Refused(c) /\ ~ShouldReconnect(attempt)
      <4>1. ChainIdle' /\ status' = "FAILED" /\ attempt' = attempt
        BY <2>3, <3>1, <3>6 DEF Refused, OnRejected, ScheduleReconnection, ChainIdle
      <4>2. Mode' = "gaveUp" /\ RetriesMade' = attempt
        BY <2>1, <3>3, <4>1 DEF ChainIdle
      <4> QED
        BY <3>2, <3>6, <4>2 DEF Contract!Fails, ShouldReconnect
    <3> QED
      BY <1>4, <3>4, <3>5, <3>6
  <2> QED
    BY <2>2, <2>3
<1>5. ASSUME NEW c \in Clients,
             ClosedSilently(c) \/ Dialled(c) \/ Lost(c) \/ Evicted(c) \/ Severed(c)
      PROVE  UNCHANGED Contract!contractVars
  BY <1>5 DEF ClosedSilently, Dialled, Lost, Evicted, Severed, DropSilently, Dial, Break, Sever,
              chainVars, lifeVars, ChainIdle
<1>6. ASSUME NEW c \in Clients, EndDone(c)
      PROVE  [Contract!ContractNext]_(Contract!contractVars)
  <2>1. /\ UNCHANGED <<awaited, timerArmed, attempt, boot>> /\ Alive
        /\ status' = "DISCONNECTED" /\ boot # "pending"
    BY <1>6 DEF EndDone, EndCallback, ChainShape, Used
  <2>2. ChainIdle' = ChainIdle
    BY <2>1 DEF ChainIdle
  <2>3. CASE ~Alive' \/ ChainIdle
    <3>1. Mode' = "off" /\ RetriesMade' = 0
      BY <2>1, <2>2, <2>3 DEF ChainIdle
    <3> QED
      BY <3>1 DEF Contract!Stops
  <2>4. CASE Alive' /\ ~ChainIdle
    BY <2>1, <2>2, <2>4
  <2> QED
    BY <2>3, <2>4
<1>7. CASE UNCHANGED vars
  BY <1>7 DEF vars, chainVars, clientVars, lifeVars, ChainIdle
<1> QED
  BY <1>1, <1>2, <1>3, <1>4, <1>5, <1>6, <1>7, NoEndpoints DEF Next, WiredNext

(* As wired, the service implements the contract of one reconnection       *)
(* chain, whatever faults and shutdowns interleave with it.                *)
THEOREM ChainImplementsContract ==
  ASSUME ControllerCalls = 0
  PROVE  Spec => ImplementsContract
<1> DEFINE Inv == TypeOK /\ SingleRetryChain /\ ChainShape /\ StatusWaits
<1>1. Init => Inv
  BY TypeInit, ShapeInit DEF Init, StatusWaits
<1>2. Inv /\ [Next]_vars => Inv'
  BY TypeStep, ShapeStep, StatusStep
<1>3. Init => Contract!ContractInit
  BY DEF Init, ClientInit, Contract!ContractInit, Mode, RetriesMade, Alive, ChainIdle
<1>4. Inv /\ [Next]_vars => [Contract!ContractNext]_(Contract!contractVars)
  BY ContractStep
<1> QED
  BY <1>1, <1>2, <1>3, <1>4, PTL DEF Spec, ImplementsContract, Contract!ContractSpec

(* How many steps of the contract the chain may still take.                *)
ChainVariant ==
  CASE Mode = "idle"             -> 2 * RetryAttempts + 3
    [] Mode = "trying"           -> 2 * (RetryAttempts - RetriesMade) + 2
    [] Mode = "backoff"          -> 2 * (RetryAttempts - RetriesMade) + 1
    [] Mode \in {"up", "gaveUp"} -> 1
    [] Mode = "off"              -> 0

(* The count of the chain is within the limit in each mode.                *)
WithinLimit ==
  /\ RetriesMade \in Nat
  /\ Mode \in {"idle", "trying", "backoff", "up", "gaveUp", "off"}
  /\ Mode = "trying" => RetriesMade =< RetryAttempts
  /\ Mode = "backoff" => RetriesMade < RetryAttempts

LEMMA ChainWithinLimit ==
  ASSUME TypeOK, ChainCount
  PROVE  WithinLimit
<1>1. Mode \in {"idle", "trying", "backoff", "up", "gaveUp", "off"}
  BY Zenon DEF Mode
<1>2. RetriesMade \in Nat
  BY DEF RetriesMade, TypeOK
<1>3. Mode = "trying" => ~timerArmed /\ ~ChainIdle
  BY DEF Mode
<1>4. Mode = "backoff" => timerArmed
  BY DEF Mode
<1>5. Mode \in {"trying", "backoff"} => RetriesMade = attempt
  BY DEF RetriesMade
<1> QED
  BY <1>1, <1>2, <1>3, <1>4, <1>5 DEF WithinLimit, ChainCount

LEMMA VariantFalls ==
  ASSUME WithinLimit, WithinLimit', [Contract!ContractNext]_(Contract!contractVars)
  PROVE  [ChainVariant' < ChainVariant]_<<Mode, RetriesMade>>
<1> USE RetryAssumption DEF WithinLimit, ChainVariant
<1>1. CASE Contract!Start
  BY <1>1 DEF Contract!Start
<1>2. CASE Contract!Succeeds
  BY <1>2 DEF Contract!Succeeds
<1>3. CASE Contract!Fails
  BY <1>3 DEF Contract!Fails
<1>4. CASE Contract!Retries
  BY <1>4 DEF Contract!Retries
<1>5. CASE Contract!Recovers
  BY <1>5 DEF Contract!Recovers
<1>6. CASE Contract!Stops
  BY <1>6 DEF Contract!Stops
<1>7. CASE UNCHANGED Contract!contractVars
  BY <1>7 DEF Contract!contractVars
<1> QED
  BY <1>1, <1>2, <1>3, <1>4, <1>5, <1>6, <1>7 DEF Contract!ContractNext

(* As wired, the chain cannot go on for ever: each of its steps, whoever   *)
(* takes it, brings it nearer to its end, which is at most                 *)
(* 2 * RetryAttempts + 3 steps away.                                       *)
THEOREM ChainIsBounded ==
  ASSUME ControllerCalls = 0
  PROVE  Spec => /\ [](ChainVariant \in 0..(2 * RetryAttempts + 3))
                 /\ [][ChainVariant' < ChainVariant]_<<Mode, RetriesMade>>
<1> DEFINE Inv == TypeOK /\ SingleRetryChain /\ ChainShape /\ StatusWaits /\ Counted
<1>1. Init => Inv
  BY TypeInit, ShapeInit, CountInit DEF Init, StatusWaits
<1>2. Inv /\ [Next]_vars => Inv'
  BY TypeStep, ShapeStep, StatusStep, CountStep
<1>3. Inv => WithinLimit
  BY ChainWithinLimit DEF Counted
<1>4. Inv /\ Inv' /\ [Next]_vars => [ChainVariant' < ChainVariant]_<<Mode, RetriesMade>>
  <2> SUFFICES ASSUME Inv, Inv', [Next]_vars
               PROVE  [ChainVariant' < ChainVariant]_<<Mode, RetriesMade>>
    OBVIOUS
  <2>1. WithinLimit /\ WithinLimit'
    <3>1. (Inv => WithinLimit)'
      BY <1>3, PTL
    <3> QED
      BY <1>3, <3>1
  <2>2. [Contract!ContractNext]_(Contract!contractVars)
    BY ContractStep
  <2> QED
    BY <2>1, <2>2, VariantFalls
<1>5. Inv => ChainVariant \in 0..(2 * RetryAttempts + 3)
  <2> SUFFICES ASSUME WithinLimit PROVE ChainVariant \in 0..(2 * RetryAttempts + 3)
    BY <1>3
  <2> QED
    BY RetryAssumption DEF WithinLimit, ChainVariant
<1> QED
  BY <1>1, <1>2, <1>4, <1>5, PTL DEF Spec
=============================================================================
