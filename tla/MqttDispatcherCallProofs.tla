------------------------ MODULE MqttDispatcherCallProofs ------------------------
(***************************************************************************)
(* Theorems about MqttDispatcher when, besides the boot, the public        *)
(* methods are called, one call at a time, between the end of the boot and *)
(* the shutdown: the record of a topic, its schema and what is delivered   *)
(* stay together, for all machines, topics, clients, retries and numbers   *)
(* of calls, while topics change in the database.                          *)
(***************************************************************************)
EXTENDS MqttDispatcherProofs

Active(k) == task[k].pc \notin {"idle", "done"}

(* No call begins before the one before it has returned.                   *)
OneCallAtATime == \A j, k \in Tasks : Active(j) /\ Active(k) => j = k

(* A call does not begin before the boot has ended.                        *)
OneActive ==
  /\ \A j, k \in AllTasks : Active(j) /\ Active(k) => j = k
  /\ ~Booted => \A k \in Tasks : task[k].pc = "idle"

(* The schema is registered before the request is sent, and stays.         *)
RequestsRegistered ==
  \A k \in AllTasks : task[k].pc = "subscribing" => registry[task[k].topic] = task[k].machine

CallInv == OneActive /\ RequestsRegistered /\ SchemaOfTheRecord

-----------------------------------------------------------------------------
(* Which tasks are active.                                                 *)

(* A step that moves only the task k, which was active or may begin.       *)
LEMMA MoveKeepsOne ==
  ASSUME HubTypeOK, OneActive, OneCallAtATime', NEW k \in AllTasks,
         Active(k) \/ (k = "boot" /\ task[k].pc = "idle") \/ Callable(k),
         k = "boot" => task'[k].pc # "idle",
         \A j \in AllTasks \ {k} : task'[j] = task[j],
         k # "boot" => task["boot"].pc = "done"
  PROVE  OneActive'
<1>1. CASE Callable(k)
  <2>1. k \in Tasks /\ task'["boot"].pc = "done"
    BY <1>1 DEF Callable, Booted, AllTasks
  <2>2. \A j \in AllTasks : Active(j)' => j \in Tasks
    BY <2>1 DEF Active, AllTasks
  <2> QED
    BY <2>1, <2>2 DEF OneActive, OneCallAtATime, Booted
<1>2. CASE ~Callable(k)
  <2>1. \A j \in AllTasks \ {k} : ~Active(j)
    <3>1. CASE Active(k)
      BY <3>1 DEF OneActive
    <3>2. CASE k = "boot" /\ task[k].pc = "idle"
      BY <3>2 DEF OneActive, Booted, Active, AllTasks
    <3> QED
      BY <1>2, <3>1, <3>2
  <2>2. \A j \in AllTasks : Active(j)' => j = k
    BY <2>1 DEF Active
  <2>3. CASE k = "boot"
    <3>1. \A j \in Tasks : j # k /\ task'[j] = task[j]
      BY <2>3, TasksAssumption DEF AllTasks
    <3>2. ~Booted
      BY <1>2, <2>3 DEF Booted, Active
    <3> QED
      BY <2>2, <3>1, <3>2 DEF OneActive
  <2>4. CASE k # "boot"
    BY <2>2, <2>4 DEF OneActive, Booted, AllTasks
  <2> QED
    BY <2>3, <2>4
<1> QED
  BY <1>1, <1>2

(* While a call is active the boot has ended.                              *)
LEMMA CallAfterBoot ==
  ASSUME OneActive, NEW k \in AllTasks, k # "boot", Active(k)
  PROVE  task["boot"].pc = "done"
BY DEF OneActive, Booted, Active, AllTasks

(* The task that is active is the only one with a request.                 *)
LEMMA SoleRequest ==
  ASSUME OneActive, NEW k \in AllTasks, Active(k)
  PROVE  /\ \A j \in AllTasks \ {k} : task[j].pc \in {"idle", "done"}
         /\ Requested("subscribing") \subseteq {task[k].topic}
         /\ task[k].pc # "subscribing" => Requested("subscribing") = {}
<1>1. \A j \in AllTasks \ {k} : task[j].pc \in {"idle", "done"}
  BY DEF OneActive, Active
<1> QED
  BY <1>1 DEF Requested

-----------------------------------------------------------------------------
(* The record and the schema of a topic are of one machine.                *)

(* Steps that leave record, schemas and requests alone.                    *)
LEMMA ElsewhereCalls ==
  ASSUME HubTypeOK, CallInv, UNCHANGED <<entry, registry, task>>
  PROVE  CallInv'
BY DEF CallInv, OneActive, Booted, Active, RequestsRegistered, SchemaOfTheRecord, Requested

(* Steps that move one task without a request, before and after.           *)
LEMMA TaskCalls ==
  ASSUME HubTypeOK, CallInv, NEW k \in AllTasks, registry' = registry,
         OneActive', \A j \in AllTasks \ {k} : task'[j] = task[j],
         task[k].pc # "subscribing", task'[k].pc # "subscribing",
         \A t \in Topics : entry'[t] \in {entry[t], None}
  PROVE  CallInv'
<1>1. Requested("subscribing")' = Requested("subscribing")
  BY DEF Requested
<1>2. RequestsRegistered'
  BY DEF CallInv, RequestsRegistered
<1> QED
  BY <1>1, <1>2 DEF CallInv, SchemaOfTheRecord

LEMMA NextMachineCalls ==
  ASSUME HubTypeOK, CallInv, OneCallAtATime', NEW k \in AllTasks, NextMachine(k)
  PROVE  CallInv'
<1>1. PICK row \in task[k].rows :
        Skipped(k, row) \/ SubscribeFails(k, row) \/ AlreadyWanted(k, row) \/ SubscribeSent(k, row)
  BY DEF NextMachine
<1>2. task[k].pc = "next" /\ Active(k) /\ OneActive
  BY DEF NextMachine, Active, CallInv
<1>3. /\ Requested("subscribing") = {}
      /\ \A j \in AllTasks \ {k} : task[j].pc \in {"idle", "done"}
  BY <1>2, SoleRequest
<1>4. \A j \in AllTasks \ {k} : task'[j] = task[j]
  BY <1>1 DEF Skipped, SubscribeFails, AlreadyWanted, SubscribeSent, RowHandled, HubTypeOK
<1>5. ASSUME RowHandled(k, row) PROVE task'[k].pc = "next"
  BY <1>2, <1>5 DEF RowHandled, HubTypeOK, TaskStates
<1>6. task'[k].pc \in {"next", "subscribing"}
  <2>1. CASE SubscribeSent(k, row)
    BY <2>1 DEF SubscribeSent, HubTypeOK
  <2> QED
    BY <1>1, <1>5, <2>1 DEF Skipped, SubscribeFails, AlreadyWanted
<1>7. OneActive'
  BY <1>2, <1>4, <1>6, CallAfterBoot, MoveKeepsOne
<1>8. CASE Skipped(k, row)
  <2>1. task'[k].pc = "next" /\ registry' = registry /\ entry' = entry
    BY <1>5, <1>8 DEF Skipped
  <2>2. \A t \in Topics : entry'[t] \in {entry[t], None}
    BY <2>1
  <2>3. task[k].pc # "subscribing" /\ task'[k].pc # "subscribing"
    BY <1>2, <2>1
  <2> QED
    BY <1>4, <1>7, <2>1, <2>2, <2>3, TaskCalls
<1>9. CASE SubscribeFails(k, row) \/ AlreadyWanted(k, row)
  <2>1. task'[k].pc = "next"
    BY <1>5, <1>9 DEF SubscribeFails, AlreadyWanted
  <2>2. RequestsRegistered'
    BY <1>3, <1>4, <2>1 DEF RequestsRegistered
  <2>3. \A t \in Topics : \/ entry'[t].machine = registry'[t]
                          \/ entry'[t] = entry[t] /\ registry'[t] = registry[t]
    BY <1>9 DEF SubscribeFails, AlreadyWanted, Registers, Recorded, HubTypeOK
  <2> QED
    BY <1>3, <1>7, <2>2, <2>3 DEF CallInv, SchemaOfTheRecord
<1>10. CASE SubscribeSent(k, row)
  <2>1. task'[k].pc = "subscribing" /\ task'[k].topic = row[2] /\ task'[k].machine = row[1]
    BY <1>10 DEF SubscribeSent, HubTypeOK
  <2>2. /\ entry' = entry /\ row[2] \in Topics
        /\ registry' = [registry EXCEPT ![row[2]] = row[1]]
    BY <1>10 DEF SubscribeSent, Registers, HubTypeOK, TaskStates
  <2>3. RequestsRegistered'
    BY <1>3, <1>4, <2>1, <2>2 DEF RequestsRegistered, HubTypeOK
  <2>4. row[2] \in Requested("subscribing")'
    BY <2>1 DEF Requested
  <2> QED
    BY <1>3, <1>7, <2>2, <2>3, <2>4 DEF CallInv, SchemaOfTheRecord, HubTypeOK
<1> QED
  BY <1>1, <1>8, <1>9, <1>10

LEMMA AckCalls ==
  ASSUME HubTypeOK, CallInv, OneCallAtATime', NEW k \in AllTasks, AckArrives(k)
  PROVE  CallInv'
<1> DEFINE t == task[k].topic
           m == task[k].machine
<1>1. /\ task[k].pc \in InFlight /\ Active(k) /\ OneActive
      /\ t \in Topics /\ m \in Machines
  BY DEF AckArrives, SubAcked, SubRefused, UnsubAcked, Awaits, InFlight, Active, CallInv, HubTypeOK,
         RequestsTyped
<1>2. \A j \in AllTasks \ {k} : task[j].pc \in {"idle", "done"} /\ task'[j] = task[j]
  BY <1>1, SoleRequest DEF AckArrives, SubAcked, SubRefused, UnsubAcked, HubTypeOK
<1>3. task'[k].pc \in {"next", "done"}
  BY AfterType DEF AckArrives, SubAcked, SubRefused, UnsubAcked, HubTypeOK
<1>4. OneActive'
  BY <1>1, <1>2, <1>3, CallAfterBoot, MoveKeepsOne
<1>5. RequestsRegistered' /\ Requested("subscribing")' = {}
  BY <1>2, <1>3 DEF RequestsRegistered, Requested
<1>6. Requested("subscribing") \subseteq {t}
  BY <1>1, SoleRequest
<1>7. CASE SubAcked(k) \/ SubRefused(k)
  <2>1. registry[t] = m
    BY <1>7 DEF SubAcked, SubRefused, Awaits, CallInv, RequestsRegistered
  <2>2. entry'[t].machine = m /\ registry' = registry /\ \A u \in Topics \ {t} : entry'[u] = entry[u]
    BY <1>1, <1>7 DEF SubAcked, SubRefused, Recorded, HubTypeOK
  <2> QED
    BY <1>4, <1>5, <1>6, <2>1, <2>2 DEF CallInv, SchemaOfTheRecord
<1>8. CASE UnsubAcked(k)
  <2>1. entry'[t] = None /\ \A u \in Topics \ {t} : entry'[u] = entry[u] /\ registry'[u] = registry[u]
    BY <1>1, <1>8 DEF UnsubAcked, HubTypeOK
  <2> QED
    BY <1>4, <1>5, <1>6, <2>1 DEF CallInv, SchemaOfTheRecord
<1> QED
  BY <1>7, <1>8 DEF AckArrives

(* A connection closes under a request, or with none in flight.            *)
LEMMA CloseCalls ==
  ASSUME HubTypeOK, CallInv, OneCallAtATime', NEW c \in Clients, FailRequests(c), registry' = registry
  PROVE  CallInv'
<1> DEFINE For(t) == {k \in Failing(c) : task[k].pc = "subscribing" /\ task[k].topic = t}
<1>1. PICK last \in [Topics -> AllTasks] :
        /\ \A t \in Topics : For(t) # {} => last[t] \in For(t)
        /\ entry' = [t \in Topics |->
                      IF For(t) = {} THEN entry[t] ELSE Recorded(task[last[t]].machine, FALSE)]
  BY Zenon DEF FailRequests
<1>2. task' = [k \in AllTasks |->
                IF k \notin Failing(c) THEN task[k]
                ELSE After(k, IF task[k].pc = "subscribing" THEN "next" ELSE "done")]
  BY DEF FailRequests
<1>3. \A k \in Failing(c) : k \in AllTasks /\ Active(k) /\ task'[k].pc \in {"next", "done"}
  BY <1>2, AfterType DEF Failing, InFlight, Active, HubTypeOK
<1>4. \A k \in AllTasks : k \notin Failing(c) => task'[k] = task[k]
  BY <1>2
<1>5. OneActive'
  <2>1. CASE Failing(c) = {}
    <3>1. \A k \in AllTasks : task'[k] = task[k]
      BY <1>4, <2>1
    <3> QED
      BY <3>1 DEF CallInv, OneActive, Booted, Active, AllTasks
  <2>2. ASSUME NEW k \in Failing(c) PROVE OneActive'
    <3>1. OneActive /\ k \in AllTasks /\ Active(k) /\ task'[k].pc # "idle"
      BY <1>3, <2>2 DEF CallInv
    <3>2. \A j \in AllTasks \ {k} : task'[j] = task[j]
      BY <1>3, <1>4, <3>1 DEF OneActive
    <3> QED
      BY <3>1, <3>2, CallAfterBoot, MoveKeepsOne
  <2> QED
    BY <2>1, <2>2
<1>6. RequestsRegistered'
  BY <1>3, <1>4 DEF CallInv, RequestsRegistered
<1>7. ASSUME NEW t \in Topics, t \notin Requested("subscribing")', entry'[t] # None
      PROVE  registry[t] = entry'[t].machine
  <2>1. CASE For(t) = {}
    <3>1. t \notin Requested("subscribing")
      BY <1>4, <1>7, <2>1 DEF Requested
    <3> QED
      BY <1>1, <1>7, <2>1, <3>1 DEF CallInv, SchemaOfTheRecord
  <2>2. CASE For(t) # {}
    <3>1. /\ last[t] \in Failing(c) /\ task[last[t]].pc = "subscribing"
          /\ task[last[t]].topic = t /\ entry'[t].machine = task[last[t]].machine
      BY <1>1, <2>2 DEF Recorded
    <3> QED
      BY <1>3, <3>1 DEF CallInv, RequestsRegistered
  <2> QED
    BY <2>1, <2>2
<1> QED
  BY <1>5, <1>6, <1>7 DEF CallInv, SchemaOfTheRecord

(* A task begins, is answered by the database or ends.                     *)
LEMMA OtherTaskCalls ==
  ASSUME HubTypeOK, CallInv, OneCallAtATime', NEW k \in AllTasks,
         \/ LoopEnds(k) \/ FindReturns(k) \/ FindFails(k) \/ (k = "boot" /\ BootStarts)
         \/ ResubscribeAll(k) \/ SubscribeToMachineById(k) \/ UnsubscribeFromMachine(k)
  PROVE  CallInv'
<1>1. \A j \in AllTasks \ {k} : task'[j] = task[j]
  <2>1. CASE LoopEnds(k) \/ FindReturns(k) \/ FindFails(k)
    BY <2>1 DEF LoopEnds, FindReturns, FindFails, HubTypeOK
  <2>2. CASE (k = "boot" /\ BootStarts) \/ ResubscribeAll(k)
    BY <2>2 DEF BootStarts, ResubscribeAll, Finding, HubTypeOK
  <2>3. CASE SubscribeToMachineById(k) \/ UnsubscribeFromMachine(k)
    BY <2>3 DEF SubscribeToMachineById, UnsubscribeFromMachine, HubTypeOK
  <2> QED
    BY <2>1, <2>2, <2>3
<1>2. task'[k].pc \in {"finding", "next", "unsubscribing", "done"}
  <2>1. CASE LoopEnds(k) \/ FindFails(k)
    BY <2>1, AfterType DEF LoopEnds, FindFails, HubTypeOK
  <2>2. CASE FindReturns(k)
    BY <2>2 DEF FindReturns, Idle, HubTypeOK
  <2>3. CASE (k = "boot" /\ BootStarts) \/ ResubscribeAll(k)
    BY <2>3 DEF BootStarts, ResubscribeAll, Finding, HubTypeOK, TaskStates
  <2>4. CASE SubscribeToMachineById(k)
    BY <2>4 DEF SubscribeToMachineById, HubTypeOK, TaskStates
  <2>5. CASE UnsubscribeFromMachine(k)
    <3>1. \/ task' = [task EXCEPT ![k].pc = "done"]
          \/ \E m \in Machines, t \in Topics :
               task' = [task EXCEPT ![k] = [Idle EXCEPT !.pc = "unsubscribing", !.machine = m,
                                                        !.topic = t, !.on = client]]
      BY <2>5 DEF UnsubscribeFromMachine
    <3>2. CASE task' = [task EXCEPT ![k].pc = "done"]
      BY <3>2 DEF HubTypeOK, TaskStates
    <3>3. CASE task' # [task EXCEPT ![k].pc = "done"]
      BY <3>1, <3>3 DEF Idle, HubTypeOK
    <3> QED
      BY <3>2, <3>3
  <2> QED
    BY <2>1, <2>2, <2>3, <2>4, <2>5
<1>3. /\ task[k].pc # "subscribing"
      /\ Active(k) \/ (k = "boot" /\ task[k].pc = "idle") \/ Callable(k)
  BY DEF LoopEnds, FindReturns, FindFails, BootStarts, ResubscribeAll, SubscribeToMachineById,
         UnsubscribeFromMachine, Active, Callable
<1>4. k # "boot" => task["boot"].pc = "done"
  BY <1>3, CallAfterBoot DEF CallInv, Callable, Booted
<1>5. OneActive'
  BY <1>1, <1>2, <1>3, <1>4, MoveKeepsOne DEF CallInv
<1>6. registry' = registry /\ \A t \in Topics : entry'[t] \in {entry[t], None}
  BY DEF LoopEnds, FindReturns, FindFails, BootStarts, ResubscribeAll, SubscribeToMachineById,
         UnsubscribeFromMachine
<1>7. task'[k].pc # "subscribing"
  BY <1>2
<1> QED
  BY <1>1, <1>3, <1>5, <1>6, <1>7, TaskCalls

LEMMA CallStep ==
  ASSUME HubTypeOK, CallInv, OneCallAtATime', [HubNext]_allVars
  PROVE  CallInv'
<1>1. CASE \/ UNCHANGED allVars \/ HubStarts \/ HubRetries \/ HubDisconnects
           \/ \E m \in Machines : UpdateMachine(m)
           \/ \E c \in Clients : HubUp(c) \/ HubDialled(c) \/ HubRestored(c)
  <2>1. UNCHANGED <<entry, registry, task>>
    BY <1>1, Restorings DEF allVars, hubVars, HubStarts, HubRetries, HubDisconnects, UpdateMachine, HubUp,
                HubAccepted, HubDialled
  <2> QED
    BY <2>1, ElsewhereCalls
<1>2. ASSUME NEW c \in Clients, HubBroken(c) \/ HubEnded(c) \/ HubSevered(c) PROVE CallInv'
  BY <1>2, Closings, CloseCalls
<1>3. CASE BootStarts
  BY <1>3, OtherTaskCalls DEF AllTasks
<1> QED
  BY <1>1, <1>2, <1>3, NextMachineCalls, AckCalls, OtherTaskCalls DEF HubNext, Microtask, Macrotask

LEMMA CallInit == HubInit => CallInv
  BY DEF HubInit, CallInv, OneActive, Booted, Active, AllTasks, Idle, RequestsRegistered,
         SchemaOfTheRecord

(* As long as the calls of the public methods do not overlap, and topics   *)
(* change in the database: whatever happens to the connections, a topic    *)
(* that is on record has the schema of the machine it is recorded for,     *)
(* unless it is just being subscribed.                                     *)
THEOREM SchemaFollowsRecord == HubSpec /\ []OneCallAtATime => []SchemaOfTheRecord
<1> DEFINE IInv == ClientTypeOK /\ HubTypeOK /\ CallInv
<1>1. HubInit => IInv
  BY HubTypeInit, CallInit
<1>2. IInv /\ OneCallAtATime' /\ [HubNext]_allVars => IInv'
  BY HubIsClientStep, ClientStepType, HubTypeStep, CallStep
<1>3. IInv => SchemaOfTheRecord
  BY DEF CallInv
<1> HIDE DEF IInv
<1> QED
  BY <1>1, <1>2, <1>3, PTL DEF HubSpec

-----------------------------------------------------------------------------
(* What one client delivers is validated.                                  *)

(* A client that was never used wants nothing; a request is on a client    *)
(* that was.                                                               *)
UsedOnly ==
  /\ session # NoClient => session \in Used
  /\ \A c \in Clients : wanted[c] \cup restoring[c] # {} => c \in Used
  /\ \A k \in AllTasks : task[k].pc \in InFlight => task[k].on \in Used

(* A topic whose schema is about to go is not restored any more.           *)
LeavingUnwanted ==
  \A k \in AllTasks : task[k].pc = "unsubscribing" => task[k].topic \notin wanted[task[k].on]

SoleInv ==
  /\ UsedOnly
  /\ SingleClient =>
       /\ WantedCovered
       /\ ValidatedDelivery
       /\ served # {} => session # NoClient
       /\ LeavingUnwanted

(* Steps of the clients that leave the topics alone.                       *)
LEMMA ClientsMoveSole ==
  ASSUME ClientTypeOK, SoleInv, ClientStep, UNCHANGED <<registry, brokerVars, task>>,
         ~\E c \in Clients : Accept(c) \/ Break(c) \/ EndCallback(c) \/ Sever(c)
  PROVE  SoleInv'
<1>1. Used \subseteq Used' /\ (SingleClient' => SingleClient)
  BY UsedGrows
<1>2. session' = session
  BY DEF ClientStep, Open, Refuse, DropSilently, Dial, BeginEnd, Release, clientVars, ClientTypeOK
<1>3. UsedOnly'
  BY <1>1, <1>2 DEF SoleInv, UsedOnly, brokerVars
<1> QED
  BY <1>1, <1>2, <1>3 DEF SoleInv, WantedCovered, ValidatedDelivery, LeavingUnwanted, brokerVars

LEMMA AcceptSole ==
  ASSUME ClientTypeOK, HubTypeOK, SoleInv, NEW c \in Clients, HubAccepted(c)
  PROVE  SoleInv'
<1>1. /\ Accept(c) /\ served' = {} /\ UNCHANGED <<registry, wanted, task>>
      /\ \A d \in Clients : restoring'[d] \subseteq wanted[d] \cup restoring[d]
  BY DEF HubAccepted, Accepted, SessionBegins, HubTypeOK, BrokerTypeOK
<1>2. Used' = Used /\ c \in Used /\ session' = c /\ c # NoClient
  <2>1. \A d \in Clients : conn'[d] = "unused" <=> conn[d] = "unused"
    BY <1>1 DEF Accept, ClientTypeOK
  <2> QED
    BY <1>1, <2>1, ClientsAssumption DEF Accept, Used
<1> QED
  BY <1>1, <1>2 DEF SoleInv, UsedOnly, SingleClient, WantedCovered, ValidatedDelivery, LeavingUnwanted

(* What the broker grants of a restoration has a schema already.           *)
LEMMA RestoredSole ==
  ASSUME HubTypeOK, SoleInv, NEW c \in Clients, HubRestored(c)
  PROVE  SoleInv'
<1>1. /\ Used' = Used /\ UNCHANGED <<session, registry, task>>
      /\ \A d \in Clients : /\ wanted'[d] \subseteq wanted[d]
                             /\ restoring'[d] \subseteq restoring[d]
      /\ served' \subseteq served \cup restoring[c]
      /\ served' # served => session = c
  BY Restorings DEF vars, clientVars, Used, HubTypeOK, BrokerTypeOK
<1>2. UsedOnly'
  BY <1>1 DEF SoleInv, UsedOnly
<1>3. SingleClient => (served' # {} => session # NoClient)
  BY <1>1, ClientsAssumption DEF SoleInv
<1>4. LeavingUnwanted => LeavingUnwanted'
  BY <1>1 DEF LeavingUnwanted, HubTypeOK, RequestsTyped, InFlight
<1>5. WantedCovered /\ ValidatedDelivery => WantedCovered' /\ ValidatedDelivery'
  BY <1>1 DEF WantedCovered, ValidatedDelivery
<1> QED
  BY <1>1, <1>2, <1>3, <1>4, <1>5 DEF SoleInv, SingleClient

(* A connection closes: what is delivered on it ends with it.              *)
LEMMA CloseSole ==
  ASSUME ClientTypeOK, HubTypeOK, SoleInv, NEW c \in Clients,
         HubBroken(c) \/ HubEnded(c) \/ HubSevered(c)
  PROVE  SoleInv'
<1>1. /\ Break(c) \/ EndCallback(c) \/ Sever(c)
      /\ FailRequests(c) /\ wanted' = wanted /\ registry' = registry
      /\ served' = IF session = c THEN {} ELSE served
      /\ \A d \in Clients : restoring'[d] \subseteq restoring[d]
  BY Closings DEF SessionEnds, HubTypeOK, BrokerTypeOK
<1>2. Used' = Used /\ c \in Used
  <2>1. \A d \in Clients : conn'[d] = "unused" <=> conn[d] = "unused"
    BY <1>1 DEF Break, EndCallback, Sever, ClientTypeOK
  <2>2. conn[c] # "unused"
    BY <1>1 DEF Break, EndCallback, Sever
  <2> QED
    BY <2>1, <2>2 DEF Used
<1>3. session' = IF session = c THEN NoClient ELSE session
  BY <1>1 DEF Break, EndCallback, Sever
<1>4. \A k \in AllTasks : task'[k].pc \in InFlight => task'[k] = task[k]
  <2>1. task' = [k \in AllTasks |->
                  IF k \notin Failing(c) THEN task[k]
                  ELSE After(k, IF task[k].pc = "subscribing" THEN "next" ELSE "done")]
    BY <1>1 DEF FailRequests
  <2>2. \A k \in AllTasks : k \in Failing(c) => task'[k].pc \in {"next", "done"}
    BY <2>1, AfterType DEF HubTypeOK
  <2> QED
    BY <2>1, <2>2 DEF InFlight
<1>5. UsedOnly'
  BY <1>1, <1>2, <1>3, <1>4 DEF SoleInv, UsedOnly
<1>6. LeavingUnwanted => LeavingUnwanted'
  BY <1>1, <1>4 DEF LeavingUnwanted, InFlight
<1> QED
  BY <1>1, <1>2, <1>3, <1>5, <1>6 DEF SoleInv, SingleClient, WantedCovered, ValidatedDelivery

(* Steps of the tasks that leave clients, schemas and subscriptions alone  *)
(* and send nothing.                                                       *)
LEMMA TaskSole ==
  ASSUME SoleInv, UNCHANGED <<clientVars, registry, brokerVars>>,
         \A k \in AllTasks : task'[k].pc \in InFlight => task'[k] = task[k]
  PROVE  SoleInv'
<1>1. Used' = Used /\ session' = session
  BY DEF clientVars, Used
<1> QED
  BY <1>1 DEF SoleInv, UsedOnly, SingleClient, WantedCovered, ValidatedDelivery, LeavingUnwanted,
              InFlight, brokerVars

LEMMA NextMachineSole ==
  ASSUME ClientTypeOK, HubTypeOK, OneActive, SoleInv, NEW k \in AllTasks, NextMachine(k)
  PROVE  SoleInv'
<1>1. PICK row \in task[k].rows :
        Skipped(k, row) \/ SubscribeFails(k, row) \/ AlreadyWanted(k, row) \/ SubscribeSent(k, row)
  BY DEF NextMachine
<1>2. /\ task[k].pc = "next" /\ row \in Machines \X (Topics \cup {None})
      /\ UNCHANGED <<clientVars, restoring, served>>
  BY DEF NextMachine, vars, HubTypeOK, TaskStates
<1>3. Used' = Used /\ session' = session
  BY <1>2 DEF clientVars, Used
<1>4. \A j \in AllTasks \ {k} : task'[j] = task[j]
  BY <1>1 DEF Skipped, SubscribeFails, AlreadyWanted, SubscribeSent, RowHandled, HubTypeOK
<1>5. \A j \in AllTasks \ {k} : task[j].pc \notin InFlight
  BY <1>2, SoleRequest DEF Active, InFlight
<1>6. \A t \in Topics : registry[t] # None => registry'[t] # None
  <2>1. CASE Registers(row)
    BY <1>2, <2>1, NoneAssumption DEF Registers, HubTypeOK
  <2>2. CASE registry' = registry
    BY <2>2
  <2> QED
    BY <1>1, <2>1, <2>2 DEF Skipped, SubscribeFails, AlreadyWanted, SubscribeSent
<1>7. CASE Skipped(k, row) \/ SubscribeFails(k, row) \/ AlreadyWanted(k, row)
  <2>1. wanted' = wanted /\ RowHandled(k, row)
    BY <1>7 DEF Skipped, SubscribeFails, AlreadyWanted
  <2>2. task'[k].pc = "next"
    BY <1>2, <2>1 DEF RowHandled, HubTypeOK, TaskStates
  <2>3. \A j \in AllTasks : task'[j].pc \notin InFlight
    BY <1>4, <1>5, <2>2 DEF InFlight
  <2>4. UsedOnly' /\ LeavingUnwanted'
    BY <1>2, <1>3, <2>1, <2>3 DEF SoleInv, UsedOnly, LeavingUnwanted, InFlight
  <2> QED
    BY <1>2, <1>3, <1>6, <2>1, <2>4 DEF SoleInv, SingleClient, WantedCovered, ValidatedDelivery,
                                        HubTypeOK, BrokerTypeOK
<1>8. CASE SubscribeSent(k, row)
  <2>1. /\ client \in Used /\ row[2] \in Topics /\ registry'[row[2]] # None
        /\ wanted' = [wanted EXCEPT ![client] = @ \cup {row[2]}]
    BY <1>2, <1>8, NoneAssumption DEF SubscribeSent, Reachable, Registers, ClientTypeOK, Used, HubTypeOK
  <2>2. task'[k].pc = "subscribing" /\ task'[k].on = client
    BY <1>8 DEF SubscribeSent, HubTypeOK
  <2>3. \A c \in Clients : wanted'[c] \subseteq wanted[c] \cup {row[2]}
    BY <2>1 DEF HubTypeOK, BrokerTypeOK
  <2>4. \A c \in Clients \ {client} : wanted'[c] = wanted[c]
    BY <2>1 DEF HubTypeOK, BrokerTypeOK
  <2>5. UsedOnly'
    BY <1>2, <1>3, <1>4, <1>5, <2>1, <2>2, <2>4 DEF SoleInv, UsedOnly
  <2>6. LeavingUnwanted'
    BY <1>4, <1>5, <2>2 DEF LeavingUnwanted, InFlight
  <2>7. WantedCovered => WantedCovered'
    BY <1>2, <1>6, <2>1, <2>3 DEF WantedCovered, HubTypeOK, BrokerTypeOK
  <2> QED
    BY <1>2, <1>3, <1>6, <2>5, <2>6, <2>7
       DEF SoleInv, SingleClient, ValidatedDelivery, HubTypeOK, BrokerTypeOK
<1> QED
  BY <1>1, <1>7, <1>8

LEMMA AckSole ==
  ASSUME ClientTypeOK, HubTypeOK, OneActive, RequestsRegistered, SoleInv,
         NEW k \in AllTasks, AckArrives(k)
  PROVE  SoleInv'
<1> DEFINE t == task[k].topic
           c == task[k].on
<1>1. /\ task[k].pc \in InFlight /\ UNCHANGED <<clientVars, restoring>> /\ restoring[c] = {}
      /\ t \in Topics /\ task[k].machine \in Machines /\ c \in Clients
  BY DEF AckArrives, SubAcked, SubRefused, UnsubAcked, Awaits, Answers, InFlight, HubTypeOK,
         RequestsTyped, vars
<1>2. Used' = Used /\ session' = session /\ c \in Used
  BY <1>1 DEF clientVars, Used, SoleInv, UsedOnly
<1>3. \A j \in AllTasks : task'[j].pc \notin InFlight
  <2>1. \A j \in AllTasks \ {k} : task[j].pc \notin InFlight /\ task'[j] = task[j]
    BY <1>1, SoleRequest DEF Active, InFlight, AckArrives, SubAcked, SubRefused, UnsubAcked, HubTypeOK
  <2>2. task'[k].pc \in {"next", "done"}
    BY AfterType DEF AckArrives, SubAcked, SubRefused, UnsubAcked, HubTypeOK
  <2> QED
    BY <2>1, <2>2 DEF InFlight
<1>4. LeavingUnwanted'
  BY <1>3 DEF LeavingUnwanted, InFlight
<1>5. SingleClient /\ session # NoClient => session = c
  BY <1>2 DEF SingleClient, SoleInv, UsedOnly
<1> HIDE DEF t, c
<1>6. CASE SubAcked(k)
  <2>1. /\ wanted' = wanted /\ registry' = registry
        /\ served' = IF session = c THEN served \cup {t} ELSE served
    BY <1>6 DEF SubAcked, Granting, t, c
  <2>2. registry[t] # None
    BY <1>1, <1>6, NoneAssumption DEF RequestsRegistered, SubAcked, Awaits, t
  <2>3. c # NoClient
    BY <1>1, ClientsAssumption
  <2> QED
    BY <1>1, <1>2, <1>3, <1>4, <2>1, <2>2, <2>3
       DEF SoleInv, UsedOnly, SingleClient, WantedCovered, ValidatedDelivery
<1>7. CASE SubRefused(k)
  <2>1. \A d \in Clients : wanted'[d] \subseteq wanted[d]
    BY <1>7 DEF SubRefused, HubTypeOK, BrokerTypeOK
  <2>2. registry' = registry /\ served' = served
    BY <1>7 DEF SubRefused
  <2> QED
    BY <1>1, <1>2, <1>3, <1>4, <2>1, <2>2
       DEF SoleInv, UsedOnly, SingleClient, WantedCovered, ValidatedDelivery
<1>8. CASE UnsubAcked(k)
  <2>1. /\ wanted' = wanted /\ registry' = [registry EXCEPT ![t] = None]
        /\ served' = IF session = c THEN served \ {t} ELSE served
    BY <1>8 DEF UnsubAcked, t, c
  <2>2. \A u \in Topics \ {t} : registry'[u] = registry[u]
    BY <2>1 DEF HubTypeOK
  <2>3. UsedOnly'
    BY <1>1, <1>2, <1>3, <2>1 DEF SoleInv, UsedOnly
  <2>4. SingleClient => WantedCovered'
    <3>1. SingleClient => t \notin wanted[c]
      BY <1>8 DEF SoleInv, LeavingUnwanted, UnsubAcked, Awaits, t, c
    <3>2. SingleClient => \A d \in Clients : t \notin wanted[d] \cup restoring[d]
      BY <1>1, <1>2, <3>1 DEF SoleInv, UsedOnly, SingleClient
    <3> QED
      BY <1>1, <2>1, <2>2, <3>2 DEF SoleInv, WantedCovered, HubTypeOK, BrokerTypeOK
  <2>5. SingleClient => t \notin served'
    BY <1>5, <2>1 DEF SoleInv
  <2>6. SingleClient => ValidatedDelivery'
    BY <2>1, <2>2, <2>5 DEF SoleInv, ValidatedDelivery, HubTypeOK, BrokerTypeOK
  <2> QED
    BY <1>2, <1>4, <2>1, <2>3, <2>4, <2>6 DEF SoleInv, SingleClient
<1> QED
  BY <1>6, <1>7, <1>8 DEF AckArrives

(* unsubscribeFromMachine() sends its request: mqtt.js forgets the topic.  *)
LEMMA UnsubscribeSole ==
  ASSUME ClientTypeOK, HubTypeOK, OneActive, OneActive', SoleInv, NEW k \in AllTasks,
         UnsubscribeFromMachine(k)
  PROVE  SoleInv'
<1>1. UNCHANGED <<clientVars, registry, restoring, served>>
  BY DEF UnsubscribeFromMachine, vars
<1>2. Used' = Used /\ session' = session
  BY <1>1 DEF clientVars, Used
<1>3. CASE task' = [task EXCEPT ![k].pc = "done"] /\ UNCHANGED brokerVars
  <2>1. task'[k].pc = "done" /\ \A j \in AllTasks \ {k} : task'[j] = task[j]
    BY <1>3 DEF HubTypeOK, TaskStates
  <2>2. \A j \in AllTasks : task'[j].pc \in InFlight => task'[j] = task[j]
    BY <2>1 DEF InFlight
  <2> QED
    BY <1>1, <1>3, <2>2, TaskSole
<1>4. ASSUME NEW m \in Machines, NEW t \in Topics, Reachable,
             task' = [task EXCEPT ![k] = [Idle EXCEPT !.pc = "unsubscribing", !.machine = m,
                                                      !.topic = t, !.on = client]],
             wanted' = [wanted EXCEPT ![client] = @ \ {t}]
      PROVE  SoleInv'
  <2>1. client \in Used
    BY <1>4 DEF Reachable, ClientTypeOK, Used
  <2>2. /\ task'[k].pc = "unsubscribing" /\ task'[k].topic = t /\ task'[k].on = client
        /\ \A j \in AllTasks \ {k} : task'[j] = task[j]
    BY <1>4 DEF Idle, HubTypeOK
  <2>3. t \notin wanted'[client] /\ \A c \in Clients : wanted'[c] \subseteq wanted[c]
    BY <1>4, <2>1 DEF HubTypeOK, BrokerTypeOK, Used
  <2>4. \A j \in AllTasks \ {k} : task'[j].pc \notin InFlight
    BY <2>2 DEF OneActive, Active, InFlight
  <2>5. UsedOnly'
    BY <1>1, <1>2, <2>1, <2>2, <2>3, <2>4 DEF SoleInv, UsedOnly
  <2>6. LeavingUnwanted'
    BY <2>2, <2>3, <2>4 DEF LeavingUnwanted, InFlight
  <2> QED
    BY <1>1, <1>2, <2>3, <2>5, <2>6 DEF SoleInv, SingleClient, WantedCovered, ValidatedDelivery
<1> QED
  BY <1>1, <1>3, <1>4 DEF UnsubscribeFromMachine, brokerVars

(* A task begins, is answered by the database or ends.                     *)
LEMMA OtherTaskSole ==
  ASSUME HubTypeOK, SoleInv, NEW k \in AllTasks,
         \/ LoopEnds(k) \/ FindReturns(k) \/ FindFails(k) \/ (k = "boot" /\ BootStarts)
         \/ ResubscribeAll(k) \/ SubscribeToMachineById(k)
  PROVE  SoleInv'
<1>1. UNCHANGED <<clientVars, registry, brokerVars>>
  BY DEF LoopEnds, FindReturns, FindFails, BootStarts, ResubscribeAll, SubscribeToMachineById, vars
<1>2. task'[k].pc \in {"finding", "next", "done"} /\ \A j \in AllTasks \ {k} : task'[j] = task[j]
  <2>1. CASE LoopEnds(k) \/ FindFails(k)
    BY <2>1, AfterType DEF LoopEnds, FindFails, HubTypeOK
  <2>2. CASE FindReturns(k)
    BY <2>2 DEF FindReturns, Idle, HubTypeOK
  <2>3. CASE (k = "boot" /\ BootStarts) \/ ResubscribeAll(k)
    BY <2>3 DEF BootStarts, ResubscribeAll, Finding, HubTypeOK, TaskStates
  <2>4. CASE SubscribeToMachineById(k)
    BY <2>4 DEF SubscribeToMachineById, HubTypeOK, TaskStates
  <2> QED
    BY <2>1, <2>2, <2>3, <2>4
<1>3. \A j \in AllTasks : task'[j].pc \in InFlight => task'[j] = task[j]
  BY <1>2 DEF InFlight
<1> QED
  BY <1>1, <1>3, TaskSole

LEMMA SoleStep ==
  ASSUME ClientTypeOK, HubTypeOK, CallInv, CallInv', SoleInv, [HubNext]_allVars
  PROVE  SoleInv'
<1>0. OneActive /\ OneActive' /\ RequestsRegistered
  BY DEF CallInv
<1>1. CASE \/ UNCHANGED allVars \/ HubStarts \/ HubRetries \/ HubDisconnects
           \/ \E m \in Machines : UpdateMachine(m)
           \/ \E c \in Clients : HubDialled(c) \/ (HubUp(c) /\ ~HubAccepted(c))
  <2>1. UNCHANGED <<registry, brokerVars, task>>
    BY <1>1 DEF HubStarts, HubRetries, HubDisconnects, UpdateMachine, HubDialled, HubUp, hubVars, allVars
  <2>2. ~\E c \in Clients : Accept(c) \/ Break(c) \/ EndCallback(c) \/ Sever(c)
    <3>1. \A c \in Clients :
            Accept(c) \/ Break(c) \/ EndCallback(c) \/ Sever(c) =>
              \/ conn[c] = "connecting" /\ conn'[c] = "connected"
              \/ conn[c] = "connected" /\ conn'[c] = "waiting"
              \/ conn[c] = "ending" /\ conn'[c] \in {"ended", "severed"}
      BY DEF Accept, Break, EndCallback, Sever, ClientTypeOK
    <3>2. CASE UNCHANGED allVars \/ \E m \in Machines : UpdateMachine(m)
      BY <3>1, <3>2 DEF allVars, UpdateMachine, vars, clientVars
    <3>3. CASE HubStarts \/ HubRetries
      BY <3>1, <3>3 DEF HubStarts, HubRetries, OnModuleInit, ReconnectTimer, ConnectFrom, Open,
                        clientVars, ClientTypeOK
    <3>4. CASE HubDisconnects
      BY <3>1, <3>4 DEF HubDisconnects, OnModuleDestroy, OnApplicationShutdown, DisconnectFrom,
                        BeginEnd, Release, ClientTypeOK
    <3>5. CASE \E c \in Clients : HubDialled(c) \/ (HubUp(c) /\ ~HubAccepted(c))
      BY <3>1, <3>5 DEF HubDialled, Dialled, Dial, HubUp, Refused, Refuse, ClosedSilently,
                        DropSilently, ClientTypeOK
    <3> QED
      BY <1>1, <3>2, <3>3, <3>4, <3>5
  <2> QED
    BY <2>1, <2>2, HubIsClientStep, ClientsMoveSole
<1>2. CASE BootStarts
  BY <1>2, OtherTaskSole DEF AllTasks
<1> QED
  BY <1>0, <1>1, <1>2, NextMachineSole, AckSole, UnsubscribeSole, OtherTaskSole, CloseSole, RestoredSole,
     AcceptSole DEF HubNext, Microtask, Macrotask

LEMMA SoleInit == HubInit => SoleInv
  BY DEF HubInit, BrokerInit, Init, ClientInit, SoleInv, UsedOnly, WantedCovered, ValidatedDelivery,
         LeavingUnwanted, Idle, InFlight

(* As long as the calls of the public methods do not overlap, and topics   *)
(* change in the database: while the process has had one client, the       *)
(* broker delivers nothing that has no schema, although a schema goes only *)
(* after the acknowledgement of the UNSUBSCRIBE.                           *)
THEOREM CallsStayValidated == HubSpec /\ []OneCallAtATime => []ValidatedBySingleClient
<1> DEFINE IInv == ClientTypeOK /\ HubTypeOK /\ CallInv /\ SoleInv /\ IsFiniteSet(Used)
<1>1. HubInit => IInv
  <2>1. HubInit => Used = {}
    BY DEF HubInit, Init, ClientInit, Used
  <2> QED
    BY <2>1, HubTypeInit, CallInit, SoleInit, FS_EmptySet
<1>2. IInv /\ OneCallAtATime' /\ [HubNext]_allVars => IInv'
  BY HubIsClientStep, ClientStepType, HubTypeStep, CallStep, SoleStep, UsedFinite
<1>3. IInv => ValidatedBySingleClient
  BY SingleByCount DEF SoleInv, ValidatedBySingleClient
<1> HIDE DEF IInv
<1> QED
  BY <1>1, <1>2, <1>3, PTL DEF HubSpec
=============================================================================
