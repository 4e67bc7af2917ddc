------------------------- MODULE MqttDispatcherProofs -------------------------
(***************************************************************************)
(* Theorems about MqttDispatcher, for every set of clients, machines and   *)
(* topics and every number of retries.                                     *)
(***************************************************************************)
EXTENDS MqttDispatcher, MqttIngestorProofs

(* Every step of the dispatcher's system is a step of MqttIngestor, or it  *)
(* leaves the clients alone.                                               *)
LEMMA HubIsClientStep == [HubNext]_allVars => ClientStep
<1> SUFFICES ASSUME [HubNext]_allVars PROVE [Next]_vars \/ UNCHANGED clientVars
  BY NextIsClientStep DEF ClientStep
<1>1. CASE UNCHANGED allVars
  BY <1>1 DEF allVars
<1>2. CASE Microtask
  BY <1>2 DEF Microtask, NextMachine, LoopEnds, vars
<1>3. CASE HubStarts \/ HubRetries \/ HubDisconnects
  BY <1>3 DEF HubStarts, HubRetries, HubDisconnects, Next, WiredNext
<1>4. CASE \/ BootStarts \/ \E m \in Machines : UpdateMachine(m)
           \/ \E c \in Clients : HubRestored(c)
  BY <1>4 DEF BootStarts, UpdateMachine, HubRestored, RestoreAcked, RestoreGranted, RestoreRefused,
              Restoration, vars
<1>5. ASSUME NEW c \in Clients, HubUp(c) \/ HubDialled(c) \/ HubBroken(c) \/ HubEnded(c)
             \/ HubSevered(c)
      PROVE  Next
  BY <1>5 DEF HubUp, HubAccepted, HubDialled, HubBroken, HubEnded, HubSevered,
              Next, WiredNext
<1>6. ASSUME NEW k \in AllTasks,
             \/ AckArrives(k) \/ ResubscribeAll(k) \/ SubscribeToMachineById(k)
             \/ UnsubscribeFromMachine(k) \/ FindReturns(k) \/ FindFails(k)
      PROVE  UNCHANGED clientVars
  BY <1>6 DEF AckArrives, SubAcked, SubRefused, UnsubAcked, ResubscribeAll, FindFails,
              SubscribeToMachineById, UnsubscribeFromMachine, FindReturns, vars
<1> QED
  BY <1>1, <1>2, <1>3, <1>4, <1>5, <1>6 DEF HubNext, Macrotask

-----------------------------------------------------------------------------
(* Types.                                                                  *)

(* A task that goes on keeps its type.                                     *)
LEMMA AfterType ==
  ASSUME task \in [AllTasks -> TaskStates], NEW k \in AllTasks,
         NEW pc \in {"idle", "finding", "next", "subscribing", "unsubscribing", "done"}
  PROVE  After(k, pc) \in TaskStates /\ After(k, pc).pc = pc
  BY DEF After, Idle, TaskStates

(* One row of the loop keeps the types.                                    *)
LEMMA NextMachineType ==
  ASSUME ClientTypeOK, HubTypeOK, NEW k \in AllTasks, NextMachine(k)
  PROVE  HubTypeOK'
<1> USE DEF HubTypeOK, BrokerTypeOK, brokerVars
<1>1. PICK row \in task[k].rows :
        Skipped(k, row) \/ SubscribeFails(k, row) \/ AlreadyWanted(k, row) \/ SubscribeSent(k, row)
  BY DEF NextMachine
<1>2. /\ row \in Machines \X (Topics \cup {None})
      /\ topicOf' = topicOf /\ UNCHANGED <<restoring, served, lapsed>> /\ task[k].pc = "next"
  BY DEF NextMachine, TaskStates
<1>3. ASSUME RowHandled(k, row)
      PROVE  task' \in [AllTasks -> TaskStates] /\ RequestsTyped'
  BY <1>2, <1>3 DEF RowHandled, TaskStates, RequestsTyped, InFlight
<1>4. ASSUME Registers(row)
      PROVE  row[2] \in Topics /\ registry' \in [Topics -> Machines \cup {None}]
  BY <1>2, <1>4 DEF Registers
<1>5. CASE Skipped(k, row)
  BY <1>2, <1>3, <1>5 DEF Skipped
<1>6. CASE SubscribeFails(k, row) \/ AlreadyWanted(k, row)
  <2>1. Recorded(row[1], FALSE) \in Entries /\ Recorded(row[1], TRUE) \in Entries
    BY <1>2 DEF Recorded, Entries
  <2>2. Registers(row) /\ RowHandled(k, row) /\ wanted' = wanted
    BY <1>6 DEF SubscribeFails, AlreadyWanted
  <2>3. row[2] \in Topics
    BY <1>4, <2>2
  <2>4. entry' \in [Topics -> Entries \cup {None}]
    BY <1>6, <2>1, <2>3 DEF SubscribeFails, AlreadyWanted
  <2>5. subscribed' \subseteq Topics
    BY <1>6, <2>3 DEF SubscribeFails, AlreadyWanted
  <2> QED
    BY <1>2, <1>3, <1>4, <2>2, <2>4, <2>5
<1>7. CASE SubscribeSent(k, row)
  <2>1. client \in Clients /\ row[1] \in Machines /\ row[2] \in Topics
    BY <1>2, <1>4, <1>7 DEF SubscribeSent, Reachable, ClientTypeOK
  <2>2. task' \in [AllTasks -> TaskStates]
    BY <1>7, <2>1 DEF SubscribeSent, TaskStates
  <2>3. RequestsTyped'
    BY <1>7, <2>1 DEF SubscribeSent, RequestsTyped, InFlight
  <2> QED
    BY <1>2, <1>4, <1>7, <2>1, <2>2, <2>3 DEF SubscribeSent
<1> QED
  BY <1>1, <1>5, <1>6, <1>7

(* An acknowledgement does.                                                *)
LEMMA AckType ==
  ASSUME HubTypeOK, NEW k \in AllTasks, AckArrives(k)
  PROVE  HubTypeOK'
<1> USE DEF HubTypeOK, BrokerTypeOK, brokerVars
<1>1. task[k].topic \in Topics /\ task[k].machine \in Machines /\ task[k].on \in Clients
  BY DEF AckArrives, SubAcked, SubRefused, UnsubAcked, Awaits, RequestsTyped, InFlight
<1>2. Recorded(task[k].machine, TRUE) \in Entries /\ Recorded(task[k].machine, FALSE) \in Entries
  BY <1>1 DEF Recorded, Entries
<1>3. /\ After(k, "next") \in TaskStates /\ After(k, "done") \in TaskStates
      /\ After(k, "next").pc = "next" /\ After(k, "done").pc = "done"
  BY AfterType
<1>4. task' \in [AllTasks -> TaskStates] /\ RequestsTyped'
  <2>1. PICK pc \in {"next", "done"} : task' = [task EXCEPT ![k] = After(k, pc)]
    BY DEF AckArrives, SubAcked, SubRefused, UnsubAcked
  <2>2. After(k, pc) \in TaskStates /\ After(k, pc).pc \notin InFlight
    BY <1>3, <2>1 DEF InFlight
  <2>3. task' \in [AllTasks -> TaskStates]
    BY <2>1, <2>2
  <2>4. RequestsTyped'
    BY <2>1, <2>2 DEF RequestsTyped
  <2> QED
    BY <2>3, <2>4
<1>5. CASE SubAcked(k)
  BY <1>1, <1>2, <1>4, <1>5 DEF SubAcked, Granting
<1>6. CASE SubRefused(k)
  BY <1>1, <1>2, <1>4, <1>6 DEF SubRefused
<1>7. CASE UnsubAcked(k)
  BY <1>1, <1>4, <1>7 DEF UnsubAcked
<1> QED
  BY <1>5, <1>6, <1>7 DEF AckArrives

(* The connection of a client closes: so do the requests it had.           *)
LEMMA FailRequestsType ==
  ASSUME HubTypeOK, NEW c \in Clients, FailRequests(c)
  PROVE  /\ entry' \in [Topics -> Entries \cup {None}]
         /\ task' \in [AllTasks -> TaskStates]
         /\ RequestsTyped'
<1> USE DEF HubTypeOK, BrokerTypeOK, brokerVars
<1> DEFINE For(t) == {k \in Failing(c) : task[k].pc = "subscribing" /\ task[k].topic = t}
<1>1. PICK last \in [Topics -> AllTasks] :
        /\ \A t \in Topics : For(t) # {} => last[t] \in For(t)
        /\ entry' = [t \in Topics |->
                       IF For(t) = {} THEN entry[t] ELSE Recorded(task[last[t]].machine, FALSE)]
  BY Zenon DEF FailRequests
<1>2. ASSUME NEW t \in Topics, For(t) # {}
      PROVE  Recorded(task[last[t]].machine, FALSE) \in Entries
  <2>1. last[t] \in AllTasks /\ task[last[t]].pc \in InFlight
    BY <1>1, <1>2 DEF Failing
  <2> QED
    BY <2>1 DEF RequestsTyped, Recorded, Entries
<1>3. entry' \in [Topics -> Entries \cup {None}]
  <2> HIDE DEF For
  <2> QED
    BY <1>1, <1>2
<1>4. \A k \in AllTasks : /\ After(k, "next") \in TaskStates /\ After(k, "done") \in TaskStates
                          /\ After(k, "next").pc = "next" /\ After(k, "done").pc = "done"
  BY AfterType
<1>5. task' \in [AllTasks -> TaskStates] /\ RequestsTyped'
  BY <1>4 DEF FailRequests, RequestsTyped, InFlight
<1> QED
  BY <1>3, <1>5

(* When a connection ends or is severed, its requests fail like those of   *)
(* one that breaks: an end() that completes had none left.                 *)
LEMMA Closings ==
  ASSUME HubTypeOK, NEW c \in Clients, HubBroken(c) \/ HubEnded(c) \/ HubSevered(c)
  PROVE  /\ FailRequests(c) /\ SessionEnds(c) /\ UNCHANGED <<topicOf, registry>>
         /\ Break(c) \/ EndCallback(c) \/ Sever(c)
<1>1. CASE HubBroken(c) \/ HubSevered(c)
  BY <1>1 DEF HubBroken, HubSevered, Lost, Evicted, Severed
<1>2. CASE HubEnded(c)
  <2>1. Failing(c) = {} /\ entry' = entry /\ task' = task
    BY <1>2 DEF HubEnded, Owed
  <2>2. /\ entry' = [t \in Topics |-> entry[t]]
        /\ task' = [k \in AllTasks |-> IF k \notin Failing(c) THEN task[k]
                       ELSE After(k, IF task[k].pc = "subscribing" THEN "next" ELSE "done")]
    BY <2>1 DEF HubTypeOK
  <2> DEFINE For(t) == {k \in Failing(c) : task[k].pc = "subscribing" /\ task[k].topic = t}
             last == [t \in Topics |-> "boot"]
  <2>3. last \in [Topics -> AllTasks] /\ \A t \in Topics : For(t) = {}
    BY <2>1 DEF AllTasks
  <2>4. entry' = [t \in Topics |->
                    IF For(t) = {} THEN entry[t] ELSE Recorded(task[last[t]].machine, FALSE)]
    BY <2>2, <2>3
  <2>5. FailRequests(c)
    BY <2>2, <2>3, <2>4, Zenon DEF FailRequests
  <2> QED
    BY <1>2, <2>5 DEF HubEnded, EndDone
<1> QED
  BY <1>1, <1>2

(* A restoration that is answered changes what mqtt.js wants and what the  *)
(* broker serves, and nothing else.                                        *)
LEMMA Restorings ==
  ASSUME NEW c \in Clients, HubRestored(c)
  PROVE  /\ UNCHANGED <<vars, topicOf, registry, entry, subscribed, task>>
         /\ restoring' = [restoring EXCEPT ![c] = {}]
         /\ \E granted \in SUBSET restoring[c] :
              /\ served' = IF session = c THEN served \cup granted ELSE served
              /\ \/ /\ granted = restoring[c]
                    /\ wanted' = wanted /\ lapsed' = lapsed
                 \/ /\ wanted' = [wanted EXCEPT ![c] = @ \ restoring[c]]
                    /\ lapsed' = lapsed \cup restoring[c]
<1>1. CASE RestoreGranted(c)
  BY <1>1 DEF HubRestored, RestoreGranted, Restoration
<1>2. CASE RestoreRefused(c)
  BY <1>2, Zenon DEF HubRestored, RestoreRefused, Restoration
<1> QED
  BY <1>1, <1>2 DEF HubRestored, RestoreAcked

(* The types are kept by every step.                                       *)
LEMMA HubTypeStep ==
  ASSUME ClientTypeOK, HubTypeOK, [HubNext]_allVars
  PROVE  HubTypeOK'
<1> USE DEF HubTypeOK, BrokerTypeOK, brokerVars
<1>1. CASE UNCHANGED allVars
  BY <1>1 DEF allVars, hubVars, RequestsTyped
<1>2. CASE Microtask
  <2>1. ASSUME NEW k \in AllTasks, LoopEnds(k) PROVE HubTypeOK'
    BY <2>1, AfterType DEF LoopEnds, RequestsTyped, InFlight
  <2> QED
    BY <1>2, <2>1, NextMachineType DEF Microtask
<1>3. CASE HubStarts \/ HubRetries \/ HubDisconnects
  BY <1>3 DEF HubStarts, HubRetries, HubDisconnects, hubVars, RequestsTyped
<1>4. CASE BootStarts
  BY <1>4 DEF BootStarts, Finding, TaskStates, RequestsTyped, InFlight, AllTasks
<1>5. CASE \E m \in Machines : UpdateMachine(m)
  BY <1>5 DEF UpdateMachine, RequestsTyped
<1>6. ASSUME NEW c \in Clients, HubUp(c) \/ HubDialled(c) PROVE HubTypeOK'
  BY <1>6 DEF HubUp, HubAccepted, HubDialled, SessionBegins, hubVars, RequestsTyped
<1>7. ASSUME NEW c \in Clients, HubBroken(c) \/ HubEnded(c) \/ HubSevered(c) PROVE HubTypeOK'
  <2>1. FailRequests(c) /\ SessionEnds(c) /\ UNCHANGED <<topicOf, registry>>
    BY <1>7, Closings
  <2>2. subscribed' \subseteq Topics
    BY <1>7 DEF HubBroken, HubEnded, HubSevered
  <2>3. BrokerTypeOK'
    BY <2>1 DEF SessionEnds
  <2> QED
    BY <2>1, <2>2, <2>3, FailRequestsType
<1>8. ASSUME NEW k \in AllTasks, ResubscribeAll(k) \/ SubscribeToMachineById(k)
      PROVE  HubTypeOK'
  <2>1. CASE ResubscribeAll(k)
    BY <2>1 DEF ResubscribeAll, Finding, TaskStates, RequestsTyped, InFlight
  <2>2. CASE SubscribeToMachineById(k)
    <3>1. PICK m \in Machines : task' = [task EXCEPT ![k].pc = "finding", ![k].machine = m]
      BY <2>2 DEF SubscribeToMachineById
    <3>2. task' \in [AllTasks -> TaskStates]
      <4>1. task[k] \in TaskStates
        OBVIOUS
      <4>2. task' = [task EXCEPT ![k] = [task[k] EXCEPT !.pc = "finding", !.machine = m]]
        BY <3>1
      <4>3. [task[k] EXCEPT !.pc = "finding", !.machine = m] \in TaskStates
        BY <4>1 DEF TaskStates
      <4> QED
        BY <4>2, <4>3
    <3>3. \A j \in AllTasks : task'[j].pc \in InFlight => task'[j] = task[j]
      BY <3>1 DEF InFlight, TaskStates
    <3>4. RequestsTyped'
      BY <3>3 DEF RequestsTyped
    <3> QED
      BY <2>2, <3>2, <3>4 DEF SubscribeToMachineById
  <2> QED
    BY <1>8, <2>1, <2>2
<1>9. ASSUME NEW k \in AllTasks, FindReturns(k) \/ FindFails(k) PROVE HubTypeOK'
  <2>1. CASE FindFails(k)
    BY <2>1, AfterType DEF FindFails, RequestsTyped, InFlight
  <2>2. CASE FindReturns(k)
    <3> DEFINE asked == IF task[k].machine = None THEN Machines ELSE {task[k].machine}
    <3> DEFINE next == [Idle EXCEPT !.pc = "next", !.rows = {<<m, topicOf[m]>> : m \in asked}]
    <3>1. asked \subseteq Machines
      BY DEF TaskStates
    <3>2. {<<m, topicOf[m]>> : m \in asked} \subseteq Machines \X (Topics \cup {None})
      BY <3>1
    <3>3. next \in TaskStates /\ next.pc = "next"
      BY <3>2 DEF Idle, TaskStates
    <3>4. task' = [task EXCEPT ![k] = next]
      BY <2>2 DEF FindReturns
    <3> HIDE DEF next
    <3>5. task' \in [AllTasks -> TaskStates] /\ RequestsTyped'
      BY <3>3, <3>4 DEF RequestsTyped, InFlight
    <3> QED
      BY <2>2, <3>5 DEF FindReturns
  <2> QED
    BY <1>9, <2>1, <2>2
<1>10. ASSUME NEW k \in AllTasks, UnsubscribeFromMachine(k) PROVE HubTypeOK'
  <2>1. PICK m \in Machines :
          LET held == {t \in Topics : entry[t] # None /\ entry[t].machine = m} IN
          \/ /\ task' = [task EXCEPT ![k].pc = "done"]
             /\ UNCHANGED wanted
          \/ /\ Reachable
             /\ \E t \in held :
                  /\ task' = [task EXCEPT ![k] = [Idle EXCEPT !.pc = "unsubscribing", !.machine = m,
                                                              !.topic = t, !.on = client]]
                  /\ wanted' = [wanted EXCEPT ![client] = @ \ {t}]
    BY <1>10 DEF UnsubscribeFromMachine
  <2>2. UNCHANGED <<topicOf, registry, entry, subscribed, restoring, served, lapsed>>
    BY <1>10 DEF UnsubscribeFromMachine
  <2>3. CASE task' = [task EXCEPT ![k].pc = "done"] /\ UNCHANGED wanted
    BY <2>2, <2>3 DEF TaskStates, RequestsTyped, InFlight
  <2>4. ASSUME NEW t \in Topics, Reachable,
               task' = [task EXCEPT ![k] = [Idle EXCEPT !.pc = "unsubscribing", !.machine = m,
                                                        !.topic = t, !.on = client]],
               wanted' = [wanted EXCEPT ![client] = @ \ {t}]
        PROVE  HubTypeOK'
    <3>1. client \in Clients
      BY <2>4 DEF Reachable, ClientTypeOK
    <3>2. task' \in [AllTasks -> TaskStates] /\ RequestsTyped'
      BY <2>4, <3>1 DEF Idle, TaskStates, RequestsTyped, InFlight
    <3> QED
      BY <2>2, <2>4, <3>1, <3>2
  <2> QED
    BY <2>1, <2>3, <2>4
<1>11. ASSUME NEW k \in AllTasks, AckArrives(k) PROVE HubTypeOK'
  BY <1>11, AckType
<1>12. ASSUME NEW c \in Clients, HubRestored(c) PROVE HubTypeOK'
  <2>1. RequestsTyped' /\ UNCHANGED <<topicOf, registry, entry, subscribed, task>>
    BY <1>12, Restorings DEF RequestsTyped
  <2>2. BrokerTypeOK'
    BY <1>12, Restorings
  <2> QED
    BY <2>1, <2>2
<1> QED
  BY <1>1, <1>2, <1>3, <1>4, <1>5, <1>6, <1>7, <1>8, <1>9, <1>10, <1>11, <1>12 DEF HubNext, Macrotask

LEMMA HubTypeInit == HubInit => ClientTypeOK /\ HubTypeOK
<1> SUFFICES ASSUME HubInit PROVE ClientTypeOK /\ HubTypeOK
  OBVIOUS
<1>1. ClientTypeOK
  BY TypeInit DEF HubInit, TypeOK
<1>2. HubTypeOK
  BY DEF HubInit, HubTypeOK, BrokerInit, BrokerTypeOK, RequestsTyped, InFlight, Idle, TaskStates
<1> QED
  BY <1>1, <1>2

(* Whatever is called and whatever happens to the connections, every       *)
(* variable keeps its type, and a request in flight is about a topic of a  *)
(* machine on a client of the process.                                     *)
THEOREM HubTypeCorrect == HubSpec => [](ClientTypeOK /\ HubTypeOK)
<1>1. ClientTypeOK /\ HubTypeOK /\ [HubNext]_allVars => (ClientTypeOK /\ HubTypeOK)'
  BY HubIsClientStep, ClientStepType, HubTypeStep
<1> QED
  BY <1>1, HubTypeInit, PTL DEF HubSpec

-----------------------------------------------------------------------------
(* As wired the boot is the only task, and it only subscribes.             *)

LEMMA OnlyBoot == ASSUME Tasks = {} PROVE AllTasks = {"boot"}
  BY DEF AllTasks

LEMMA NextMachineDelivers ==
  ASSUME ClientTypeOK, HubTypeOK, DeliveryInv, Tasks = {}, NEW k \in AllTasks, NextMachine(k)
  PROVE  DeliveryInv'
<1> USE DEF DeliveryInv
<1>1. PICK row \in task[k].rows :
        Skipped(k, row) \/ SubscribeFails(k, row) \/ AlreadyWanted(k, row) \/ SubscribeSent(k, row)
  BY DEF NextMachine
<1>2. /\ row \in Machines \X (Topics \cup {None}) /\ row[1] # None
      /\ served' = served /\ restoring' = restoring /\ k = "boot" /\ task[k].pc = "next"
  BY OnlyBoot, NoneAssumption DEF NextMachine, TaskStates, HubTypeOK
<1>3. Requested("subscribing") = {}
  BY <1>2, OnlyBoot DEF Requested
<1>4. ASSUME RowHandled(k, row) PROVE task'["boot"].pc = "next"
  BY <1>2, <1>4, OnlyBoot DEF RowHandled, HubTypeOK, TaskStates
<1>5. ASSUME Registers(row)
      PROVE  /\ row[2] \in Topics
             /\ \A t \in Topics : registry'[t] = IF t = row[2] THEN row[1] ELSE registry[t]
  BY <1>2, <1>5 DEF Registers, HubTypeOK
<1>6. CASE Skipped(k, row)
  BY <1>2, <1>3, <1>4, <1>6, OnlyBoot
     DEF Skipped, RequestsCovered, WantedCovered, ValidatedDelivery, SchemaOfTheRecord, Requested
<1>7. CASE SubscribeFails(k, row) \/ AlreadyWanted(k, row)
  <2>1. Registers(row) /\ RowHandled(k, row) /\ wanted' = wanted
    BY <1>7 DEF SubscribeFails, AlreadyWanted
  <2>2. RequestsCovered'
    BY <1>4, <2>1, OnlyBoot DEF RequestsCovered
  <2>3. WantedCovered' /\ ValidatedDelivery'
    BY <1>2, <1>5, <2>1 DEF WantedCovered, ValidatedDelivery, HubTypeOK, BrokerTypeOK
  <2>4. PICK ok \in BOOLEAN : entry' = [entry EXCEPT ![row[2]] = Recorded(row[1], ok)]
    BY <1>7 DEF SubscribeFails, AlreadyWanted
  <2>5. SchemaOfTheRecord'
    BY <1>3, <1>5, <2>1, <2>4 DEF SchemaOfTheRecord, HubTypeOK, Recorded
  <2> QED
    BY <2>2, <2>3, <2>5
<1>8. CASE SubscribeSent(k, row)
  <2>1. /\ client \in Clients /\ Registers(row) /\ entry' = entry
        /\ wanted' = [wanted EXCEPT ![client] = @ \cup {row[2]}]
    BY <1>8 DEF SubscribeSent, Reachable, ClientTypeOK
  <2>2. task'["boot"].pc = "subscribing" /\ task'["boot"].topic = row[2] /\ task'["boot"].machine = row[1]
    BY <1>2, <1>8, OnlyBoot DEF SubscribeSent, HubTypeOK
  <2>3. RequestsCovered'
    BY <1>5, <2>1, <2>2, OnlyBoot DEF RequestsCovered
  <2>4. WantedCovered' /\ ValidatedDelivery'
    BY <1>2, <1>5, <2>1 DEF WantedCovered, ValidatedDelivery, HubTypeOK, BrokerTypeOK
  <2>5. row[2] \in Requested("subscribing")'
    BY <2>2, OnlyBoot DEF Requested
  <2>6. SchemaOfTheRecord'
    BY <1>3, <1>5, <2>1, <2>5 DEF SchemaOfTheRecord
  <2> QED
    BY <2>3, <2>4, <2>6
<1> QED
  BY <1>1, <1>6, <1>7, <1>8

LEMMA AckDelivers ==
  ASSUME HubTypeOK, DeliveryInv, Tasks = {}, NEW k \in AllTasks, AckArrives(k)
  PROVE  DeliveryInv'
<1> USE DEF DeliveryInv
<1>1. k = "boot" /\ task[k].pc = "subscribing" /\ task[k].topic \in Topics
      /\ task[k].machine \in Machines /\ task[k].on \in Clients
  BY OnlyBoot DEF AckArrives, SubAcked, SubRefused, UnsubAcked, Awaits, RequestsCovered, HubTypeOK,
                  RequestsTyped, InFlight
<1>2. registry[task[k].topic] = task[k].machine /\ task[k].machine # None
  BY <1>1, NoneAssumption DEF RequestsCovered
<1>3. /\ SubAcked(k) \/ SubRefused(k)
      /\ registry' = registry /\ task' = [task EXCEPT ![k] = After(k, "next")]
  BY <1>1 DEF AckArrives, SubAcked, SubRefused, UnsubAcked, Awaits
<1>4. task'["boot"].pc = "next"
  BY <1>1, <1>3, AfterType DEF HubTypeOK
<1>5. RequestsCovered'
  BY <1>4, OnlyBoot DEF RequestsCovered
<1>6. WantedCovered'
  <2>1. \A c \in Clients : wanted'[c] \subseteq wanted[c]
    <3>1. \/ wanted' = wanted
          \/ wanted' = [wanted EXCEPT ![task[k].on] = wanted[task[k].on] \ {task[k].topic}]
      BY <1>3 DEF SubAcked, SubRefused
    <3>2. wanted \in [Clients -> SUBSET Topics]
      BY DEF HubTypeOK, BrokerTypeOK
    <3> QED
      BY <1>1, <3>1, <3>2
  <2>2. restoring' = restoring
    BY <1>3 DEF SubAcked, SubRefused
  <2> QED
    BY <1>3, <2>1, <2>2 DEF WantedCovered
<1>7. ValidatedDelivery'
  BY <1>2, <1>3 DEF SubAcked, Granting, SubRefused, ValidatedDelivery
<1>8. PICK ok \in BOOLEAN : entry' = [entry EXCEPT ![task[k].topic] = Recorded(task[k].machine, ok)]
  BY <1>3 DEF SubAcked, SubRefused
<1>9. Requested("subscribing") = {task[k].topic}
  BY <1>1, OnlyBoot DEF Requested
<1>10. SchemaOfTheRecord'
  BY <1>1, <1>2, <1>3, <1>8, <1>9 DEF SchemaOfTheRecord, HubTypeOK, Recorded
<1> QED
  BY <1>5, <1>6, <1>7, <1>10

LEMMA CloseDelivers ==
  ASSUME HubTypeOK, DeliveryInv, Tasks = {}, NEW c \in Clients,
         HubBroken(c) \/ HubEnded(c) \/ HubSevered(c)
  PROVE  DeliveryInv'
<1> USE DEF DeliveryInv
<1>1. FailRequests(c) /\ SessionEnds(c) /\ registry' = registry
  BY Closings
<1>2. WantedCovered' /\ ValidatedDelivery'
  BY <1>1 DEF SessionEnds, WantedCovered, ValidatedDelivery, HubTypeOK, BrokerTypeOK
<1> DEFINE For(t) == {k \in Failing(c) : task[k].pc = "subscribing" /\ task[k].topic = t}
<1>3. PICK last \in [Topics -> AllTasks] :
        /\ \A t \in Topics : For(t) # {} => last[t] \in For(t)
        /\ entry' = [t \in Topics |->
                       IF For(t) = {} THEN entry[t] ELSE Recorded(task[last[t]].machine, FALSE)]
  BY <1>1, Zenon DEF FailRequests
<1>4. ASSUME NEW t \in Topics, For(t) # {}
      PROVE  entry'[t].machine = registry[t]
  <2>1. last[t] \in AllTasks /\ task[last[t]].pc = "subscribing" /\ task[last[t]].topic = t
    BY <1>3, <1>4 DEF Failing
  <2>2. entry'[t] = Recorded(task[last[t]].machine, FALSE)
    BY <1>3, <1>4
  <2> QED
    BY <2>1, <2>2 DEF RequestsCovered, Recorded
<1>5. task' = [k \in AllTasks |->
                IF k \notin Failing(c) THEN task[k]
                ELSE After(k, IF task[k].pc = "subscribing" THEN "next" ELSE "done")]
  BY <1>1 DEF FailRequests
<1>6. \A k \in Failing(c) : k \in AllTasks /\ task'[k].pc \in {"next", "done"}
  BY <1>5, AfterType DEF Failing, HubTypeOK
<1>7. \A k \in AllTasks : k \notin Failing(c) => task'[k] = task[k]
  BY <1>5
<1>8. RequestsCovered'
  BY <1>1, <1>6, <1>7 DEF RequestsCovered
<1>9. ASSUME NEW t \in Topics, For(t) = {}, t \notin Requested("subscribing")'
      PROVE  t \notin Requested("subscribing") /\ entry'[t] = entry[t]
  <2>1. entry'[t] = entry[t]
    BY <1>3, <1>9
  <2>2. ASSUME NEW k \in AllTasks, task[k].pc = "subscribing", task[k].topic = t PROVE FALSE
    <3>1. k \notin Failing(c)
      BY <1>9, <2>2
    <3> QED
      BY <1>7, <1>9, <2>2, <3>1 DEF Requested
  <2> QED
    BY <2>1, <2>2 DEF Requested
<1>10. SchemaOfTheRecord'
  <2> SUFFICES ASSUME NEW t \in Topics, t \notin Requested("subscribing")', entry'[t] # None
               PROVE  registry'[t] = entry'[t].machine
    BY DEF SchemaOfTheRecord
  <2> HIDE DEF For
  <2>1. CASE For(t) # {}
    BY <1>1, <1>4, <2>1
  <2>2. CASE For(t) = {}
    BY <1>1, <1>9, <2>2 DEF SchemaOfTheRecord
  <2> QED
    BY <2>1, <2>2
<1> QED
  BY <1>2, <1>8, <1>10

LEMMA DeliveryStep ==
  ASSUME ClientTypeOK, HubTypeOK, DeliveryInv, Tasks = {}, [HubNext]_allVars
  PROVE  DeliveryInv'
<1> USE DEF DeliveryInv, RequestsCovered, WantedCovered, ValidatedDelivery, SchemaOfTheRecord,
            Requested
<1> USE DEF brokerVars
<1>1. CASE UNCHANGED hubVars
  BY <1>1 DEF hubVars
<1>2. ASSUME NEW k \in AllTasks, LoopEnds(k) PROVE DeliveryInv'
  BY <1>2, AfterType, OnlyBoot DEF LoopEnds, HubTypeOK
<1>3. CASE HubDisconnects
  BY <1>3 DEF HubDisconnects
<1>4. CASE BootStarts
  BY <1>4, OnlyBoot DEF BootStarts, Finding, HubTypeOK, TaskStates
<1>5. ASSUME NEW c \in Clients, HubUp(c) PROVE DeliveryInv'
  BY <1>5, <1>1 DEF HubUp, HubAccepted, SessionBegins, HubTypeOK, BrokerTypeOK
<1>6. ASSUME NEW k \in AllTasks, FindReturns(k) PROVE DeliveryInv'
  <2>1. task'["boot"].pc = "next" /\ k = "boot" /\ task["boot"].pc = "finding"
    BY <1>6, OnlyBoot DEF FindReturns, Idle, HubTypeOK
  <2> QED
    BY <1>6, <2>1, OnlyBoot DEF FindReturns
<1>7. ASSUME NEW k \in AllTasks, FindFails(k) PROVE DeliveryInv'
  BY <1>7, AfterType, OnlyBoot DEF FindFails, HubTypeOK
<1>8. ASSUME NEW k \in AllTasks PROVE ~Callable(k)
  BY OnlyBoot DEF Callable
<1>9. ASSUME NEW c \in Clients, HubRestored(c) PROVE DeliveryInv'
  <2>1. /\ UNCHANGED <<registry, entry, task>>
        /\ served' \subseteq served \cup restoring[c]
        /\ \A d \in Clients : wanted'[d] \subseteq wanted[d] /\ restoring'[d] \subseteq restoring[d]
    BY <1>9, Restorings DEF HubTypeOK, BrokerTypeOK
  <2> QED
    BY <2>1
<1> QED
  BY <1>1, <1>2, <1>3, <1>4, <1>5, <1>6, <1>7, <1>8, <1>9, NextMachineDelivers, AckDelivers, CloseDelivers
     DEF HubNext, Microtask, Macrotask, HubStarts, HubRetries, HubDialled, UpdateMachine,
         ResubscribeAll, SubscribeToMachineById, UnsubscribeFromMachine, allVars

LEMMA DeliveryInit == HubInit => DeliveryInv
  BY DEF HubInit, BrokerInit, DeliveryInv, RequestsCovered, WantedCovered, ValidatedDelivery, SchemaOfTheRecord,
         Requested, Idle

(* As wired, what is requested, what mqtt.js restores and what the broker  *)
(* delivers have their schemas, whatever machines share a topic and        *)
(* however the connection fails: the invariant behind the next theorem.    *)
THEOREM DeliveryHolds ==
  ASSUME Tasks = {}
  PROVE  HubSpec => []DeliveryInv
<1> DEFINE IInv == ClientTypeOK /\ HubTypeOK /\ DeliveryInv
<1>1. HubInit => IInv
  BY HubTypeInit, DeliveryInit
<1>2. IInv /\ [HubNext]_allVars => IInv'
  BY HubIsClientStep, ClientStepType, HubTypeStep, DeliveryStep
<1>3. IInv => DeliveryInv
  OBVIOUS
<1> HIDE DEF IInv
<1> QED
  BY <1>1, <1>2, <1>3, PTL DEF HubSpec

(* As wired, every topic the broker delivers has a schema, and the record  *)
(* of a topic is of the machine whose schema validates it.                 *)
THEOREM DeliveryIsValidated ==
  ASSUME Tasks = {}
  PROVE  HubSpec => [](ValidatedDelivery /\ SchemaOfTheRecord)
<1>1. DeliveryInv => ValidatedDelivery /\ SchemaOfTheRecord
  BY DEF DeliveryInv
<1> QED
  BY <1>1, DeliveryHolds, PTL

-----------------------------------------------------------------------------
(* What is recorded is counted, whatever calls overlap.                    *)

(* Before the shutdown nobody ends a client, so that no callback of end()  *)
(* clears the statistics.                                                  *)
NothingEnds == phase = "up" => \A c \in Clients : conn[c] \notin {"ending", "severed"}

CountInv == NothingEnds /\ RecordedIsCounted

(* Steps that leave the record and the statistics alone.                   *)
LEMMA ElsewhereCounts ==
  ASSUME RecordedIsCounted, UNCHANGED <<entry, subscribed>>, phase' = "up" => phase = "up"
  PROVE  RecordedIsCounted'
BY DEF RecordedIsCounted, RecordedTopics

LEMMA NextMachineCounts ==
  ASSUME HubTypeOK, CountInv, NEW k \in AllTasks, NextMachine(k)
  PROVE  CountInv'
<1> USE DEF CountInv
<1>1. PICK row \in task[k].rows :
        Skipped(k, row) \/ SubscribeFails(k, row) \/ AlreadyWanted(k, row) \/ SubscribeSent(k, row)
  BY DEF NextMachine
<1>2. NothingEnds' /\ phase' = phase
  BY DEF NextMachine, vars, clientVars, lifeVars, NothingEnds
<1>3. CASE Skipped(k, row) \/ SubscribeSent(k, row)
  BY <1>2, <1>3, ElsewhereCounts DEF Skipped, SubscribeSent
<1>4. CASE SubscribeFails(k, row)
  <2>1. RecordedTopics' \subseteq RecordedTopics /\ subscribed' = subscribed
    BY <1>4 DEF SubscribeFails, RecordedTopics, Recorded, HubTypeOK
  <2> QED
    BY <1>2, <2>1 DEF RecordedIsCounted
<1>5. CASE AlreadyWanted(k, row)
  <2>1. RecordedTopics' \subseteq RecordedTopics \cup {row[2]} /\ subscribed' = subscribed \cup {row[2]}
    BY <1>5 DEF AlreadyWanted, RecordedTopics, HubTypeOK
  <2> QED
    BY <1>2, <2>1 DEF RecordedIsCounted
<1> QED
  BY <1>1, <1>3, <1>4, <1>5

LEMMA AckCounts ==
  ASSUME HubTypeOK, CountInv, NEW k \in AllTasks, AckArrives(k)
  PROVE  CountInv'
<1> USE DEF CountInv
<1> DEFINE t == task[k].topic
<1>1. NothingEnds' /\ phase' = phase
  BY DEF AckArrives, SubAcked, SubRefused, UnsubAcked, vars, clientVars, lifeVars, NothingEnds
<1>2. CASE SubAcked(k)
  <2>1. RecordedTopics' \subseteq RecordedTopics \cup {t} /\ subscribed' = subscribed \cup {t}
    BY <1>2 DEF SubAcked, RecordedTopics, HubTypeOK
  <2> QED
    BY <1>1, <2>1 DEF RecordedIsCounted
<1>3. CASE SubRefused(k)
  <2>1. RecordedTopics' \subseteq RecordedTopics /\ subscribed' = subscribed
    BY <1>3 DEF SubRefused, RecordedTopics, Recorded, HubTypeOK
  <2> QED
    BY <1>1, <2>1 DEF RecordedIsCounted
<1>4. CASE UnsubAcked(k)
  <2>1. RecordedTopics' \subseteq RecordedTopics \ {t} /\ subscribed' = subscribed \ {t}
    BY <1>4 DEF UnsubAcked, RecordedTopics, HubTypeOK
  <2> QED
    BY <1>1, <2>1 DEF RecordedIsCounted
<1> QED
  BY <1>2, <1>3, <1>4 DEF AckArrives

(* A connection that breaks makes records false and clears nothing.        *)
LEMMA BrokenCounts ==
  ASSUME ClientTypeOK, CountInv, NEW c \in Clients, HubBroken(c)
  PROVE  CountInv'
<1> USE DEF CountInv
<1>1. Break(c) /\ FailRequests(c) /\ phase' = phase /\ subscribed' = subscribed
  BY DEF HubBroken, Lost, Evicted, lifeVars
<1>2. NothingEnds'
  BY <1>1 DEF Break, NothingEnds, ClientTypeOK
<1>3. RecordedTopics' \subseteq RecordedTopics
  <2> DEFINE For(t) == {k \in Failing(c) : task[k].pc = "subscribing" /\ task[k].topic = t}
  <2>1. PICK last \in [Topics -> AllTasks] :
          entry' = [t \in Topics |->
                      IF For(t) = {} THEN entry[t] ELSE Recorded(task[last[t]].machine, FALSE)]
    BY <1>1, Zenon DEF FailRequests
  <2> HIDE DEF For
  <2> QED
    BY <2>1 DEF RecordedTopics, Recorded
<1> QED
  BY <1>1, <1>2, <1>3 DEF RecordedIsCounted

(* The steps of the connection and of the shutdown.                        *)
LEMMA ConnectionCounts ==
  ASSUME ClientTypeOK, CountInv,
         \/ HubStarts \/ HubRetries \/ HubDisconnects
         \/ \E c \in Clients : HubUp(c) \/ HubDialled(c) \/ HubEnded(c) \/ HubSevered(c)
  PROVE  CountInv'
<1> USE DEF CountInv
<1>1. CASE HubStarts \/ HubRetries
  <2>1. phase' = phase /\ UNCHANGED <<entry, subscribed>>
    BY <1>1 DEF HubStarts, HubRetries, hubVars, OnModuleInit, ReconnectTimer, lifeVars
  <2>2. NothingEnds'
    BY <1>1 DEF HubStarts, HubRetries, OnModuleInit, ReconnectTimer, ConnectFrom, Open, clientVars,
                lifeVars, NothingEnds, ClientTypeOK
  <2> QED
    BY <2>1, <2>2, ElsewhereCounts
<1>2. CASE HubDisconnects
  <2>1. phase' # "up"
    BY <1>2 DEF HubDisconnects, OnModuleDestroy, OnApplicationShutdown, DisconnectFrom,
                PhaseDuring, PhaseAfter
  <2> QED
    BY <2>1 DEF NothingEnds, RecordedIsCounted
<1>3. ASSUME NEW c \in Clients, HubUp(c) \/ HubDialled(c) PROVE CountInv'
  <2>1. phase' = phase /\ UNCHANGED <<entry, subscribed>>
    BY <1>3 DEF HubUp, HubAccepted, HubDialled, hubVars, Accepted, Refused, ClosedSilently, Dialled,
                lifeVars
  <2>2. Accept(c) \/ Refuse(c) \/ DropSilently(c) \/ Dial(c)
    BY <1>3 DEF HubUp, HubAccepted, HubDialled, Accepted, Refused, ClosedSilently, Dialled
  <2>3. NothingEnds'
    BY <2>1, <2>2 DEF Accept, Refuse, DropSilently, Dial, NothingEnds, ClientTypeOK
  <2> QED
    BY <2>1, <2>3, ElsewhereCounts
<1>4. ASSUME NEW c \in Clients, HubEnded(c) PROVE CountInv'
  <2>1. phase # "up" /\ phase' = PhaseAfter(closer[c])
    BY <1>4 DEF HubEnded, EndDone, EndCallback, NothingEnds
  <2>2. phase' # "up"
    BY <2>1 DEF PhaseAfter
  <2> QED
    BY <2>2 DEF NothingEnds, RecordedIsCounted
<1>5. ASSUME NEW c \in Clients, HubSevered(c) PROVE CountInv'
  <2>1. phase # "up" /\ phase' = phase
    BY <1>5 DEF HubSevered, Severed, Sever, NothingEnds, lifeVars
  <2> QED
    BY <2>1 DEF NothingEnds, RecordedIsCounted
<1> QED
  BY <1>1, <1>2, <1>3, <1>4, <1>5

LEMMA CountedStep ==
  ASSUME ClientTypeOK, HubTypeOK, CountInv, [HubNext]_allVars
  PROVE  CountInv'
<1>1. ASSUME UNCHANGED <<conn, phase, entry, subscribed>> PROVE CountInv'
  BY <1>1, ElsewhereCounts DEF CountInv, NothingEnds
<1>2. CASE UNCHANGED allVars \/ BootStarts \/ \E m \in Machines : UpdateMachine(m)
  BY <1>1, <1>2 DEF allVars, hubVars, BootStarts, UpdateMachine, vars, clientVars, lifeVars
<1>3. ASSUME NEW k \in AllTasks,
             \/ LoopEnds(k) \/ SubscribeToMachineById(k)
             \/ UnsubscribeFromMachine(k) \/ FindReturns(k)
      PROVE  CountInv'
  BY <1>1, <1>3 DEF LoopEnds, SubscribeToMachineById, UnsubscribeFromMachine, FindReturns,
                    vars, clientVars, lifeVars
<1>4. ASSUME NEW k \in AllTasks, FindFails(k) PROVE CountInv'
  <2>1. phase' \in {phase, "stopped"} /\ UNCHANGED <<conn, entry, subscribed>>
    BY <1>4 DEF FindFails, clientVars
  <2> QED
    BY <2>1, ElsewhereCounts DEF CountInv, NothingEnds
<1>5. ASSUME NEW k \in AllTasks, ResubscribeAll(k) PROVE CountInv'
  <2>1. RecordedTopics' = {} /\ UNCHANGED <<conn, phase>>
    BY <1>5 DEF ResubscribeAll, RecordedTopics, vars, clientVars, lifeVars
  <2> QED
    BY <2>1 DEF CountInv, NothingEnds, RecordedIsCounted
<1>6. ASSUME NEW c \in Clients, HubRestored(c) PROVE CountInv'
  BY <1>1, <1>6, Restorings DEF vars, clientVars, lifeVars
<1> QED
  BY <1>2, <1>3, <1>4, <1>5, <1>6, NextMachineCounts, AckCounts, BrokenCounts, ConnectionCounts
     DEF HubNext, Microtask, Macrotask

(* For any set of calls, overlapping or not, and whatever happens to the   *)
(* connections: until the shutdown the statistics count every topic that   *)
(* the dispatcher has recorded as subscribed.                              *)
THEOREM RecordedAlwaysCounted == HubSpec => []RecordedIsCounted
<1> DEFINE IInv == ClientTypeOK /\ HubTypeOK /\ CountInv
<1>1. HubInit => IInv
  BY HubTypeInit DEF HubInit, Init, ClientInit, CountInv, NothingEnds, RecordedIsCounted, RecordedTopics
<1>2. IInv /\ [HubNext]_allVars => IInv'
  BY HubIsClientStep, ClientStepType, HubTypeStep, CountedStep
<1>3. IInv => RecordedIsCounted
  BY DEF CountInv
<1> HIDE DEF IInv
<1> QED
  BY <1>1, <1>2, <1>3, PTL DEF HubSpec

-----------------------------------------------------------------------------
(* The dispatcher leaves the connection to MqttIngestor, save that its     *)
(* onModuleInit() can fail the start: what is proved of the ingestor alone *)
(* holds of the two together.                                              *)

(* The query of the boot fails and the process ends.                       *)
StartFails ==
  /\ phase' = "stopped"
  /\ UNCHANGED <<clientVars, chainVars, boot, calls>>

LEMMA HubIsIngestorStep == [HubNext]_allVars => [WiredNext]_vars \/ StartFails
<1> SUFFICES ASSUME [HubNext]_allVars PROVE [WiredNext]_vars \/ StartFails
  OBVIOUS
<1>1. CASE UNCHANGED allVars
  BY <1>1 DEF allVars
<1>2. CASE Microtask
  BY <1>2 DEF Microtask, NextMachine, LoopEnds
<1>3. CASE HubStarts \/ HubRetries \/ HubDisconnects
  BY <1>3 DEF HubStarts, HubRetries, HubDisconnects, WiredNext
<1>4. CASE \/ BootStarts \/ \E m \in Machines : UpdateMachine(m)
           \/ \E c \in Clients : HubRestored(c)
  BY <1>4 DEF BootStarts, UpdateMachine, HubRestored, RestoreAcked, RestoreGranted, RestoreRefused,
              Restoration
<1>5. ASSUME NEW c \in Clients, HubUp(c) \/ HubDialled(c) \/ HubBroken(c) \/ HubEnded(c)
             \/ HubSevered(c)
      PROVE  WiredNext
  BY <1>5 DEF HubUp, HubAccepted, HubDialled, HubBroken, HubEnded, HubSevered, WiredNext
<1>6. ASSUME NEW k \in AllTasks,
             \/ AckArrives(k) \/ ResubscribeAll(k) \/ SubscribeToMachineById(k)
             \/ UnsubscribeFromMachine(k) \/ FindReturns(k)
      PROVE  UNCHANGED vars
  BY <1>6 DEF AckArrives, SubAcked, SubRefused, UnsubAcked, ResubscribeAll,
              SubscribeToMachineById, UnsubscribeFromMachine, FindReturns
<1>7. ASSUME NEW k \in AllTasks, FindFails(k)
      PROVE  UNCHANGED vars \/ StartFails
  BY <1>7 DEF FindFails, StartFails, vars, lifeVars
<1> QED
  BY <1>1, <1>2, <1>3, <1>4, <1>5, <1>6, <1>7 DEF HubNext, Macrotask

(* The inductive invariants of MqttIngestor, together.  A start that fails *)
(* can cut a shutdown short, so that the life cycle is that of a process   *)
(* that has not ended.                                                     *)
ChainInv ==
  /\ TypeOK
  /\ NoStrandedAwait /\ FieldNotEnded /\ ReconnectingIsDriven
  /\ SingleRetryChain /\ ChainShape /\ Counted /\ StatusWaits
  /\ PendingIsFresh /\ ConnectedIsOwned
  /\ Alive => LifeCycle /\ WaitsAreDriven

LEMMA StoppedIsFinal == ~Alive /\ [WiredNext]_vars => UNCHANGED vars
BY DEF Alive, WiredNext, OnModuleInit, OnModuleDestroy, OnApplicationShutdown, ReconnectTimer,
       Accepted, Refused, ClosedSilently, Dialled, Lost, Evicted, EndDone, Severed

LEMMA ChainInvWired ==
  ASSUME ControllerCalls = 0, ChainInv, [WiredNext]_vars
  PROVE  ChainInv'
<1>1. [Next]_vars
  BY DEF Next
<1>2. TypeOK' /\ ReconnectingIsDriven' /\ PendingIsFresh'
  BY <1>1, TypeStep, DrivenStep, FreshStep DEF ChainInv
<1>3. NoStrandedAwait' /\ FieldNotEnded'
  BY <1>1, NextIsClientStep, ClientStepSound DEF ChainInv, TypeOK
<1>4. SingleRetryChain' /\ ChainShape' /\ Counted' /\ StatusWaits'
  BY <1>1, ShapeStep, CountStep, StatusStep DEF ChainInv
<1>5. CASE Alive
  <2>1. LifeCycle' /\ WaitsAreDriven' /\ ConnectedIsOwned'
    BY <1>1, <1>5, LifeStep, WaitsStep, OwnedStep DEF ChainInv
  <2> QED
    BY <1>2, <1>3, <1>4, <2>1 DEF ChainInv
<1>6. CASE ~Alive
  <2>1. phase' = "stopped"
    BY <1>6, StoppedIsFinal DEF Alive, vars, lifeVars
  <2>2. ConnectedIsOwned' /\ ~Alive'
    BY <2>1 DEF ConnectedIsOwned, Alive
  <2> QED
    BY <1>2, <1>3, <1>4, <2>2 DEF ChainInv
<1> QED
  BY <1>5, <1>6

LEMMA ChainInvStartFails ==
  ASSUME ChainInv, StartFails
  PROVE  ChainInv'
<1> USE DEF StartFails, ChainInv, clientVars, chainVars
<1>1. TypeOK'
  BY DEF TypeOK, ClientTypeOK, Phases
<1>2. NoStrandedAwait' /\ FieldNotEnded' /\ ReconnectingIsDriven'
  BY DEF NoStrandedAwait, FieldNotEnded, ReconnectingIsDriven
<1>3. Used' = Used /\ ChainIdle' = ChainIdle
  BY DEF Used, ChainIdle
<1>4. SingleRetryChain' /\ ChainShape' /\ StatusWaits' /\ PendingIsFresh'
  BY <1>3 DEF SingleRetryChain, ChainShape, StatusWaits, PendingIsFresh
<1>5. Counted'
  BY <1>3 DEF Counted, ChainCount, ClientBudget, FailedMeansExhausted
<1>6. ConnectedIsOwned' /\ ~Alive'
  BY DEF ConnectedIsOwned, Alive
<1> QED
  BY <1>1, <1>2, <1>4, <1>5, <1>6

LEMMA ChainInvAlways ==
  ASSUME ControllerCalls = 0
  PROVE  HubSpec => []ChainInv
<1>1. HubInit => ChainInv
  <2>1. Init => ChainInv
    BY TypeInit, ShapeInit, CountInit, LifeInit, WaitsInit
       DEF ChainInv, Init, StatusWaits, ReconnectingIsDriven
  <2> QED
    BY <2>1 DEF HubInit
<1>2. ChainInv /\ [HubNext]_allVars => ChainInv'
  BY HubIsIngestorStep, ChainInvWired, ChainInvStartFails
<1> QED
  BY <1>1, <1>2, PTL DEF HubSpec

(* Whatever the dispatcher does beside it, whatever is called of it and    *)
(* wherever its start fails, the connection keeps the promises of the      *)
(* ingestor: no continuation is lost, one retry chain, no more clients     *)
(* than attempts, FAILED after every retry and CONNECTED of a live client. *)
THEOREM DispatcherKeepsTheChain ==
  ASSUME ControllerCalls = 0
  PROVE  HubSpec => [](/\ NoStrandedAwait /\ FieldNotEnded /\ ReconnectingIsDriven
                       /\ SingleRetryChain /\ ClientBudget /\ FailedMeansExhausted
                       /\ ConnectedIsOwned
                       /\ Alive => WaitsAreDriven)
<1>1. ChainInv => /\ NoStrandedAwait /\ FieldNotEnded /\ ReconnectingIsDriven
                  /\ SingleRetryChain /\ ClientBudget /\ FailedMeansExhausted
                  /\ ConnectedIsOwned
                  /\ Alive => WaitsAreDriven
  BY DEF ChainInv, Counted
<1> QED
  BY <1>1, ChainInvAlways, PTL

(* A start that fails switches the chain off, or finds it off.             *)
LEMMA StartFailsStops ==
  ASSUME StartFails
  PROVE  [Contract!ContractNext]_(Contract!contractVars)
<1>1. Mode' = "off" /\ RetriesMade' = 0
  BY DEF StartFails, Mode, RetriesMade, Alive
<1>2. CASE Mode = "off"
  <2>1. RetriesMade = 0
    BY <1>2 DEF RetriesMade
  <2> QED
    BY <1>1, <1>2, <2>1 DEF Contract!contractVars
<1>3. CASE Mode # "off"
  BY <1>1, <1>3 DEF Contract!Stops, Contract!ContractNext
<1> QED
  BY <1>2, <1>3

(* The whole of connection, ingestor and dispatcher implements the         *)
(* contract of one reconnection chain, and leaves FAILED for nothing but   *)
(* the end.                                                                *)
THEOREM DispatcherImplementsContract ==
  ASSUME ControllerCalls = 0
  PROVE  HubSpec => ImplementsContract /\ FailedIsFinal
<1>1. HubInit => Contract!ContractInit
  BY DEF HubInit, Init, ClientInit, Contract!ContractInit, Mode, RetriesMade, Alive, ChainIdle
<1>2. ChainInv /\ [HubNext]_allVars => [Contract!ContractNext]_(Contract!contractVars)
  <2>1. ChainInv /\ [WiredNext]_vars => [Contract!ContractNext]_(Contract!contractVars)
    BY ContractStep DEF ChainInv, Next
  <2> QED
    BY <2>1, HubIsIngestorStep, StartFailsStops
<1>3. ChainInv /\ [HubNext]_allVars =>
        [status = "FAILED" => UNCHANGED chainVars \/ phase' # phase]_vars
  <2> SUFFICES ASSUME ChainInv, [HubNext]_allVars, status = "FAILED"
               PROVE  UNCHANGED chainVars \/ phase' # phase
    OBVIOUS
  <2>1. CASE StartFails
    BY <2>1 DEF StartFails
  <2>2. CASE [WiredNext]_vars /\ Alive
    BY <2>2, FailedStep DEF ChainInv, Next
  <2>3. CASE [WiredNext]_vars /\ ~Alive
    BY <2>3, StoppedIsFinal DEF vars
  <2> QED
    BY <2>1, <2>2, <2>3, HubIsIngestorStep
<1> QED
  BY <1>1, <1>2, <1>3, ChainInvAlways, PTL
     DEF HubSpec, ImplementsContract, Contract!ContractSpec, FailedIsFinal

-----------------------------------------------------------------------------
(* Every task comes to an end: its moves are few, each brings it nearer to *)
(* the end, and what it awaits from the broker can still be answered.      *)

Begins(old, new) ==
  /\ old.pc = "idle"
  /\ new.pc \in {"finding", "done"} \/ (new.pc = "unsubscribing" /\ new.rows = {})

Finds(old, new) ==
  /\ old.pc = "finding"
  /\ \/ new.pc = "done"
     \/ new.pc = "next" /\ \E asked \in SUBSET Machines : new.rows = {<<m, topicOf[m]>> : m \in asked}

Handles(old, new) ==
  /\ old.pc = "next"
  /\ \/ new.pc = "done"
     \/ new.pc \in {"next", "subscribing"} /\ \E row \in old.rows : new.rows = old.rows \ {row}

IsAnswered(old, new) ==
  /\ old.pc \in InFlight
  /\ new.pc = "done" \/ (new.pc = "next" /\ new.rows = old.rows)

TaskMove(old, new) ==
  Begins(old, new) \/ Finds(old, new) \/ Handles(old, new) \/ IsAnswered(old, new)

LEMMA AfterFields ==
  ASSUME NEW k \in AllTasks, NEW pc
  PROVE  After(k, pc).pc = pc /\ After(k, pc).rows = task[k].rows
BY DEF After, Idle

(* A row is handled, and if it is sent, then on an open connection.        *)
LEMMA NextMachineMoves ==
  ASSUME HubTypeOK, NEW k \in AllTasks, NextMachine(k)
  PROVE  /\ Handles(task[k], task'[k])
         /\ task'[k].pc \in InFlight => conn[task'[k].on] = "connected"
         /\ \A j \in AllTasks \ {k} : task'[j] = task[j]
<1>1. PICK row \in task[k].rows :
        Skipped(k, row) \/ SubscribeFails(k, row) \/ AlreadyWanted(k, row) \/ SubscribeSent(k, row)
  BY DEF NextMachine
<1>2. task[k].pc = "next" /\ task \in [AllTasks -> TaskStates] /\ task[k] \in TaskStates
  BY DEF NextMachine, HubTypeOK
<1>3. CASE RowHandled(k, row)
  <2>1. /\ task'[k].pc = "next" /\ task'[k].rows = task[k].rows \ {row}
        /\ \A j \in AllTasks \ {k} : task'[j] = task[j]
    BY <1>2, <1>3 DEF RowHandled, TaskStates
  <2> QED
    BY <1>1, <1>2, <2>1 DEF Handles, InFlight
<1>4. CASE SubscribeSent(k, row)
  <2>1. /\ task'[k].pc = "subscribing" /\ task'[k].rows = task[k].rows \ {row}
        /\ task'[k].on = client
        /\ \A j \in AllTasks \ {k} : task'[j] = task[j]
    BY <1>2, <1>4 DEF SubscribeSent, TaskStates
  <2>2. conn[client] = "connected"
    BY <1>4 DEF SubscribeSent, Reachable
  <2> QED
    BY <1>1, <1>2, <2>1, <2>2 DEF Handles
<1> QED
  BY <1>1, <1>3, <1>4 DEF Skipped, SubscribeFails, AlreadyWanted

(* A call begins.                                                          *)
LEMMA CallMoves ==
  ASSUME HubTypeOK, NEW k \in AllTasks,
         ResubscribeAll(k) \/ SubscribeToMachineById(k) \/ UnsubscribeFromMachine(k)
  PROVE  /\ Begins(task[k], task'[k])
         /\ task'[k].pc \in InFlight => conn[task'[k].on] = "connected"
         /\ \A j \in AllTasks \ {k} : task'[j] = task[j]
<1>1. task[k].pc = "idle" /\ task \in [AllTasks -> TaskStates] /\ task[k] \in TaskStates
  BY DEF ResubscribeAll, SubscribeToMachineById, UnsubscribeFromMachine, Callable, HubTypeOK
<1>2. CASE ResubscribeAll(k) \/ SubscribeToMachineById(k)
  <2>1. task'[k].pc = "finding" /\ \A j \in AllTasks \ {k} : task'[j] = task[j]
    BY <1>1, <1>2 DEF ResubscribeAll, SubscribeToMachineById, Finding, TaskStates
  <2> QED
    BY <1>1, <2>1 DEF Begins, InFlight
<1>3. ASSUME task' = [task EXCEPT ![k].pc = "done"]
      PROVE  /\ Begins(task[k], task'[k]) /\ task'[k].pc \notin InFlight
             /\ \A j \in AllTasks \ {k} : task'[j] = task[j]
  <2>1. task'[k].pc = "done"
    BY <1>1, <1>3 DEF TaskStates
  <2> QED
    BY <1>1, <1>3, <2>1 DEF Begins, InFlight
<1>4. ASSUME NEW m, NEW t, Reachable,
             task' = [task EXCEPT ![k] = [Idle EXCEPT !.pc = "unsubscribing", !.machine = m,
                                                      !.topic = t, !.on = client]]
      PROVE  /\ Begins(task[k], task'[k]) /\ conn[task'[k].on] = "connected"
             /\ \A j \in AllTasks \ {k} : task'[j] = task[j]
  <2>1. task'[k].pc = "unsubscribing" /\ task'[k].rows = {} /\ task'[k].on = client
    BY <1>1, <1>4 DEF Idle
  <2> QED
    BY <1>1, <1>4, <2>1 DEF Begins, Reachable
<1>5. CASE UnsubscribeFromMachine(k)
  BY <1>3, <1>4, <1>5 DEF UnsubscribeFromMachine
<1> QED
  BY <1>2, <1>5

(* What is in flight on a connection that closes fails.                    *)
LEMMA CloseMoves ==
  ASSUME HubTypeOK, NEW c \in Clients, FailRequests(c), NEW k \in AllTasks
  PROVE  \/ task'[k] = task[k] /\ ~(task[k].pc \in InFlight /\ task[k].on = c)
         \/ IsAnswered(task[k], task'[k]) /\ task'[k].pc \notin InFlight
<1>1. task'[k] = IF k \notin Failing(c) THEN task[k]
                 ELSE After(k, IF task[k].pc = "subscribing" THEN "next" ELSE "done")
  BY DEF FailRequests
<1> QED
  BY <1>1, AfterFields DEF Failing, IsAnswered, InFlight

(* All the moves there are.                                                *)
LEMMA TaskMoves ==
  ASSUME HubTypeOK, [HubNext]_allVars, NEW k \in AllTasks
  PROVE  task'[k] = task[k] \/ TaskMove(task[k], task'[k])
<1> USE DEF TaskMove
<1>0. task \in [AllTasks -> TaskStates] /\ \A j \in AllTasks : task[j] \in TaskStates
  BY DEF HubTypeOK
<1>1. CASE \/ UNCHANGED allVars \/ HubStarts \/ HubRetries \/ HubDisconnects
           \/ \E m \in Machines : UpdateMachine(m)
           \/ \E c \in Clients : HubUp(c) \/ HubDialled(c) \/ HubRestored(c)
  BY <1>1 DEF allVars, hubVars, HubStarts, HubRetries, HubDisconnects, UpdateMachine, HubUp,
              HubAccepted, HubDialled, HubRestored
<1>2. ASSUME NEW j \in AllTasks, NextMachine(j) PROVE task'[k] = task[k] \/ TaskMove(task[k], task'[k])
  BY <1>2, NextMachineMoves
<1>3. ASSUME NEW j \in AllTasks, LoopEnds(j) PROVE task'[k] = task[k] \/ TaskMove(task[k], task'[k])
  BY <1>0, <1>3, AfterFields DEF LoopEnds, Handles
<1>4. CASE BootStarts
  <2>1. task["boot"].pc = "idle" /\ task'["boot"].pc = "finding"
    BY <1>0, <1>4 DEF BootStarts, Finding, TaskStates, AllTasks
  <2>2. k # "boot" => task'[k] = task[k]
    BY <1>0, <1>4 DEF BootStarts, Finding
  <2> QED
    BY <2>1, <2>2 DEF Begins
<1>5. ASSUME NEW c \in Clients, HubBroken(c) \/ HubEnded(c) \/ HubSevered(c)
      PROVE  task'[k] = task[k] \/ TaskMove(task[k], task'[k])
  BY <1>5, Closings, CloseMoves
<1>6. ASSUME NEW j \in AllTasks, AckArrives(j)
      PROVE  task'[k] = task[k] \/ TaskMove(task[k], task'[k])
  <2>1. /\ task[j].pc \in InFlight
        /\ \E pc \in {"next", "done"} : task' = [task EXCEPT ![j] = After(j, pc)]
    BY <1>6 DEF AckArrives, SubAcked, SubRefused, UnsubAcked, Awaits, InFlight
  <2>2. PICK pc \in {"next", "done"} : task' = [task EXCEPT ![j] = After(j, pc)]
    BY <2>1
  <2>3. task'[j] = After(j, pc) /\ (j # k => task'[k] = task[k])
    BY <1>0, <2>2
  <2>4. IsAnswered(task[j], task'[j])
    BY <2>1, <2>3, AfterFields DEF IsAnswered
  <2> QED
    BY <2>3, <2>4
<1>7. ASSUME NEW j \in AllTasks,
             ResubscribeAll(j) \/ SubscribeToMachineById(j) \/ UnsubscribeFromMachine(j)
      PROVE  task'[k] = task[k] \/ TaskMove(task[k], task'[k])
  BY <1>7, CallMoves
<1>8. ASSUME NEW j \in AllTasks, FindFails(j)
      PROVE  task'[k] = task[k] \/ TaskMove(task[k], task'[k])
  BY <1>0, <1>8, AfterFields DEF FindFails, Finds
<1>9. ASSUME NEW j \in AllTasks, FindReturns(j)
      PROVE  task'[k] = task[k] \/ TaskMove(task[k], task'[k])
  <2> DEFINE asked == IF task[j].machine = None THEN Machines ELSE {task[j].machine}
             found == {<<m, topicOf[m]>> : m \in asked}
  <2>1. task' = [task EXCEPT ![j] = [Idle EXCEPT !.pc = "next", !.rows = found]] /\ task[j].pc = "finding"
    BY <1>9 DEF FindReturns
  <2>2. asked \in SUBSET Machines
    BY <1>0 DEF TaskStates
  <2> HIDE DEF asked
  <2>3. task'[j].pc = "next" /\ task'[j].rows = found
    BY <1>0, <2>1 DEF Idle
  <2>4. Finds(task[j], task'[j])
    BY <2>1, <2>2, <2>3 DEF Finds
  <2>5. j # k => task'[k] = task[k]
    BY <1>0, <2>1
  <2> QED
    BY <2>4, <2>5
<1> QED
  BY <1>1, <1>2, <1>3, <1>4, <1>5, <1>6, <1>7, <1>8, <1>9 DEF HubNext, Microtask, Macrotask

(* How many moves a task may still make.                                   *)
TaskVariant(state) ==
  CASE state.pc = "idle"      -> 2 * Cardinality(Machines) + 4
    [] state.pc = "finding"   -> 2 * Cardinality(Machines) + 3
    [] state.pc \in InFlight  -> 2 * Cardinality(state.rows) + 2
    [] state.pc = "next"      -> 2 * Cardinality(state.rows) + 1
    [] state.pc = "done"      -> 0

(* No more rows than there are machines.                                   *)
Few(rows) == IsFiniteSet(rows) /\ Cardinality(rows) =< Cardinality(Machines)

FewLeft(state) == state.pc \in {"next"} \cup InFlight => Few(state.rows)

LEMMA FoundAreFew ==
  ASSUME IsFiniteSet(Machines), NEW asked \in SUBSET Machines
  PROVE  Few({<<m, topicOf[m]>> : m \in asked})
<1> DEFINE found == {<<m, topicOf[m]>> : m \in asked}
           f == [m \in asked |-> <<m, topicOf[m]>>]
<1>1. IsFiniteSet(asked) /\ Cardinality(asked) =< Cardinality(Machines)
  BY FS_Subset
<1>2. f \in Surjection(asked, found)
  BY DEF Surjection
<1>3. IsFiniteSet(found) /\ Cardinality(found) =< Cardinality(asked)
  BY <1>1, <1>2, FS_Surjection
<1> HIDE DEF found
<1>4. Few(found)
  BY <1>1, <1>3, FS_CardinalityType DEF Few
<1> QED
  BY <1>4 DEF found

(* A move takes one of the steps that are left.                            *)
LEMMA MoveTakesOne ==
  ASSUME IsFiniteSet(Machines), NEW old \in TaskStates, NEW new \in TaskStates,
         FewLeft(old), FewLeft(new), TaskMove(old, new)
  PROVE  TaskVariant(new) < TaskVariant(old)
<1> DEFINE left(state) == Cardinality(state.rows)
<1>0. Cardinality(Machines) \in Nat
  BY FS_CardinalityType
<1>1. \A rows : Few(rows) => Cardinality(rows) \in 0..Cardinality(Machines)
  BY <1>0, FS_CardinalityType DEF Few
<1>2. new.pc \in {"next"} \cup InFlight => left(new) \in 0..Cardinality(Machines)
  BY <1>1 DEF FewLeft
<1>3. new.pc = "done" => TaskVariant(new) = 0
  BY DEF TaskVariant, InFlight
<1>4. new.pc \in InFlight => TaskVariant(new) = 2 * left(new) + 2
  BY DEF TaskVariant, InFlight
<1>5. new.pc = "next" => TaskVariant(new) = 2 * left(new) + 1
  BY DEF TaskVariant, InFlight
<1>6. CASE Begins(old, new)
  <2>1. TaskVariant(old) = 2 * Cardinality(Machines) + 4
    BY <1>6 DEF Begins, TaskVariant, InFlight
  <2>2. new.pc = "finding" => TaskVariant(new) = 2 * Cardinality(Machines) + 3
    BY DEF TaskVariant, InFlight
  <2>3. new.rows = {} => left(new) = 0
    BY FS_EmptySet
  <2> HIDE DEF left
  <2> QED
    BY <1>0, <1>3, <1>4, <1>6, <2>1, <2>2, <2>3 DEF Begins, InFlight
<1>7. CASE Finds(old, new)
  <2>1. TaskVariant(old) = 2 * Cardinality(Machines) + 3
    BY <1>7 DEF Finds, TaskVariant, InFlight
  <2> HIDE DEF left
  <2> QED
    BY <1>0, <1>2, <1>3, <1>5, <1>7, <2>1 DEF Finds
<1>8. CASE Handles(old, new)
  <2>1. TaskVariant(old) = 2 * left(old) + 1
    BY <1>8 DEF Handles, TaskVariant, InFlight
  <2>2. IsFiniteSet(old.rows) /\ left(old) \in 0..Cardinality(Machines)
    BY <1>1, <1>8 DEF Handles, FewLeft, Few
  <2>3. \A row \in old.rows : Cardinality(old.rows \ {row}) = left(old) - 1
    BY <2>2, FS_RemoveElement
  <2>4. new.pc = "done" \/ (new.pc \in {"next"} \cup InFlight /\ left(new) = left(old) - 1)
    BY <1>8, <2>3 DEF Handles, InFlight
  <2> HIDE DEF left
  <2> QED
    BY <1>0, <1>3, <1>4, <1>5, <1>8, <2>1, <2>2, <2>4 DEF Handles, InFlight
<1>9. CASE IsAnswered(old, new)
  <2>1. TaskVariant(old) = 2 * left(old) + 2
    BY <1>9 DEF IsAnswered, TaskVariant, InFlight
  <2>2. left(old) \in 0..Cardinality(Machines)
    BY <1>1, <1>9 DEF IsAnswered, FewLeft
  <2>3. new.pc = "done" \/ (new.pc = "next" /\ left(new) = left(old))
    BY <1>9 DEF IsAnswered
  <2> HIDE DEF left
  <2> QED
    BY <1>0, <1>3, <1>5, <2>1, <2>2, <2>3
<1> QED
  BY <1>6, <1>7, <1>8, <1>9 DEF TaskMove

(* A move leaves few rows.                                                 *)
LEMMA MoveLeavesFew ==
  ASSUME IsFiniteSet(Machines), NEW old, NEW new, FewLeft(old), TaskMove(old, new)
  PROVE  FewLeft(new)
<1> USE DEF FewLeft
<1>1. CASE Begins(old, new)
  <2>1. Few({})
    BY FS_EmptySet, FS_CardinalityType DEF Few
  <2> QED
    BY <1>1, <2>1 DEF Begins, InFlight
<1>2. CASE Finds(old, new)
  BY <1>2, FoundAreFew DEF Finds, InFlight
<1>3. CASE Handles(old, new)
  <2>1. IsFiniteSet(old.rows) /\ Cardinality(old.rows) =< Cardinality(Machines)
    BY <1>3 DEF Handles, Few
  <2>2. Cardinality(old.rows) \in Nat /\ Cardinality(Machines) \in Nat
    BY <2>1, FS_CardinalityType
  <2>3. ASSUME NEW row \in old.rows PROVE Few(old.rows \ {row})
    <3>1. IsFiniteSet(old.rows \ {row}) /\ Cardinality(old.rows \ {row}) = Cardinality(old.rows) - 1
      BY <2>1, FS_RemoveElement
    <3> QED
      BY <2>1, <2>2, <3>1 DEF Few
  <2> QED
    BY <1>3, <2>3 DEF Handles, InFlight
<1>4. CASE IsAnswered(old, new)
  BY <1>4 DEF IsAnswered, InFlight
<1> QED
  BY <1>1, <1>2, <1>3, <1>4 DEF TaskMove


(* Every task comes to an end, whatever faults, refusals, calls, changed   *)
(* topics and shutdowns come between (hazard: a lost connection in the     *)
(* middle of the loop of subscribeToAllMachines()): no task repeats a      *)
(* move, and each has at most two per machine and four more.  It is what   *)
(* DispatcherBoots adds its fairness to.                                   *)
THEOREM EveryTaskEnds ==
  ASSUME IsFiniteSet(Machines)
  PROVE  HubSpec =>
           /\ [](\A k \in AllTasks : TaskVariant(task[k]) \in 0..(2 * Cardinality(Machines) + 4))
           /\ [][\A k \in AllTasks :
                   task'[k] # task[k] => TaskVariant(task'[k]) < TaskVariant(task[k])]_allVars
<1> DEFINE AllFew == \A k \in AllTasks : FewLeft(task[k])
           Inv == HubTypeOK /\ AllFew
<1>1. HubInit => AllFew
  BY DEF HubInit, Idle, FewLeft, InFlight
<1>2. ASSUME HubTypeOK, HubTypeOK', AllFew, [HubNext]_allVars
      PROVE  /\ AllFew'
             /\ \A k \in AllTasks :
                  task'[k] # task[k] => TaskVariant(task'[k]) < TaskVariant(task[k])
  <2> SUFFICES ASSUME NEW k \in AllTasks
               PROVE  /\ FewLeft(task'[k])
                      /\ task'[k] # task[k] => TaskVariant(task'[k]) < TaskVariant(task[k])
    OBVIOUS
  <2>1. task[k] \in TaskStates /\ task'[k] \in TaskStates /\ FewLeft(task[k])
    BY <1>2 DEF HubTypeOK
  <2>2. task'[k] = task[k] \/ TaskMove(task[k], task'[k])
    BY <1>2, TaskMoves
  <2>3. FewLeft(task'[k])
    BY <2>1, <2>2, MoveLeavesFew
  <2> QED
    BY <2>1, <2>2, <2>3, MoveTakesOne
<1>3. HubTypeOK /\ AllFew =>
        \A k \in AllTasks : TaskVariant(task[k]) \in 0..(2 * Cardinality(Machines) + 4)
  <2> SUFFICES ASSUME NEW k \in AllTasks, task[k] \in TaskStates, FewLeft(task[k])
               PROVE  TaskVariant(task[k]) \in 0..(2 * Cardinality(Machines) + 4)
    BY DEF HubTypeOK
  <2>1. Cardinality(Machines) \in Nat
    BY FS_CardinalityType
  <2>2. task[k].pc \in {"next"} \cup InFlight => Cardinality(task[k].rows) \in 0..Cardinality(Machines)
    BY <2>1, FS_CardinalityType DEF FewLeft, Few
  <2>3. task[k].pc \in {"idle", "finding", "next", "subscribing", "unsubscribing", "done"}
    BY DEF TaskStates
  <2> QED
    BY <2>1, <2>2, <2>3 DEF TaskVariant, InFlight
<1> HIDE DEF AllFew
<1>4. HubSpec => []AllFew
  BY <1>1, <1>2, HubTypeCorrect, PTL DEF HubSpec
<1> QED
  BY <1>2, <1>3, <1>4, HubTypeCorrect, PTL DEF HubSpec


(* A request in flight is on a connection that is up or being ended.       *)
RequestsAreAnswerable ==
  \A k \in AllTasks : task[k].pc \in InFlight => conn[task[k].on] \in {"connected", "ending"}

(* The steps of the connection that leave the tasks alone.                 *)
LEMMA ConnectionStaysOpen ==
  ASSUME ClientTypeOK, NEW c \in Clients, conn[c] \in {"connected", "ending"},
         \/ HubStarts \/ HubRetries \/ HubDisconnects
         \/ \E d \in Clients : HubUp(d) \/ HubDialled(d)
  PROVE  conn'[c] \in {"connected", "ending"}
<1> USE DEF ClientTypeOK
<1>1. ASSUME NEW d \in Clients, NEW caller, Open(d, caller) PROVE conn'[c] \in {"connected", "ending"}
  BY <1>1 DEF Open
<1>2. CASE HubStarts \/ HubRetries
  BY <1>1, <1>2 DEF HubStarts, HubRetries, OnModuleInit, ConnectFrom, ReconnectTimer, clientVars
<1>3. CASE HubDisconnects
  BY <1>3 DEF HubDisconnects, OnModuleDestroy, OnApplicationShutdown, DisconnectFrom, BeginEnd, Release
<1>4. ASSUME NEW d \in Clients, HubUp(d) \/ HubDialled(d) PROVE conn'[c] \in {"connected", "ending"}
  BY <1>4 DEF HubUp, HubDialled, HubAccepted, Accepted, Refused, ClosedSilently, Dialled,
              Accept, Refuse, DropSilently, Dial
<1> QED
  BY <1>2, <1>3, <1>4

(* The connection that closes is the one whose requests fail.              *)
LEMMA OnlyItsRequestsFail ==
  ASSUME ClientTypeOK, HubTypeOK, RequestsAreAnswerable,
         NEW c \in Clients, HubBroken(c) \/ HubEnded(c) \/ HubSevered(c)
  PROVE  RequestsAreAnswerable'
<1> SUFFICES ASSUME NEW k \in AllTasks, task'[k].pc \in InFlight
             PROVE  conn'[task'[k].on] \in {"connected", "ending"}
  BY DEF RequestsAreAnswerable
<1>1. FailRequests(c) /\ (Break(c) \/ EndCallback(c) \/ Sever(c))
  BY Closings
<1>2. task'[k] = task[k] /\ task[k].pc \in InFlight /\ task[k].on # c
  BY <1>1, CloseMoves
<1>3. conn[task[k].on] \in {"connected", "ending"} /\ task[k].on \in Clients
  BY <1>2 DEF RequestsAreAnswerable, HubTypeOK, RequestsTyped
<1>4. conn'[task[k].on] = conn[task[k].on]
  BY <1>1, <1>2, <1>3 DEF Break, EndCallback, Sever, ClientTypeOK
<1> QED
  BY <1>2, <1>3, <1>4

LEMMA AnswerableStep ==
  ASSUME ClientTypeOK, HubTypeOK, RequestsAreAnswerable, [HubNext]_allVars
  PROVE  RequestsAreAnswerable'
<1>1. CASE UNCHANGED allVars
  BY <1>1 DEF RequestsAreAnswerable, allVars, vars, clientVars, hubVars
<1>2. CASE \/ HubStarts \/ HubRetries \/ HubDisconnects
           \/ \E d \in Clients : HubUp(d) \/ HubDialled(d)
  <2>1. task' = task
    BY <1>2 DEF HubStarts, HubRetries, HubDisconnects, HubUp, HubAccepted, HubDialled, hubVars
  <2>2. \A k \in AllTasks : task[k].pc \in InFlight => task[k].on \in Clients
    BY DEF HubTypeOK, RequestsTyped
  <2> QED
    BY <1>2, <2>1, <2>2, ConnectionStaysOpen DEF RequestsAreAnswerable
<1>3. CASE \E c \in Clients : HubBroken(c) \/ HubEnded(c) \/ HubSevered(c)
  BY <1>3, OnlyItsRequestsFail
<1>4. ASSUME conn' = conn, NEW j \in AllTasks,
             task'[j].pc \in InFlight => conn[task'[j].on] = "connected",
             \A k \in AllTasks \ {j} : task'[k] = task[k]
      PROVE  RequestsAreAnswerable'
  BY <1>4 DEF RequestsAreAnswerable
<1>5. ASSUME NEW j \in AllTasks,
             NextMachine(j) \/ ResubscribeAll(j) \/ SubscribeToMachineById(j) \/ UnsubscribeFromMachine(j)
      PROVE  RequestsAreAnswerable'
  <2>1. conn' = conn
    BY <1>5 DEF NextMachine, ResubscribeAll, SubscribeToMachineById, UnsubscribeFromMachine, vars, clientVars
  <2> QED
    BY <1>4, <1>5, <2>1, NextMachineMoves, CallMoves
<1>6. ASSUME NEW j \in AllTasks, LoopEnds(j) \/ AckArrives(j) \/ FindReturns(j) \/ FindFails(j)
      PROVE  RequestsAreAnswerable'
  <2>1. conn' = conn
    BY <1>6 DEF LoopEnds, AckArrives, SubAcked, SubRefused, UnsubAcked, FindReturns, FindFails, vars, clientVars
  <2>2. task \in [AllTasks -> TaskStates]
    BY DEF HubTypeOK
  <2>3. ASSUME NEW new, task' = [task EXCEPT ![j] = new], new.pc \in {"next", "done"}
        PROVE  RequestsAreAnswerable'
    BY <1>4, <2>1, <2>2, <2>3 DEF InFlight
  <2>4. CASE LoopEnds(j) \/ AckArrives(j) \/ FindFails(j)
    <3>1. \E pc \in {"next", "done"} : task' = [task EXCEPT ![j] = After(j, pc)]
      BY <2>4 DEF LoopEnds, AckArrives, SubAcked, SubRefused, UnsubAcked, FindFails
    <3> QED
      BY <2>3, <3>1, AfterFields
  <2>5. CASE FindReturns(j)
    <3>1. \E rows : task' = [task EXCEPT ![j] = [Idle EXCEPT !.pc = "next", !.rows = rows]]
      BY <2>5 DEF FindReturns
    <3> QED
      BY <2>3, <3>1 DEF Idle
  <2> QED
    BY <1>6, <2>4, <2>5
<1>7. CASE BootStarts
  <2>1. conn' = conn /\ task' = [task EXCEPT !["boot"].pc = "finding"]
    BY <1>7 DEF BootStarts, Finding, vars, clientVars
  <2>2. task \in [AllTasks -> TaskStates] /\ "boot" \in AllTasks
    BY DEF HubTypeOK, AllTasks
  <2>3. task'["boot"].pc = "finding"
    BY <2>1, <2>2 DEF TaskStates
  <2> QED
    BY <1>4, <2>1, <2>2, <2>3 DEF InFlight
<1>8. CASE (\E m \in Machines : UpdateMachine(m)) \/ \E c \in Clients : HubRestored(c)
  BY <1>8, Restorings DEF UpdateMachine, RequestsAreAnswerable, vars, clientVars
<1> QED
  BY <1>1, <1>2, <1>3, <1>5, <1>6, <1>7, <1>8 DEF HubNext, Microtask, Macrotask

(* No task waits for an answer that cannot arrive: whatever becomes of the *)
(* client it asked (it may be replaced, evicted, released without end() or *)
(* ended in the meantime), the request is on a connection that is still    *)
(* open, so an acknowledgement or the close that fails it is to come.      *)
THEOREM RequestsAlwaysAnswerable == HubSpec => []RequestsAreAnswerable
<1>1. HubInit => RequestsAreAnswerable
  BY DEF HubInit, RequestsAreAnswerable, Idle, InFlight
<1>2. ClientTypeOK /\ HubTypeOK /\ RequestsAreAnswerable /\ [HubNext]_allVars => RequestsAreAnswerable'
  BY AnswerableStep
<1> QED
  BY <1>1, <1>2, HubTypeCorrect, PTL DEF HubSpec


-----------------------------------------------------------------------------
(* What a single client restores.                                          *)

(* A request is about a topic that mqtt.js will restore, and of which its  *)
(* restoration that is in flight knows nothing.                            *)
RequestsWanted ==
  \A k \in AllTasks :
    /\ task[k].pc # "unsubscribing"
    /\ task[k].pc = "subscribing" =>
         /\ task[k].on \in Used
         /\ task[k].topic \in wanted[task[k].on] \ restoring[task[k].on]

(* mqtt.js asks again for nothing that it does not want.                   *)
RestoringWanted == \A c \in Clients : restoring[c] \subseteq wanted[c]

RecordedWanted == \A c \in Used : RecordedTopics \subseteq wanted[c] \cup lapsed

(* What is restored but not delivered is being asked for: without this a   *)
(* second machine with the same topic might be recorded too early.         *)
SessionServed ==
  session # NoClient =>
    /\ wanted[session] \subseteq served \cup restoring[session] \cup Requested("subscribing")
    /\ RecordedTopics \subseteq served \cup restoring[session] \cup lapsed

RestoreInv ==
  /\ session # NoClient => session \in Used
  /\ RequestsWanted
  /\ RestoringWanted
  /\ Used = {} => RecordedTopics = {}
  /\ SingleClient => RecordedWanted /\ SessionServed

(* Steps of the clients that leave the topics alone.                       *)
LEMMA ClientsMoveRestores ==
  ASSUME ClientTypeOK, RestoreInv, ClientStep, ~\E c \in Clients : Accept(c),
         UNCHANGED <<entry, brokerVars, task>>
  PROVE  RestoreInv'
<1> USE DEF RestoreInv, RestoringWanted, brokerVars
<1>1. RecordedTopics' = RecordedTopics /\ Requested("subscribing")' = Requested("subscribing")
  BY DEF RecordedTopics, Requested
<1>2. RequestsWanted'
  BY UsedGrows DEF RequestsWanted
<1>3. CASE \E c \in Clients, caller \in Callers : Open(c, caller)
  <2>1. PICK c \in Clients, caller \in Callers : Open(c, caller)
    BY <1>3
  <2>2. c \notin Used /\ Used' = Used \cup {c} /\ session' = session
    BY <2>1, OpenUses DEF Open
  <2>3. ASSUME SingleClient' PROVE Used = {}
    BY <2>2, <2>3 DEF SingleClient
  <2>4. SingleClient' => RecordedTopics' = {} /\ session' = NoClient
    BY <1>1, <2>2, <2>3
  <2> QED
    BY <1>2, <2>2, <2>4 DEF RecordedWanted, SessionServed
<1>4. CASE ~\E c \in Clients, caller \in Callers : Open(c, caller)
  <2>1. Used' = Used
    BY <1>4, OthersUseNone
  <2>2. session' \in {session, NoClient}
    BY <1>4 DEF ClientStep, Refuse, DropSilently, Dial, Break, EndCallback, BeginEnd, Release, Sever,
                clientVars
  <2> QED
    BY <1>1, <1>2, <2>1, <2>2 DEF SingleClient, RecordedWanted, SessionServed
<1> QED
  BY <1>3, <1>4

LEMMA AcceptRestores ==
  ASSUME ClientTypeOK, HubTypeOK, RequestsAreAnswerable, RestoreInv, NEW c \in Clients, HubAccepted(c)
  PROVE  RestoreInv'
<1> USE DEF RestoreInv
<1>1. /\ Accept(c) /\ served' = {} /\ UNCHANGED <<entry, wanted, lapsed, task>>
      /\ restoring' = [restoring EXCEPT ![c] = wanted[c]]
  BY DEF HubAccepted, Accepted, SessionBegins
<1>2. Used' = Used /\ c \in Used /\ session' = c
  <2>1. \A d \in Clients : conn'[d] = "unused" <=> conn[d] = "unused"
    BY <1>1 DEF Accept, ClientTypeOK
  <2> QED
    BY <1>1, <2>1 DEF Accept, Used
<1>3. RecordedTopics' = RecordedTopics
  BY <1>1 DEF RecordedTopics
<1>4. \A d \in Clients : restoring'[d] = IF d = c THEN wanted[c] ELSE restoring[d]
  BY <1>1 DEF HubTypeOK, BrokerTypeOK
<1>5. \A k \in AllTasks : task[k].pc = "subscribing" => task[k].on \in Clients /\ task[k].on # c
  BY <1>1 DEF Accept, RequestsAreAnswerable, HubTypeOK, RequestsTyped, InFlight
<1>6. RequestsWanted' /\ RestoringWanted'
  BY <1>1, <1>2, <1>4, <1>5 DEF RequestsWanted, RestoringWanted
<1> QED
  BY <1>1, <1>2, <1>3, <1>4, <1>6 DEF SingleClient, RecordedWanted, SessionServed

(* The broker answers the restoration, or refuses some of it.              *)
LEMMA RestoredRestores ==
  ASSUME ClientTypeOK, HubTypeOK, RestoreInv, NEW c \in Clients, HubRestored(c)
  PROVE  RestoreInv'
<1> USE DEF RestoreInv
<1>1. /\ UNCHANGED <<entry, task, Used, session>>
      /\ RecordedTopics' = RecordedTopics /\ Requested("subscribing")' = Requested("subscribing")
  BY Restorings DEF vars, clientVars, Used, RecordedTopics, Requested
<1>2. \A d \in Clients : restoring'[d] = IF d = c THEN {} ELSE restoring[d]
  BY Restorings DEF HubTypeOK, BrokerTypeOK
<1>3. PICK granted \in SUBSET restoring[c] :
        /\ served' = IF session = c THEN served \cup granted ELSE served
        /\ \/ /\ granted = restoring[c]
              /\ wanted' = wanted /\ lapsed' = lapsed
           \/ /\ wanted' = [wanted EXCEPT ![c] = @ \ restoring[c]]
              /\ lapsed' = lapsed \cup restoring[c]
  BY Restorings
<1>4. c \in Used
  BY DEF HubRestored, RestoreAcked, RestoreGranted, RestoreRefused, Restoration, Used
<1>5. SingleClient /\ session # NoClient => session = c
  BY <1>4 DEF SingleClient
<1>6. restoring[c] \subseteq wanted[c]
  BY DEF RestoringWanted
<1>7. CASE wanted' = wanted /\ lapsed' = lapsed /\ granted = restoring[c]
  <2>1. RequestsWanted' /\ RestoringWanted'
    BY <1>1, <1>2, <1>7 DEF RequestsWanted, RestoringWanted, Used
  <2>2. SingleClient => RecordedWanted'
    BY <1>1, <1>4, <1>6, <1>7 DEF SingleClient, RecordedWanted
  <2>3. SingleClient => SessionServed'
    BY <1>1, <1>2, <1>3, <1>5, <1>7 DEF SessionServed
  <2> QED
    BY <1>1, <2>1, <2>2, <2>3 DEF SingleClient
<1>8. CASE wanted' = [wanted EXCEPT ![c] = @ \ restoring[c]] /\ lapsed' = lapsed \cup restoring[c]
  <2>0. \A d \in Clients : wanted'[d] = IF d = c THEN wanted[d] \ restoring[c] ELSE wanted[d]
    BY <1>8 DEF HubTypeOK, BrokerTypeOK
  <2>1. RequestsWanted' /\ RestoringWanted'
    BY <1>1, <1>2, <2>0 DEF RequestsWanted, RestoringWanted, Used
  <2>2. SingleClient => RecordedWanted'
    BY <1>1, <1>8, <2>0 DEF RecordedWanted, Used
  <2>3. SingleClient => SessionServed'
    BY <1>1, <1>2, <1>3, <1>5, <1>8, <2>0 DEF SessionServed
  <2> QED
    BY <1>1, <2>1, <2>2, <2>3 DEF SingleClient
<1> QED
  BY <1>3, <1>7, <1>8

(* Steps of a task that is not waiting for the broker, nor begins to.      *)
LEMMA TaskRestores ==
  ASSUME RestoreInv, UNCHANGED <<clientVars, entry, brokerVars>>,
         \A k \in AllTasks : task[k].pc # "subscribing" /\ task'[k].pc \notin InFlight
  PROVE  RestoreInv'
<1> USE DEF brokerVars
<1>1. Used' = Used /\ session' = session /\ RecordedTopics' = RecordedTopics
  BY DEF clientVars, Used, RecordedTopics
<1>2. Requested("subscribing") = {} /\ RequestsWanted'
  BY DEF Requested, RequestsWanted, InFlight
<1> QED
  BY <1>1, <1>2 DEF RestoreInv, RestoringWanted, SingleClient, RecordedWanted, SessionServed

LEMMA NextMachineRestores ==
  ASSUME ClientTypeOK, HubTypeOK, RestoreInv, Tasks = {}, NEW k \in AllTasks, NextMachine(k)
  PROVE  RestoreInv'
<1> USE DEF RestoreInv, RestoringWanted
<1>1. PICK row \in task[k].rows :
        Skipped(k, row) \/ SubscribeFails(k, row) \/ AlreadyWanted(k, row) \/ SubscribeSent(k, row)
  BY DEF NextMachine
<1>2. k = "boot" /\ task[k].pc = "next" /\ UNCHANGED <<clientVars, restoring, served, lapsed>>
  BY OnlyBoot DEF NextMachine, vars
<1>3. Used' = Used /\ session' = session /\ Requested("subscribing") = {}
  BY <1>2, OnlyBoot DEF clientVars, Used, Requested
<1>4. Reachable => client \in Used
  BY DEF Reachable, ClientTypeOK, Used
<1>5. ASSUME RowHandled(k, row)
      PROVE  RequestsWanted' /\ Requested("subscribing")' = {}
  <2>1. task'["boot"].pc = "next"
    BY <1>2, <1>5 DEF RowHandled, HubTypeOK, TaskStates
  <2> QED
    BY <2>1, OnlyBoot DEF RequestsWanted, Requested
<1>6. CASE Skipped(k, row) \/ SubscribeFails(k, row)
  <2>1. RowHandled(k, row) /\ wanted' = wanted
    BY <1>6 DEF Skipped, SubscribeFails
  <2>2. RecordedTopics' \subseteq RecordedTopics
    BY <1>6 DEF Skipped, SubscribeFails, RecordedTopics, Recorded, HubTypeOK
  <2> QED
    BY <1>2, <1>3, <1>5, <2>1, <2>2 DEF SingleClient, RecordedWanted, SessionServed
<1>7. CASE AlreadyWanted(k, row)
  <2>1. RowHandled(k, row) /\ wanted' = wanted /\ client \in Used /\ row[2] \in wanted[client]
    BY <1>4, <1>7 DEF AlreadyWanted
  <2>2. RecordedTopics' \subseteq RecordedTopics \cup {row[2]}
    BY <1>7 DEF AlreadyWanted, RecordedTopics, HubTypeOK
  <2>3. SingleClient => RecordedWanted'
    BY <1>2, <1>3, <2>1, <2>2 DEF SingleClient, RecordedWanted
  <2>4. SingleClient /\ session # NoClient => row[2] \in served \cup restoring[session]
    BY <1>3, <2>1 DEF SingleClient, SessionServed
  <2>5. SingleClient => SessionServed'
    BY <1>2, <1>3, <1>5, <2>1, <2>2, <2>4 DEF SessionServed
  <2> QED
    BY <1>2, <1>3, <1>5, <2>1, <2>3, <2>5 DEF SingleClient
<1>8. CASE SubscribeSent(k, row)
  <2>1. /\ entry' = entry /\ client \in Used
        /\ wanted' = [wanted EXCEPT ![client] = @ \cup {row[2]}]
    BY <1>4, <1>8 DEF SubscribeSent
  <2>2. RecordedTopics' = RecordedTopics
    BY <2>1 DEF RecordedTopics
  <2>3. \A c \in Clients : /\ wanted[c] \subseteq wanted'[c]
                           /\ wanted'[c] \subseteq wanted[c] \cup {row[2]}
    BY <2>1 DEF HubTypeOK, BrokerTypeOK
  <2>4. row[2] \in wanted'[client]
    BY <2>1 DEF HubTypeOK, BrokerTypeOK, Used
  <2>5. task'["boot"].pc = "subscribing" /\ task'["boot"].topic = row[2] /\ task'["boot"].on = client
    BY <1>2, <1>8, OnlyBoot DEF SubscribeSent, HubTypeOK
  <2>6. RequestsWanted'
    <3>1. client \in Clients /\ row[2] \notin restoring[client]
      BY <1>8, <2>1 DEF SubscribeSent, Used
    <3> QED
      BY <1>2, <1>3, <2>1, <2>4, <2>5, <3>1, OnlyBoot DEF RequestsWanted
  <2>7. row[2] \in Requested("subscribing")'
    BY <2>5, OnlyBoot DEF Requested
  <2>8. SingleClient => RecordedWanted' /\ SessionServed'
    BY <1>2, <1>3, <2>2, <2>3, <2>7 DEF RecordedWanted, SessionServed, Used
  <2> QED
    BY <1>2, <1>3, <2>2, <2>3, <2>6, <2>8 DEF SingleClient
<1> QED
  BY <1>1, <1>6, <1>7, <1>8

LEMMA AckRestores ==
  ASSUME ClientTypeOK, HubTypeOK, RestoreInv, Tasks = {}, NEW k \in AllTasks, AckArrives(k)
  PROVE  RestoreInv'
<1> USE DEF RestoreInv, RestoringWanted
<1> DEFINE t == task[k].topic
           c == task[k].on
<1>1. /\ k = "boot" /\ task[k].pc = "subscribing" /\ t \in Topics /\ c \in Clients
      /\ c \in Used /\ t \in wanted[c] /\ restoring[c] = {}
  BY OnlyBoot DEF AckArrives, SubAcked, SubRefused, UnsubAcked, Awaits, Answers, RequestsWanted, HubTypeOK,
                  RequestsTyped, InFlight
<1>2. /\ SubAcked(k) \/ SubRefused(k)
      /\ task' = [task EXCEPT ![k] = After(k, "next")] /\ UNCHANGED <<clientVars, restoring>>
  BY <1>1 DEF AckArrives, SubAcked, SubRefused, UnsubAcked, Awaits, vars
<1>3. task'["boot"].pc = "next"
  BY <1>1, <1>2, AfterType DEF HubTypeOK
<1>4. RequestsWanted' /\ Requested("subscribing")' = {}
  BY <1>3, OnlyBoot DEF RequestsWanted, Requested
<1>5. Used' = Used /\ session' = session
  BY <1>2 DEF clientVars, Used
<1>6. Requested("subscribing") = {t}
  BY <1>1, OnlyBoot DEF Requested
<1>7. SingleClient /\ session # NoClient => session = c
  BY <1>1 DEF SingleClient
<1>8. CASE SubAcked(k)
  <2>1. /\ wanted' = wanted /\ lapsed' \subseteq lapsed /\ lapsed \ lapsed' \subseteq {t}
        /\ served' = IF session = c THEN served \cup {t} ELSE served
    BY <1>8 DEF SubAcked, Granting
  <2>2. RecordedTopics' \subseteq RecordedTopics \cup {t}
    BY <1>8 DEF SubAcked, RecordedTopics, HubTypeOK
  <2> HIDE DEF t, c
  <2>3. SingleClient => RecordedWanted'
    BY <1>1, <1>5, <2>1, <2>2 DEF SingleClient, RecordedWanted
  <2>4. SingleClient => SessionServed'
    BY <1>1, <1>2, <1>4, <1>5, <1>6, <1>7, <2>1, <2>2 DEF SessionServed
  <2> QED
    BY <1>1, <1>2, <1>4, <1>5, <2>1, <2>3, <2>4 DEF SingleClient
<1>9. CASE SubRefused(k)
  <2>1. served' = served /\ lapsed' = lapsed /\ wanted' = [wanted EXCEPT ![c] = @ \ {t}]
    BY <1>9 DEF SubRefused
  <2>2. RecordedTopics' \subseteq RecordedTopics \ {t}
    BY <1>1, <1>9 DEF SubRefused, RecordedTopics, Recorded, HubTypeOK
  <2> HIDE DEF t, c
  <2>3. \A d \in Clients : /\ wanted[d] \ {t} \subseteq wanted'[d]
                           /\ wanted'[d] \subseteq wanted[d]
                           /\ d # c => wanted'[d] = wanted[d]
    BY <2>1 DEF HubTypeOK, BrokerTypeOK
  <2>4. t \notin wanted'[c]
    BY <1>1, <2>1 DEF HubTypeOK, BrokerTypeOK
  <2>5. SingleClient => RecordedWanted'
    BY <1>5, <2>1, <2>2, <2>3 DEF RecordedWanted, Used
  <2>6. SingleClient => SessionServed'
    BY <1>1, <1>2, <1>4, <1>5, <1>6, <1>7, <2>1, <2>2, <2>3, <2>4 DEF SessionServed
  <2>7. RestoringWanted'
    BY <1>1, <1>2, <2>3
  <2> QED
    BY <1>1, <1>4, <1>5, <2>5, <2>6, <2>7 DEF SingleClient
<1> QED
  BY <1>2, <1>8, <1>9

LEMMA CloseRestores ==
  ASSUME ClientTypeOK, HubTypeOK, RestoreInv, Tasks = {}, NEW c \in Clients,
         HubBroken(c) \/ HubEnded(c) \/ HubSevered(c)
  PROVE  RestoreInv'
<1> USE DEF RestoreInv, RestoringWanted
<1>1. /\ Break(c) \/ EndCallback(c) \/ Sever(c)
      /\ FailRequests(c) /\ wanted' = wanted /\ lapsed' = lapsed
      /\ served' = IF session = c THEN {} ELSE served
      /\ \A d \in Clients : restoring'[d] = IF d = c THEN {} ELSE restoring[d]
  BY Closings DEF SessionEnds, HubTypeOK, BrokerTypeOK
<1>2. Used' = Used /\ c \in Used
  <2>1. \A d \in Clients : conn'[d] = "unused" <=> conn[d] = "unused"
    BY <1>1 DEF Break, EndCallback, Sever, ClientTypeOK
  <2>2. conn[c] # "unused"
    BY <1>1 DEF Break, EndCallback, Sever
  <2> QED
    BY <2>1, <2>2 DEF Used
<1>3. session' = IF session = c THEN NoClient ELSE session
  BY <1>1 DEF Break, EndCallback, Sever
<1>4. SingleClient => session' = NoClient
  BY <1>2, <1>3 DEF SingleClient
<1>5. RecordedTopics' \subseteq RecordedTopics
  <2> DEFINE For(t) == {k \in Failing(c) : task[k].pc = "subscribing" /\ task[k].topic = t}
  <2>1. PICK last \in [Topics -> AllTasks] :
          entry' = [t \in Topics |->
                      IF For(t) = {} THEN entry[t] ELSE Recorded(task[last[t]].machine, FALSE)]
    BY <1>1, Zenon DEF FailRequests
  <2> HIDE DEF For
  <2> QED
    BY <2>1 DEF RecordedTopics, Recorded
<1>6. RequestsWanted'
  <2>1. \A k \in AllTasks : task'[k].pc \in InFlight => task'[k] = task[k] /\ task[k].on # c
    BY <1>1, CloseMoves
  <2>2. \A k \in AllTasks : task[k].pc \in InFlight => task[k].on \in Clients
    BY DEF HubTypeOK, RequestsTyped
  <2> QED
    BY <1>1, <1>2, <2>1, <2>2 DEF RequestsWanted, InFlight
<1> QED
  BY <1>1, <1>2, <1>3, <1>4, <1>5, <1>6 DEF SingleClient, RecordedWanted, SessionServed

LEMMA RestoreStep ==
  ASSUME ClientTypeOK, HubTypeOK, RequestsAreAnswerable, RestoreInv, Tasks = {}, [HubNext]_allVars
  PROVE  RestoreInv'
<1>1. CASE \/ UNCHANGED allVars \/ HubStarts \/ HubRetries \/ HubDisconnects
           \/ \E c \in Clients : HubDialled(c) \/ (HubUp(c) /\ ~HubAccepted(c))
  <2>1. UNCHANGED <<entry, brokerVars, task>>
    BY <1>1 DEF HubStarts, HubRetries, HubDisconnects, HubDialled, HubUp, hubVars, allVars
  <2>2. ~\E c \in Clients : Accept(c)
    <3>1. \A c \in Clients : Accept(c) => conn[c] = "connecting" /\ conn'[c] = "connected"
      BY DEF Accept, ClientTypeOK
    <3>2. CASE UNCHANGED allVars
      BY <3>1, <3>2 DEF allVars, vars, clientVars
    <3>3. CASE HubStarts \/ HubRetries
      BY <3>1, <3>3 DEF HubStarts, HubRetries, OnModuleInit, ReconnectTimer, ConnectFrom, Open,
                        clientVars, ClientTypeOK
    <3>4. CASE HubDisconnects
      BY <3>1, <3>4 DEF HubDisconnects, OnModuleDestroy, OnApplicationShutdown, DisconnectFrom,
                        BeginEnd, Release, ClientTypeOK
    <3>5. CASE \E c \in Clients : HubDialled(c) \/ (HubUp(c) /\ ~HubAccepted(c))
      BY <3>1, <3>5 DEF HubDialled, Dialled, Dial, HubUp, Refused, Refuse, ClosedSilently,
                        DropSilently, ClientTypeOK
    <3> QED
      BY <1>1, <3>2, <3>3, <3>4, <3>5
  <2> QED
    BY <2>1, <2>2, HubIsClientStep, ClientsMoveRestores
<1>2. ASSUME NEW k \in AllTasks, LoopEnds(k) PROVE RestoreInv'
  <2>1. task["boot"].pc = "next" /\ task'["boot"].pc = "done"
    BY <1>2, AfterType, OnlyBoot DEF LoopEnds, HubTypeOK
  <2> QED
    BY <1>2, <2>1, OnlyBoot, TaskRestores DEF LoopEnds, InFlight, vars
<1>3. CASE BootStarts
  <2>1. task["boot"].pc = "idle" /\ task'["boot"].pc = "finding"
    BY <1>3, OnlyBoot DEF BootStarts, Finding, HubTypeOK, TaskStates
  <2> QED
    BY <1>3, <2>1, OnlyBoot, TaskRestores DEF BootStarts, InFlight, vars
<1>4. ASSUME NEW k \in AllTasks, FindReturns(k) \/ FindFails(k) PROVE RestoreInv'
  <2>1. task["boot"].pc = "finding" /\ task'["boot"].pc \in {"next", "done"}
    BY <1>4, OnlyBoot, AfterType DEF FindReturns, FindFails, Idle, HubTypeOK
  <2> QED
    BY <1>4, <2>1, OnlyBoot, TaskRestores DEF FindReturns, FindFails, InFlight, vars
<1>5. ASSUME NEW k \in AllTasks PROVE ~Callable(k)
  BY OnlyBoot DEF Callable
<1> QED
  BY <1>1, <1>2, <1>3, <1>4, <1>5, NextMachineRestores, AckRestores, CloseRestores, AcceptRestores,
     RestoredRestores
     DEF HubNext, Microtask, Macrotask, UpdateMachine,
         ResubscribeAll, SubscribeToMachineById, UnsubscribeFromMachine

LEMMA RestoreInit == HubInit => RestoreInv
  BY DEF HubInit, Init, ClientInit, BrokerInit, RestoreInv, RequestsWanted, RestoringWanted,
         RecordedTopics, RecordedWanted,
         SessionServed, Used, Idle

(* As wired, and as long as the process has had one client, what the       *)
(* dispatcher has recorded as subscribed is delivered whenever the         *)
(* connection is up, however often it breaks during the start or after it, *)
(* save what mqtt.js is asking for again and what the broker has refused   *)
(* to restore: the record is wrong for no other reason.                    *)
THEOREM SingleClientRestores ==
  ASSUME Tasks = {}
  PROVE  HubSpec => []RestoredBySingleClient
<1> DEFINE IInv == /\ ClientTypeOK /\ HubTypeOK /\ RequestsAreAnswerable /\ RestoreInv
                   /\ IsFiniteSet(Used)
<1>1. HubInit => IInv
  <2>1. HubInit => Used = {} /\ RequestsAreAnswerable
    BY DEF HubInit, Init, ClientInit, Used, RequestsAreAnswerable, Idle, InFlight
  <2> QED
    BY <2>1, HubTypeInit, RestoreInit, FS_EmptySet
<1>2. IInv /\ [HubNext]_allVars => IInv'
  BY HubIsClientStep, ClientStepType, HubTypeStep, AnswerableStep, RestoreStep, UsedFinite
<1>3. IInv => RestoredBySingleClient
  BY SingleByCount DEF RestoreInv, SessionServed, RestoredBySingleClient
<1> HIDE DEF IInv
<1> QED
  BY <1>1, <1>2, <1>3, PTL DEF HubSpec

-----------------------------------------------------------------------------
(* What the boot has missed stays missed.                                  *)

(* After the boot nothing is asked for any more: what mqtt.js wants and    *)
(* what is delivered can only be restored or lost.                         *)
LEMMA BootedIsFinal ==
  ASSUME HubTypeOK, RestoreInv, Tasks = {}, Booted, [HubNext]_allVars
  PROVE  /\ Booted'
         /\ \A c \in Clients : wanted'[c] \subseteq wanted[c]
         /\ \A t \in served' : t \in served \/ \E c \in Clients : t \in wanted[c]
<1>1. \A k \in AllTasks : task[k].pc = "done"
  BY OnlyBoot DEF Booted
<1>2. task'["boot"] = task["boot"] \/ TaskMove(task["boot"], task'["boot"])
  BY TaskMoves DEF AllTasks
<1>3. Booted'
  BY <1>2 DEF TaskMove, Begins, Finds, Handles, IsAnswered, InFlight, Booted
<1>4. CASE \E c \in Clients : HubRestored(c)
  <2>1. PICK c \in Clients : HubRestored(c)
    BY <1>4
  <2>2. restoring[c] \subseteq wanted[c]
    BY DEF RestoreInv, RestoringWanted
  <2>3. served' \subseteq served \cup restoring[c] /\ \A d \in Clients : wanted'[d] \subseteq wanted[d]
    BY <2>1, Restorings DEF HubTypeOK, BrokerTypeOK
  <2> QED
    BY <1>3, <2>2, <2>3
<1>5. CASE \E c \in Clients : HubBroken(c) \/ HubEnded(c) \/ HubSevered(c)
  <2>1. wanted' = wanted /\ served' \subseteq served
    BY <1>5, Closings DEF SessionEnds
  <2> QED
    BY <1>3, <2>1
<1>6. CASE \E c \in Clients : HubAccepted(c)
  <2>1. wanted' = wanted /\ served' = {}
    BY <1>6 DEF HubAccepted, SessionBegins
  <2> QED
    BY <1>3, <2>1
<1>7. CASE /\ ~\E c \in Clients : \/ HubRestored(c) \/ HubBroken(c) \/ HubEnded(c)
                                 \/ HubSevered(c) \/ HubAccepted(c)
  <2>1. wanted' = wanted /\ served' = served
    BY <1>1, <1>7
       DEF HubNext, Microtask, Macrotask, NextMachine, LoopEnds, BootStarts, AckArrives, SubAcked,
           SubRefused, UnsubAcked, Awaits, ResubscribeAll, SubscribeToMachineById,
           UnsubscribeFromMachine, Callable, FindReturns, FindFails, UpdateMachine, HubStarts,
           HubRetries, HubDisconnects, HubUp, HubDialled, brokerVars, hubVars, allVars
  <2> QED
    BY <1>3, <2>1
<1> QED
  BY <1>4, <1>5, <1>6, <1>7

(* As wired, nobody makes up for what the boot could not subscribe (hazard *)
(* and finding: a broker that comes up after the start), nor for what a    *)
(* refused restoration has lost: after the boot, a topic that is not       *)
(* delivered and that no mqtt.js client wants is not delivered ever after, *)
(* whatever the reconnection chain still does.                             *)
THEOREM MissedForGood ==
  ASSUME Tasks = {}, NEW t \in Topics
  PROVE  HubSpec => []((/\ Booted /\ t \notin served
                        /\ \A c \in Clients : t \notin wanted[c]) => [](t \notin served))
<1> DEFINE IInv == ClientTypeOK /\ HubTypeOK /\ RequestsAreAnswerable /\ RestoreInv
           Missed == /\ Booted /\ t \notin served
                     /\ \A c \in Clients : t \notin wanted[c]
<1>1. HubInit => IInv
  <2>1. HubInit => RequestsAreAnswerable
    BY DEF HubInit, RequestsAreAnswerable, Idle, InFlight
  <2> QED
    BY <2>1, HubTypeInit, RestoreInit
<1>2. IInv /\ [HubNext]_allVars => IInv'
  BY HubIsClientStep, ClientStepType, HubTypeStep, AnswerableStep, RestoreStep
<1>3. IInv /\ Missed /\ [HubNext]_allVars => Missed'
  BY BootedIsFinal
<1>4. Missed => t \notin served
  OBVIOUS
<1> HIDE DEF IInv, Missed
<1>5. HubSpec => [](Missed => [](t \notin served))
  BY <1>1, <1>2, <1>3, <1>4, PTL DEF HubSpec
<1> QED
  BY <1>5 DEF Missed

=============================================================================
