---------------------------- MODULE MqttDispatcher ----------------------------
(***************************************************************************)
(* MqttDispatcherService (src/src/machines/mqtt-dispatcher.service.ts) on  *)
(* top of MqttIngestor: from the machines of the database to the topics    *)
(* the broker delivers.  Five places hold a view of the same fact, that a  *)
(* topic is subscribed:                                                    *)
(*   entry       what the dispatcher recorded for the topic,               *)
(*   registry    the schema MessageSchemaRegistryService validates it with,*)
(*   subscribed  what MqttClientService reports in its statistics,         *)
(*   wanted      what each mqtt.js client will restore when it reconnects, *)
(*   served      what the broker delivers in the current session.          *)
(* The last two are kept in MqttSubscriptions.                             *)
(*                                                                         *)
(* A task is one execution of subscribeToAllMachines() or of a public      *)
(* method.  Only the boot runs one in the application as wired (Tasks =    *)
(* {}); the three public methods have no caller yet.  Between two awaits   *)
(* on something outside the process a task is a chain of microtasks, which *)
(* Node.js drains before any other callback: "next" is that state.         *)
(***************************************************************************)
EXTENDS MqttSubscriptions

CONSTANTS Machines,   \* rows of the table machine; Topics are the values of mqttSource
          None,       \* no topic, no schema, no machine, no entry
          Tasks       \* calls of the public methods (a bound)

ASSUME NoneAssumption == None \notin Machines \cup Topics
ASSUME TasksAssumption == "boot" \notin Tasks

VARIABLES
  topicOf,     \* topicOf[m]: the topic to subscribe for m, None if m is skipped
  registry,    \* registry[t]: the machine whose schema is registered for t
  entry,       \* entry[t]: the TopicSubscription the dispatcher keeps for t
  subscribed,  \* keys of MqttClientService.subscriptions
  task         \* task[k]: where task k stands

hubVars == <<topicOf, registry, entry, subscribed, brokerVars, task>>
allVars == <<vars, hubVars>>

AllTasks == Tasks \cup {"boot"}

Entries == [machine : Machines, subscribed : BOOLEAN]

(* rows: what find() returned and is still to be handled; machine, topic   *)
(* and on: what an awaited acknowledgement is about, and on which client.  *)
TaskStates ==
  [pc : {"idle", "finding", "next", "subscribing", "unsubscribing", "done"},
   rows : SUBSET (Machines \X (Topics \cup {None})),
   machine : Machines \cup {None},
   topic : Topics \cup {None},
   on : Clients \cup {NoClient}]

Idle == [pc |-> "idle", rows |-> {}, machine |-> None, topic |-> None, on |-> NoClient]

(* A request in flight is about a topic of a machine, on some client.      *)
InFlight == {"subscribing", "unsubscribing"}

RequestsTyped ==
  \A k \in AllTasks :
    task[k].pc \in InFlight =>
      task[k].topic \in Topics /\ task[k].machine \in Machines /\ task[k].on \in Clients

HubTypeOK ==
  /\ topicOf \in [Machines -> Topics \cup {None}]
  /\ registry \in [Topics -> Machines \cup {None}]
  /\ entry \in [Topics -> Entries \cup {None}]
  /\ subscribed \subseteq Topics
  /\ BrokerTypeOK
  /\ task \in [AllTasks -> TaskStates]
  /\ RequestsTyped

HubInit ==
  /\ Init
  /\ topicOf \in [Machines -> Topics \cup {None}]
  /\ registry = [t \in Topics |-> None]
  /\ entry = [t \in Topics |-> None]
  /\ subscribed = {}
  /\ BrokerInit
  /\ task = [k \in AllTasks |-> Idle]

Microtasks == \E k \in AllTasks : task[k].pc = "next"

Booted == task["boot"].pc = "done"

(* Task k goes on at pc with the rows it has left.                         *)
After(k, pc) == [Idle EXCEPT !.pc = pc, !.rows = task[k].rows]

-----------------------------------------------------------------------------
(* subscribeToMachine(), for a row <<machine, topic>> of task k, up to its *)
(* await.  The four ways it can go are disjoint.                           *)

Recorded(m, ok) == [machine |-> m, subscribed |-> ok]

RowHandled(k, row) == task' = [task EXCEPT ![k].rows = @ \ {row}]

(* A machine without a topic or a known schema is skipped.                 *)
Skipped(k, row) ==
  /\ row[2] = None
  /\ RowHandled(k, row)
  /\ UNCHANGED <<registry, entry, subscribed, wanted>>

Registers_Forgotten(row) == row[2] # None /\ UNCHANGED registry

Registers_Unguarded(row) == registry' = [registry EXCEPT ![row[2]] = row[1]]

Registers_FirstWins(row) ==
  /\ row[2] # None
  /\ registry' = [registry EXCEPT ![row[2]] = IF @ = None THEN row[1] ELSE @]

(* The schema is registered first.                                         *)
Registers(row) ==
  /\ row[2] # None
  /\ registry' = [registry EXCEPT ![row[2]] = row[1]]

SubscribeFails_Retried(k, row) ==
  /\ ~Reachable
  /\ Registers(row)
  /\ entry' = [entry EXCEPT ![row[2]] = Recorded(row[1], FALSE)]
  /\ UNCHANGED <<task, subscribed, wanted>>

SubscribeFails(k, row) ==
  /\ ~Reachable
  /\ Registers(row)
  /\ entry' = [entry EXCEPT ![row[2]] = Recorded(row[1], FALSE)]
  /\ RowHandled(k, row)
  /\ UNCHANGED <<subscribed, wanted>>

(* mqtt.js answers at once for a topic it already restores.                *)
AlreadyWanted(k, row) ==
  /\ Reachable /\ row[2] \in wanted[client]
  /\ Registers(row)
  /\ entry' = [entry EXCEPT ![row[2]] = Recorded(row[1], TRUE)]
  /\ subscribed' = subscribed \cup {row[2]}
  /\ RowHandled(k, row)
  /\ UNCHANGED wanted

(* A SUBSCRIBE is sent.  mqtt.js will restore the topic from now on.       *)
SubscribeSent(k, row) ==
  /\ Reachable /\ row[2] \notin wanted[client]
  /\ Registers(row)
  /\ wanted' = [wanted EXCEPT ![client] = @ \cup {row[2]}]
  /\ task' = [task EXCEPT ![k] = [pc |-> "subscribing", rows |-> @.rows \ {row},
                                  machine |-> row[1], topic |-> row[2], on |-> client]]
  /\ UNCHANGED <<entry, subscribed>>

NextMachine(k) ==
  /\ task[k].pc = "next"
  /\ \E row \in task[k].rows :
       Skipped(k, row) \/ SubscribeFails(k, row) \/ AlreadyWanted(k, row) \/ SubscribeSent(k, row)
  /\ UNCHANGED <<vars, topicOf, restoring, served, lapsed>>

(* The loop of subscribeToAllMachines() ends; for the boot this is the end *)
(* of onModuleInit() of the dispatcher.                                    *)
LoopEnds(k) ==
  /\ task[k].pc = "next" /\ task[k].rows = {}
  /\ task' = [task EXCEPT ![k] = After(k, "done")]
  /\ UNCHANGED <<vars, topicOf, registry, entry, subscribed, brokerVars>>

-----------------------------------------------------------------------------
(* Acknowledgements, on the connection the request was sent on.            *)

Awaits(k, pc) == task[k].pc = pc /\ Answers(task[k].on)

(* The broker grants the subscription.                                     *)
SubAcked(k) ==
  /\ Awaits(k, "subscribing")
  /\ subscribed' = subscribed \cup {task[k].topic}
  /\ entry' = [entry EXCEPT ![task[k].topic] = Recorded(task[k].machine, TRUE)]
  /\ Granting(task[k].on, task[k].topic)
  /\ task' = [task EXCEPT ![k] = After(k, "next")]
  /\ UNCHANGED <<vars, topicOf, registry, wanted, restoring>>

(* The broker refuses it: mqtt.js forgets the topic.                       *)
SubRefused_RecordedAnyway(k) ==
  /\ Awaits(k, "subscribing")
  /\ wanted' = [wanted EXCEPT ![task[k].on] = @ \ {task[k].topic}]
  /\ entry' = [entry EXCEPT ![task[k].topic] = Recorded(task[k].machine, TRUE)]
  /\ task' = [task EXCEPT ![k] = After(k, "next")]
  /\ UNCHANGED <<vars, topicOf, registry, subscribed, restoring, served, lapsed>>

SubRefused(k) ==
  /\ Awaits(k, "subscribing")
  /\ wanted' = [wanted EXCEPT ![task[k].on] = @ \ {task[k].topic}]
  /\ entry' = [entry EXCEPT ![task[k].topic] = Recorded(task[k].machine, FALSE)]
  /\ task' = [task EXCEPT ![k] = After(k, "next")]
  /\ UNCHANGED <<vars, topicOf, registry, subscribed, restoring, served, lapsed>>

UnsubAcked_RecordKept(k) ==
  /\ Awaits(k, "unsubscribing")
  /\ subscribed' = subscribed \ {task[k].topic}
  /\ served' = IF session = task[k].on THEN served \ {task[k].topic} ELSE served
  /\ registry' = [registry EXCEPT ![task[k].topic] = None]
  /\ task' = [task EXCEPT ![k] = After(k, "done")]
  /\ UNCHANGED <<vars, topicOf, entry, wanted, restoring, lapsed>>

UnsubAcked(k) ==
  /\ Awaits(k, "unsubscribing")
  /\ subscribed' = subscribed \ {task[k].topic}
  /\ served' = IF session = task[k].on THEN served \ {task[k].topic} ELSE served
  /\ entry' = [entry EXCEPT ![task[k].topic] = None]
  /\ registry' = [registry EXCEPT ![task[k].topic] = None]
  /\ task' = [task EXCEPT ![k] = After(k, "done")]
  /\ UNCHANGED <<vars, topicOf, wanted, restoring, lapsed>>

(* The connection of c closes: mqtt.js fails the requests it has in flight *)
(* there.  A subscription that fails is recorded, by the last of the       *)
(* failing tasks if several asked for the same topic; a failed             *)
(* unsubscribeFromMachine() throws.                                        *)
Failing(c) == {k \in AllTasks : task[k].pc \in InFlight /\ task[k].on = c}

FailRequests(c) ==
  /\ \E last \in [Topics -> AllTasks] :
       LET For(t) == {k \in Failing(c) : task[k].pc = "subscribing" /\ task[k].topic = t} IN
       /\ \A t \in Topics : For(t) # {} => last[t] \in For(t)
       /\ entry' = [t \in Topics |->
                      IF For(t) = {} THEN entry[t] ELSE Recorded(task[last[t]].machine, FALSE)]
  /\ task' = [k \in AllTasks |->
                IF k \notin Failing(c) THEN task[k]
                ELSE After(k, IF task[k].pc = "subscribing" THEN "next" ELSE "done")]

-----------------------------------------------------------------------------
(* The beginnings of the tasks.                                            *)

Finding(k) == task' = [task EXCEPT ![k].pc = "finding"]

(* onModuleInit() of the dispatcher: Nest initialises MqttModule before,   *)
(* and goes on whether or not a signal has come meanwhile.                 *)
BootStarts ==
  /\ Alive
  /\ boot = "returned"
  /\ task["boot"].pc = "idle"
  /\ Finding("boot")
  /\ UNCHANGED <<vars, topicOf, registry, entry, subscribed, brokerVars>>

(* A call is made between the end of the boot and the shutdown.            *)
Callable(k) == k # "boot" /\ task[k].pc = "idle" /\ Booted /\ phase = "up"

ResubscribeAll_SchemasCleared(k) ==
  /\ Callable(k)
  /\ entry' = [t \in Topics |-> None]
  /\ registry' = entry'
  /\ Finding(k)
  /\ UNCHANGED <<vars, topicOf, subscribed, brokerVars>>

ResubscribeAll(k) ==
  /\ Callable(k)
  /\ entry' = [t \in Topics |-> None]
  /\ Finding(k)
  /\ UNCHANGED <<vars, topicOf, registry, subscribed, brokerVars>>

SubscribeToMachineById(k) ==
  /\ Callable(k)
  /\ \E m \in Machines :
       task' = [task EXCEPT ![k].pc = "finding", ![k].machine = m]
  /\ UNCHANGED <<vars, topicOf, registry, entry, subscribed, brokerVars>>

(* The database answers: all the rows, deleted machines included, or the   *)
(* one that was asked for.                                                 *)
FindReturns(k) ==
  /\ Alive
  /\ task[k].pc = "finding"
  /\ LET asked == IF task[k].machine = None THEN Machines ELSE {task[k].machine} IN
       task' = [task EXCEPT ![k] = [Idle EXCEPT !.pc = "next",
                                                !.rows = {<<m, topicOf[m]>> : m \in asked}]]
  /\ UNCHANGED <<vars, topicOf, registry, entry, subscribed, brokerVars>>

(* Or it fails: the caller gets the error.  At the start it ends the       *)
(* process, since bootstrap() has no handler.                              *)
FindFails(k) ==
  /\ Alive
  /\ task[k].pc = "finding"
  /\ task' = [task EXCEPT ![k] = After(k, "done")]
  /\ phase' = IF k = "boot" THEN "stopped" ELSE phase
  /\ UNCHANGED <<clientVars, chainVars, boot, calls>>
  /\ UNCHANGED <<topicOf, registry, entry, subscribed, brokerVars>>

(* unsubscribeFromMachine() up to its await.                               *)
UnsubscribeFromMachine(k) ==
  /\ Callable(k)
  /\ \E m \in Machines :
       LET held == {t \in Topics : entry[t] # None /\ entry[t].machine = m} IN
       \/ /\ held = {} \/ ~Reachable
          /\ task' = [task EXCEPT ![k].pc = "done"]
          /\ UNCHANGED wanted
       \/ /\ Reachable
          /\ \E t \in held :
               /\ task' = [task EXCEPT ![k] = [Idle EXCEPT !.pc = "unsubscribing", !.machine = m,
                                                           !.topic = t, !.on = client]]
               /\ wanted' = [wanted EXCEPT ![client] = @ \ {t}]
  /\ UNCHANGED <<vars, topicOf, registry, entry, subscribed, restoring, served, lapsed>>

(* PUT /machines/:id changes the topic of a machine: nobody is told.       *)
UpdateMachine(m) ==
  /\ Tasks # {}
  /\ phase = "up" /\ Booted
  /\ \E t \in Topics \cup {None} : topicOf' = [topicOf EXCEPT ![m] = t]
  /\ UNCHANGED <<vars, registry, entry, subscribed, brokerVars, task>>

-----------------------------------------------------------------------------
(* The steps of MqttIngestor, with their effect on the subscriptions.      *)

HubAccepted(c) ==
  /\ Accepted(c)
  /\ SessionBegins(c)
  /\ UNCHANGED <<topicOf, registry, entry, subscribed, task>>

HubUp(c) ==
  \/ HubAccepted(c)
  \/ (Refused(c) \/ ClosedSilently(c)) /\ UNCHANGED hubVars

(* The broker answers the restoration: neither service is told.            *)
HubRestored(c) ==
  /\ RestoreAcked(c)
  /\ UNCHANGED <<topicOf, registry, entry, subscribed, task>>

HubBroken(c) ==
  /\ Lost(c) \/ Evicted(c)
  /\ SessionEnds(c)
  /\ FailRequests(c)
  /\ UNCHANGED <<topicOf, registry, subscribed>>

(* What mqtt.js has in flight on c: end() waits for its acknowledgements.  *)
Owed(c) == Failing(c) # {} \/ restoring[c] # {}

HubEnded(c) ==
  /\ ~Owed(c)
  /\ EndDone(c)
  /\ SessionEnds(c)
  /\ subscribed' = {}
  /\ UNCHANGED <<topicOf, registry, entry, task>>

HubSevered(c) ==
  /\ Owed(c)
  /\ Severed(c)
  /\ SessionEnds(c)
  /\ FailRequests(c)
  /\ UNCHANGED <<topicOf, registry, subscribed>>

(* A signal may find the boot loop between any two of its requests.        *)
HubDisconnects ==
  /\ OnModuleDestroy \/ OnApplicationShutdown
  /\ subscribed' = IF client # NoClient /\ client' = NoClient THEN {} ELSE subscribed
  /\ UNCHANGED <<topicOf, registry, entry, brokerVars, task>>

HubStarts == OnModuleInit /\ UNCHANGED hubVars

HubRetries == ReconnectTimer /\ UNCHANGED hubVars

HubDialled(c) == Dialled(c) /\ UNCHANGED hubVars

AckArrives(k) == SubAcked(k) \/ SubRefused(k) \/ UnsubAcked(k)

Microtask == \E k \in AllTasks : NextMachine(k) \/ LoopEnds(k)

Macrotask ==
  \/ HubStarts
  \/ HubRetries
  \/ HubDisconnects
  \/ BootStarts
  \/ \E c \in Clients :
       \/ HubUp(c)
       \/ HubDialled(c)
       \/ HubRestored(c)
       \/ HubBroken(c)
       \/ HubEnded(c)
       \/ HubSevered(c)
  \/ \E k \in AllTasks :
       \/ AckArrives(k)
       \/ ResubscribeAll(k)
       \/ SubscribeToMachineById(k)
       \/ UnsubscribeFromMachine(k)
       \/ FindReturns(k)
       \/ FindFails(k)
  \/ \E m \in Machines : UpdateMachine(m)

HubNext == IF Microtasks THEN Microtask ELSE Macrotask

HubSpec == HubInit /\ [][HubNext]_allVars

-----------------------------------------------------------------------------
(* Fairness: that of MqttIngestor, that Node.js runs what it has queued,   *)
(* that the database answers, and that a broker whose connection holds     *)
(* answers a request, the restoration included.  Nothing is assumed of     *)
(* faults nor of the calls.                                                *)

WhenIdle(A) == ~Microtasks /\ A

HubFairness ==
  /\ WF_allVars(Microtask)
  /\ WF_allVars(WhenIdle(HubStarts))
  /\ WF_allVars(WhenIdle(HubRetries))
  /\ WF_allVars(WhenIdle(BootStarts))
  /\ \A c \in Clients :
       /\ WF_allVars(WhenIdle(HubUp(c)))
       /\ WF_allVars(WhenIdle(HubDialled(c)))
       /\ WF_allVars(WhenIdle(HubBroken(c) /\ Evicted(c)))
       /\ WF_allVars(WhenIdle(HubEnded(c)))
       /\ WF_allVars(WhenIdle(HubRestored(c)))
       /\ SF_allVars(WhenIdle(HubUp(c) /\ (Accepted(c) \/ Refused(c))))
  /\ \A k \in AllTasks :
       /\ WF_allVars(WhenIdle(FindReturns(k) \/ FindFails(k)))
       /\ WF_allVars(WhenIdle(AckArrives(k)))

HubFairSpec == HubSpec /\ HubFairness

-----------------------------------------------------------------------------
(* Safety.                                                                 *)

RecordedTopics == {t \in Topics : entry[t] # None /\ entry[t].subscribed}

Requested(pc) == {task[k].topic : k \in {j \in AllTasks : task[j].pc = pc}}

(* As wired, nothing the broker delivers goes through unvalidated:         *)
(* validate() lets a message of a topic without a schema pass as it is.    *)
ValidatedDelivery == \A t \in served : registry[t] # None

(* The same with a call of the public methods, as long as the process has  *)
(* had one client.                                                         *)
ValidatedBySingleClient == Cardinality(Used) =< 1 => ValidatedDelivery

(* Without overlapping calls, the record of a topic and the schema its     *)
(* messages are validated with are of the same machine, although several   *)
(* machines may have the same topic and the last one takes both over.      *)
SchemaOfTheRecord ==
  \A t \in Topics \ Requested("subscribing") :
    entry[t] # None => registry[t] = entry[t].machine

(* What makes the two inductive, as wired: nothing is unsubscribed, the    *)
(* schema is registered before the request is sent, and every topic mqtt.js *)
(* may subscribe again, or has asked for again, has one.                   *)
RequestsCovered ==
  \A k \in AllTasks :
    /\ task[k].pc # "unsubscribing"
    /\ task[k].pc = "subscribing" => registry[task[k].topic] = task[k].machine

WantedCovered ==
  \A c \in Clients : \A t \in wanted[c] \cup restoring[c] : registry[t] # None

DeliveryInv == RequestsCovered /\ WantedCovered /\ ValidatedDelivery /\ SchemaOfTheRecord

(* Until the shutdown, every topic the dispatcher recorded as subscribed is *)
(* counted in the statistics of the connection.                            *)
RecordedIsCounted == phase = "up" => RecordedTopics \subseteq subscribed

(* As long as the process has had one client, every topic recorded as      *)
(* subscribed is delivered whenever the connection is up, or mqtt.js is    *)
(* about to restore it, or the broker has refused a restoration that named *)
(* it: the record is wrong for no other reason.                            *)
RestoredBySingleClient ==
  Cardinality(Used) =< 1 /\ session # NoClient =>
    RecordedTopics \subseteq served \cup restoring[session] \cup lapsed

-----------------------------------------------------------------------------
(* Liveness.                                                               *)

(* The dispatcher never keeps the start waiting: whatever happens to the   *)
(* connection, its onModuleInit() ends, or the process has; a shutdown     *)
(* that takes the connection away in the middle of the loop included.      *)
DispatcherBoots == boot = "returned" ~> Booted \/ ~Alive

-----------------------------------------------------------------------------
(* What the documents say and the code does not do.                        *)

(* The comment of the class: it subscribes to the topics of the machines   *)
(* when the application starts and registers their schemas.  Here the      *)
(* broker comes up only after the start, and stays.                        *)
MachinesSubscribed ==
  /\ [](~Booted => session = NoClient)
  /\ <>[][~NetworkFault]_allVars
  /\ StaysConnectedStatus
  => <>[](\A m \in Machines : topicOf[m] # None => topicOf[m] \in served)
=============================================================================
