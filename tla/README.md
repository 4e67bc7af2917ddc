# Verification of opc-cnc-hub

TLA+ modules, TLC configurations and TLAPS proofs for the NestJS service in
`src/`: it subscribes to the MQTT topics of CNC machines, validates what they
publish, keeps the machines in PostgreSQL and runs an OPC UA server.

Contents: [parts of the system](#1-the-system) ·
[modules](#2-the-modules-and-the-code) · [runs](#3-what-the-runs-check) ·
[bounds](#4-bounds) · [fairness](#5-fairness) · [proofs](#6-what-is-proved) ·
[disagreements](#7-where-the-code-and-the-documents-disagree) ·
[not modelled](#8-what-is-not-modelled) · [plan](#9-plan)

Everything is run inside this directory:

    tlc -workers 2 -config IngestorAsWired.cfg MqttIngestorMC
    tlapm MqttIngestorProofs.tla

`PROJECT.json` lists the components, the runs, which lines of the code each
definition stands for, the hazards and the theorems. Paths there begin with
`src/src/` because the program's own code is in `src/` of the repository.

## 1. The system

The service is one Node.js process: code between two `await`s runs without
interruption, and everything hard lies in what may happen at an `await`, in a
timer or in a callback of a library.

| Part | State | Operations | Talks to |
|---|---|---|---|
| `MqttClientService` | the current mqtt.js client, the callbacks for messages, the confirmed subscriptions, two counters | connect, disconnect, subscribe, unsubscribe, onMessage, statistics | mqtt.js, broker |
| `MqttIngestorService` | connection status, number of the attempt, timer, the subject of events | connect, disconnect, reconnection chain, life-cycle hooks, streams | `MqttClientService`, `CanonicalEventFactory` |
| `ExponentialBackoffReconnectionStrategy` | – | shouldReconnect, getDelay | – |
| `CanonicalEventFactory` | – | createFromMqtt | the registry |
| `MessageSchemaRegistryService` | topic → schema | register, unregister, get, validate, … | – |
| `MqttDispatcherService` | topic → who is subscribed | onModuleInit, resubscribeAll, subscribeToMachineById, unsubscribeFromMachine | the four above, `MachinesService` |
| `MachinesService` and controllers | three tables | create, update, remove, restore, find | PostgreSQL through TypeORM |
| `OpcServerService`, `OpcServerModule` | server, address space, flag, promise of the start | startServer, stopServer, registerType | node-opcua |
| `CncDeviceService` | – | registers its type | `OpcServerService` |
| `ConfigService` | the configuration | constructor | file, environment |
| `IngestionController` (its module is not imported by `AppModule`) | a second registry | connect, disconnect, subscribe, unsubscribe, reading endpoints | the MQTT services |
| `ApiIngestorService` (same module) | – | ingest, ingestBatch | – |

How they interact: `MqttIngestorService.onModuleInit` connects and, whatever
comes of it, installs the message callback. Afterwards `MqttDispatcherService.onModuleInit` reads
the machines and subscribes one by one through the same connection. Messages
go from mqtt.js through the callback and the factory into the subject.
mqtt.js reconnects by itself, and beside it the ingestor runs a chain of its
own; both create connections under one client identifier. Shutdown hooks
disconnect twice (`onModuleDestroy`, `onApplicationShutdown`); `main.ts`
enables them before the modules are initialised, so that they may run beside a
boot that still awaits something. Between the two, Nest closes the HTTP server,
which waits for the requests in flight.

What is hard, and the property of each part that makes it correct:

* **Connection and chain.** Two mechanisms reconnect, promises settle at most
  once, `end()` answers later, timers are overwritten. Correct: one chain, a
  bounded number of clients, no lost continuation, a status that is never a dead
  end, a start and a shutdown that end.
* **Dispatcher.** Five places remember that a topic is subscribed (the
  dispatcher, the registry, the statistics, mqtt.js, the broker); the connection fails
  between any two of them, and the broker may refuse what mqtt.js asks for again.
  Correct: what is delivered is validated, and what is recorded is counted, and
  restored unless the broker refuses.
* **Message path.** Messages are on the way while topics lose their schema,
  clients replace one another and the stream completes. Correct: one event per
  arrival, in the order of its connection, validated with the schema it is marked
  with, of a topic that matches; and a closed list of ways to pass unvalidated.
* **Tables.** Every update is a read and a later write. Correct: apart from writes of
  stale rows, requests are atomic; rows and references persist.
* **OPC UA server.** Start, stop and registrations of several components wait
  for one promise. Correct: one server, a flag that does not outlive it, no type in a
  server that has not started, no forgotten call.
* **Endpoints.** Requests to subscribe and to unsubscribe overlap with each other, with
  losses and with `disconnect()`. Correct: the list of subscriptions tells the
  truth but for named reasons, every message of a batch is accounted for, and a shutdown
  does not wait for ever for a request it has itself made impossible.
* **Configuration.** Names of variables become paths of keys. Correct: a variable
  that is set overrides the file.

## 2. The modules and the code

| Module | Extends | Stands for |
|---|---|---|
| `MqttClient` | | `mqtt-client.service.ts` and the mqtt.js clients behind it: the field `client`, and for each client ever created its state (`conn`), who awaits its `connect()` (`awaited`) or `end()` (`closer`); the broker's `session` for the shared client identifier |
| `MqttIngestor` | `MqttClient` | `mqtt-ingestor.service.ts`, the strategy, the life cycle, the two connection endpoints |
| `ReconnectContract` | | abstract: what the ingestor promises of its connection, without clients, timers and promises |
| `MqttSubscriptions` | `MqttIngestor` | what mqtt.js and the broker know of subscriptions, for the next two: `wanted` (what mqtt.js asks for again), `restoring` (the SUBSCRIBE in which it does), `served` (the broker's session) |
| `ApiIngestor` | | `api-ingestor.service.ts`: what a request is answered |
| `IngestionController` | `MqttSubscriptions`, `ApiIngestor` | `ingestion.controller.ts`: subscribe and unsubscribe down to the client's map, mqtt.js and the broker, over connect and disconnect |
| `MqttDispatcher` | `MqttSubscriptions` | `mqtt-dispatcher.service.ts`, the registry's keys, subscribe and unsubscribe of the client |
| `TopicFilters` | | filters: the broker's matching and the regular expression of `getMessageStreamByTopic()` |
| `EventStream` | `TopicFilters` | the message handler, the factory, the registry's validation, the subject and its listeners |
| `MachineStore` | | abstract: what the REST interface promises of a table of rows |
| `MachinesService` | `MachineStore` | `machines.service.ts`: find, then save or softRemove |
| `OpcServer` | | `opc-server.service.ts`, its module's hooks, the constructor of `CncDeviceService` |
| `ConfigService` | | `config.service.ts` |

`…MC` modules supply values and symmetry for TLC, `…Proofs` modules hold the
theorems. A definition `X_Something` just before `X` is a plausible bug in the
code of `X`; no specification uses it. Putting it in the place of `X` must
break the property that `PROJECT.json` names for it.

**State and actions of `MqttIngestor`.** The variables are the service's
fields: `status`, `attempt`, `timerArmed` (`reconnectionTimer` holds a timer
that has yet to fire); `strays` counts armed timers whose handle was
overwritten, which no field shows. Each action is the code from one `await` to
the next: `ReconnectTimer` is the callback of `setTimeout` up to its
`await connect()`; `Accepted`, `Refused` and `EndDone` are the callbacks of
mqtt.js *together with* the continuation that waited for them; `ClosedSilently`
is a close without an error, which settles nothing. Two variables follow NestJS:
`boot` (`pending → awaiting → returned`) is `onModuleInit()`, and `phase`
(`up → destroying → destroyed → stopping → stopped`) the shutdown, which a
signal may begin at any moment; the process is killed after the last hook.
Delays do not exist: an armed timer may fire at any time, so every order of
timers and answers is covered. `WiredSpec` is the application as `AppModule`
wires it (so is `Spec` with `ControllerCalls = 0`); `Spec` adds `POST /connect`
and `POST /disconnect`.

**The contract.** `ReconnectContract` has six actions over a mode (`idle`,
`trying`, `backoff`, `up`, `gaveUp`, `off`) and a count. `Mode` and
`RetriesMade` at the end of `MqttIngestor` are the refinement mapping: an armed
timer is `backoff`, an awaited attempt `trying`, otherwise the status decides.
`disconnect()` does not end an attempt that is awaited, hence that attempt goes
on being `trying` during the shutdown. A stale `CONNECTED` over a lost
connection is `up`: the contract is about what the service does, and the
service does nothing about it.

**mqtt.js and the broker.** They are not in the repository; they are modelled
from how the code uses them and, where that does not decide, from what mqtt.js 5 is known to
do (`package.json` asks for `mqtt ^5.15.0`; its source is not in the repository to compare
with) and from MQTT 3.1.1. Three of their rules matter. *Restoration:* `mqtt.clean` is true in `config/local.yml`,
so the broker forgets every subscription with the connection; in the `connect`
event of a reconnection mqtt.js sends one SUBSCRIBE with all it wants
(`SessionBegins`), whose acknowledgement comes later and which no code of the
service waits for (`RestoreGranted`). If the broker refuses any of the topics, mqtt.js forgets all
of them (`RestoreRefused`); `lapsed` is a history variable with the topics lost that way.
*End:* `end(false)` closes the connection when the last acknowledgement it is owed
has arrived (`HubEnded`, `TopicsEnded`: `~Owed`). If the connection breaks before,
the requests fail but the callback never runs, and a client that is being ended does
not dial again (`Sever`, state `severed`); with nothing owed, a break completes the end.
*Order:* the broker acknowledges in the order of the requests, restoration first (`Answers`).

**Endpoints.** A call of subscribe or unsubscribe (`request`) knows its topic, the client it
was sent on, and which requests were `ahead` of it there, since a broker
acknowledges in order. `listed` is the map of `MqttClientService`. A
subscription of a topic that is already wanted may be answered at once, as
mqtt.js does unless the QoS rises. `OnApplicationShutdown` waits for the requests in
flight. `ApiIngestor` is purely functional: `IngestBatch` is a recursive function
over the messages, of which only four kinds behave differently.

**Dispatcher.** A task is one execution of `subscribeToAllMachines()` or of a
public method; its `pc` says what it awaits. Between two external awaits it is
a chain of microtasks that Node.js drains first, hence `HubNext == IF
Microtasks THEN Microtask ELSE Macrotask`. `Tasks = {}` is the application as
wired: only the boot runs one. The actions of `MqttIngestor` are conjoined
with what they do to subscriptions (`HubUp`, `HubBroken`, `HubEnded`, …); a
broken connection fails the requests in flight. The calls of the public methods
begin between the end of the boot and the shutdown (`Callable`). A machine is skipped
if it has no topic or no known schema, so `topicOf` has one value for both. Acknowledgements and rows may be taken in
any order, but for the restoration, which comes first.

**Message path.** `EventStream` takes subscribing as one step, since
`MqttDispatcher` models how it can fail, and instead follows single messages.
`client`, `used` and `up` are the clients: one that was replaced may still be connected
or connect again, and hands what it receives to the same callbacks; all have one
clientId, so only the last to connect holds the broker's `session`. `sent` is what the
broker sent and on which connection, `handled` what has arrived or was lost: a connection
keeps the order of its messages, and since the session is a clean one a break loses
what is on the way, QoS 1 or not. The dispatcher subscribes with QoS 1, hence the
broker may go on with messages it has buffered after the UNSUBACK, when the schema is
already gone: `draining` holds such filters, and a message sent for them alone is `late`.
What was sent before the UNSUBACK arrives before it.
A payload is abstracted to whether it is JSON and which schemas it fits. Overlapping
subscriptions may make a broker send a message more than once; each copy is a
message of its own. `TopicFilters` has the rule that a wildcard at the first level does not match
topics that begin with `$`; the topics machines publish on do not.

**Tables.** In `MachinesService` a request is idle or holds the entity it has
read and the body of its PATCH. TypeORM's `save()` reads the row again and
writes every column in which the entity differs, `deletedAt` included: the step
`Save` puts the whole entity back. Two tables stand for three (`MessageSchema` and
`MachineType` have the same code), a description for all plain columns, one
reference for both. The library and the database are modelled from how the code uses
them; that `save()` reads and writes in one step is an assumption.

**OPC UA server.** `engine` is what node-opcua is really doing, the rest are
the service's fields. The two wired callers are the module's hooks and
`CncDeviceService`; `Others` are further components that may use the global
service, each with one call at a time. A type is registered as a whole. After
its own hook (`phase = "closed"`) the process lives on until Nest has called the
hooks of all modules, and a start that was under way may still complete.

**Configuration.** A word of a key or of a name carries how it is written
(`lower`, `camel`, `upper`, `odd` as in `oPC`), which is all that the
conversions change and the schema tells apart.

## 3. What the runs check

Passing runs (distinct states in brackets):

* **`ingestor_as_wired`** (10,011) – a signal at any moment, the boot included.
  `ImplementsContract`: refinement of `ReconnectContract`.
  `SingleRetryChain`: never two attempts, never a timer beside an attempt.
  `ClientBudget`, `FailedMeansExhausted`: at most `RetryAttempts + 1` clients,
  and FAILED means exactly that many. `ConnectedIsOwned`: CONNECTED refers to a
  client the service holds. `FailedIsFinal`; `WiringInv`, the invariant of the
  proofs. Liveness: `ChainEnds` (the contract's `Settles`), `BootCompletes`,
  `ShutdownCompletes` (but for an `end()` severed under a request), `SingleClientRecovers`
  (a first client that was never replaced comes back after every loss). There are no
  endpoints in this run.
* **`controller`** (254,204) – two calls of connect or disconnect and two of
  subscribe or unsubscribe anywhere: `NoStrandedAwait` (a pending `connect()`
  belongs to a client that mqtt.js still works for, an awaited `end()` runs or was severed),
  `ReconnectingIsDriven` (RECONNECTING is a dead end only behind a severed `end()`), `FieldNotEnded`,
  `ListedIsServed` (a listed topic of a process with one client is delivered, or about to
  be restored, or its restoration was refused, or a request about it is under way or
  failed), `BatchAccounts` (evaluated over every batch up to `MaxBatch`),
  `ShutdownServesAll`: once begun the shutdown is completed, or an awaited `end()` was severed.
* **`dispatcher_as_wired`** (488,977) – `ValidatedDelivery`: every delivered
  topic has a schema. `DeliveryInv` adds that it is the one of the machine on
  record, also when machines share a topic. `RestoredBySingleClient`: one client
  serves every recorded topic after each loss, or is about to, unless the broker refused to
  restore it. `DispatcherBoots`: the start never hangs in it.
* **`dispatcher_with_call`** (917,138) – the same with one call of a public
  method between the boot and the shutdown and topics that change in the database:
  `ValidatedBySingleClient`, `SchemaOfTheRecord`, `RecordedIsCounted`.
* **`event_stream`** (2,834,348, clients symmetric) – two clients that may replace each
  other: `OncePerArrival` (no event twice, and the order of each client's messages),
  `EventsAreSound`, `ConcreteTopicsValidated` (an event that was not validated came by a
  wildcard, or late, or over a client that was replaced).
* **`machines_requests`** (86,899) – `RefsExist`, `ReadRowsStay`, and
  `StepsOfTheStore`: every step but a `save()` of a row that changed since it was
  read is a step of `MachineStore`. This is refinement with its one exception
  named: stale saves do lose updates and do undo removals, and nothing else does.
* **`opc_callers`** (2,895) – `SingleServer`, `RunningHasServer`,
  `RegisteredWhileUp`, and `CallsReturn`.

The runs check one type invariant each where a mutant of the code can break it; those of the
ingestor and the controller are theorems only.

Runs that end in a counterexample, each against a statement of the repository:

* **`session_thrash`** – a client left from a failed attempt and the one in use
  evict each other for ever, on a network without faults.
* **`late_broker`** – the broker comes up after the start and no topic is ever
  subscribed: nobody repeats a failed subscription.
* **`opc_cnc_type`** – the constructor of `CncDeviceService` registers before
  there is a start to wait for, fails, and never tries again.
* **`wildcard_validation`** – the schema is looked up under the exact topic, so
  messages of a wildcard subscription pass unvalidated.
* **`env_override`** – `OPC_PORT` is written to `oPC.port`, which the schema strips.

Deadlock is not checked in the runs whose system may stop: the process of
`MqttIngestor`, `MqttDispatcher` and `OpcServer` ends with the shutdown, and
`ConfigService` with the constructor.

## 4. Bounds

| Bound | Value | Why it is enough |
|---|---|---|
| `Clients` | 4 with two retries | as wired at most `RetryAttempts + 1` can be created (proved), so the bound is never reached |
| `RetryAttempts` | 2, or 1 | first, middle and last attempt differ |
| `ControllerCalls` | 2 | a connect or disconnect on each side of another, around one timer; proved for any number |
| `Clients` of `controller` | 2, one retry | a client beside the one that replaced it; a run that would need a third is cut off |
| `Topics`, `Requests` of `controller` | 1, 2 | the two calls that can disturb each other are those of one topic; proved for any number |
| `MaxBatch` | 4 | every order of the four kinds of message, and repetitions |
| `Machines`, `Topics` | 3 and 2 | two machines with one topic beside another; `None` for a skipped one |
| `Tasks` | {} or one | as wired none; overlapping calls have a hazard entry of their own |
| `Others` | 2 | two foreign callers beside the two wired ones |
| `MaxMessages` | 2 | an order, and a message on each side of every change; proved for any number |
| `Clients` of `event_stream` | 2 | a client beside the one that replaced it |
| `MCTopics`, `MCSources`, `MCPatterns` | 2, 2, 3 | a topic that is subscribed by name and one under `+`; patterns with `+`, with `#` and without |
| `Requests` | 2 on one machine and one schema | every overlap of two read-write pairs |
| `Texts` | 2 | an update that is lost differs from the one that stays |

`handlers`, `attempt` as wired and `created` need no bound: the program keeps
them small, and the runs check it.

## 5. Fairness

Weak fairness is assumed of what libraries and runtime do by themselves:
attempts end (mqtt.js gives up after `connectTimeout`), timers fire, an
eviction and an `end()` complete, NestJS calls its hooks, Node.js runs its
microtasks, the database answers, a broker whose connection holds answers a
request, the restoration included, operations of node-opcua end, possibly in failure. One strong
fairness, `Answered`: a client that dials again and again is answered some
time, by a CONNACK or an error. `BootCompletes`, `ChainEnds` and
`DispatcherBoots` need it: a broker that closes every connection before CONNACK without a
socket error would hold `onModuleInit` for ever. Nothing is assumed of faults, of the
endpoints or of the public methods, nor that a shutdown begins. In
`controller` the broker acknowledges every request and restoration whose connection holds;
that is what `ShutdownServesAll` needs, together with mqtt.js failing the
requests of a connection that is gone. A connection may break at any time, that of an
`end()` included: fairness does not bring the severed one back. `session_thrash` and `late_broker` fail *under* this fairness.

## 6. What is proved

tlapm checks every theorem for all values of the constants (all sets of
clients, machines, topics, requests, any number of retries, batches and streams of
any length). Hypotheses beyond the assumptions of the modules are those of the
application as wired (`ControllerCalls = 0`, `Tasks = {}`, `Others = {}`), that calls
of the public methods do not overlap (`OneCallAtATime`: any number of them, one after the
other), that requests do not overlap on a row (`OneRequestPerRow`), and that machines are
finitely many where they are counted.
Every safety property of a passing run is stated by a theorem; section 3 shows
it on small instances, the theorem for all.

**`MqttIngestorProofs`.** For any number of endpoint calls `TypeCorrect`,
`NoAwaitIsStranded`, `FieldNeverEnded`, `ReconnectingAlwaysDriven` and
`WaitsAlwaysDriven`: the boot waits only for a promise that is pending on a client
mqtt.js still works for, the shutdown hooks for an `end()` that runs or was severed. For `ControllerCalls = 0`
`OneRetryChain`, `RetryBudget`, `FailedOnlyWhenExhausted`, `ConnectedAlwaysOwned`,
`WiringHolds`, `GivingUpIsFinal`. Lemma `ClientStep` sums up what any step does to
the clients, so that each of the larger invariants has one case per *kind* of
step. The inductive invariant is `WiringInv`: `ChainCount` ties `attempt` to the
number of clients while the chain runs (no bound on clients is inductive without
it), `ChainShape` says the chain is over in FAILED, `LifeCycle` that an awaited
client is the one held until the shutdown, `WaitsAreDriven` who the boot and the
hooks wait for. `ChainImplementsContract` is the refinement: initial states map
to `ContractInit` and every step to a step of the contract or a stutter. It needs
one more fact, `StatusWaits` (neither CONNECTED nor FAILED is reported while a
timer or an attempt is pending), since the mapping reads the status only when
the chain is idle. `ChainIsBounded` adds a variant, at most
`2 * RetryAttempts + 3`, that falls with every step the contract can see.

**`MqttDispatcherProofs`.** For any set of calls, overlapping or not:
`HubTypeCorrect`; `RecordedAlwaysCounted` (the statistics are cleared by
`disconnect()` and by callbacks of `end()` only, and `NothingEnds` before the
shutdown); `RequestsAlwaysAnswerable` (whoever takes a connection down fails its
requests in the same step); `EveryTaskEnds`, by a variant that counts the
machines a task has left; and, for `ControllerCalls = 0`,
`DispatcherKeepsTheChain` and `DispatcherImplementsContract`. The last two are not
corollaries of `MqttIngestorProofs`: when the dispatcher's hook throws, the start fails
and the process ends, at a moment `MqttIngestor` has no such step for. `ChainInv`
gathers the invariants of the ingestor, those of its life cycle only while the process
lives; every other step of the dispatcher is one of the ingestor or a stutter. For `Tasks = {}` `DeliveryHolds`, `DeliveryIsValidated`,
`SingleClientRestores`, and `MissedForGood`, which says of every behaviour what
`late_broker` shows on one. `ValidatedDelivery` alone is not inductive: the broker
may restore what mqtt.js wants and acknowledge what is in flight, hence
`WantedCovered` and `RequestsCovered` in `DeliveryInv`. `RestoreInv` adds that every
request is for a topic mqtt.js wants and its restoration in flight does not name
(`RequestsWanted`), and that what is wanted is delivered or being asked for
(`SessionServed`): without it a second machine with the same topic could be recorded
before the first one is acknowledged. A record may be wrong for one reason, which the
theorem names: a refused restoration (`lapsed`). `MissedForGood` needs the converse,
that nothing is delivered or asked for again that mqtt.js does not want.

**`MqttDispatcherCallProofs`.** For any number of calls of the public methods between
the boot and the shutdown, none of which begins before the one before it has returned
(`OneCallAtATime`), and with topics that change in the database:
`SchemaFollowsRecord`, `CallsStayValidated`. `CallInv`: at most one task is active
(`OneActive`), and the schema of a request is that of its machine. `SoleInv`:
mqtt.js restores only topics with a schema, and a topic whose UNSUBSCRIBE is
unanswered is no longer restored (`LeavingUnwanted`), so its schema may go when
the answer comes. With overlapping calls the first one fails, see section 7.

**`IngestionControllerProofs`.** `ControllerImplementsIngestor`: every step with
subscriptions is a step of `MqttIngestor` or leaves it alone. Hence
`ControllerKeepsContinuations` without another induction. `ControllerTypeCorrect`,
and `ListAlwaysServed` for any number of topics and requests. The list alone is
not inductive: `Released` of one call may come between two others. `ListInv` says
that requests on one connection are totally ordered by `ahead`
(`RequestsInOrder`), that what mqtt.js restores is decided by the last one sent
(`LastDecides`), and that list, mqtt.js and broker agree on a topic nothing is
under way for, no request has failed and no restoration was refused (`Agreed`).
`AlwaysOneToAnswer`: where something is in flight on a connection, exactly one thing, the
restoration or one request, may be acknowledged next; `QueuesInOrder` (their queues are finite
and a request's queue holds those of the requests before it) gives one with an empty queue. With it
`ShutdownStuckBySeveringOnly`: in each phase of the shutdown that waits, what it waits
for can go on, unless it is an `end()` whose connection broke under a request. `BatchOfAnyLength` and `BatchesAccounted` are inductions over the length of a
batch. The library's induction theorems are of no use to these provers, so the induction is
over a *set*: the lengths for which the statement fails would have a least
element (`WFMin` of the library).

**`EventStreamProofs`.** `StreamTypeCorrect`, `EventsInOrder`, `EventsAlwaysSound`,
`NamedTopicsValidated`, for all topics, filters, clients and listeners and any number of
messages. `StreamInv` adds that a connection keeps its order (`HandledFirst`), that what the
client of the field has asked for has a schema (`WantedHaveSchema`), and that a message on
its way to that client still finds its schema unless it is late (`UnderwayValidated`). Lemma `StreamWithinBroker`: what the regular expression of
`getMessageStreamByTopic()` lets pass, the broker would match too;
`WhereMatchingDiffers` is exact about the rest (patterns with `+`, and `a/#` for
`a`), for topics that do not begin with `$`. `NothingElseIsLost`: a message that arrives is appended to what each
listener it is due to has received, and to nothing else; its invariant is `HandlerFirst` (nothing is
subscribed or sent before the callback is installed).

**`OpcServerProofs`.** `OpcTypeCorrect`, `OneServer`, `RunningAlwaysHasServer`,
`RegisteredAfterStart`, for any set of callers, from `FieldsOfEngine`: the promise
tells whether a server was constructed, and the address space is there exactly
while the flag is set once the start has ended. `DownForGood`: a server that went
down stays down. `StartIsBounded`: who awaits the start awaits one or two operations
of node-opcua that are never taken back. `CncTypeNeverRegistered` (`Others = {}`)
says of every behaviour what `opc_cnc_type` shows on one.

**`MachinesServiceProofs`.** `MachinesTypeCorrect`, `ReferencesHold`, `RowsReadStay`,
`ServiceIsAlmostAStore` for any number of requests and rows. The invariant adds
`ReadRowsStay`, without which a save might insert a row; lemma `NothingVanishes`
is used by every writing step. `SeparateRequestsGiveTheStore`: if no two requests are
under way on one row at a time, no read is ever stale (`ReadsAreFresh`, by induction) and
the service implements `MachineStore` without exception. The hypothesis is about who
calls when, nothing is assumed of the rows; requests on different rows, one referring to the
other included, may overlap.

**`ConfigServiceProofs`.** `EnvironmentHasNoEffect`: for every schema whose sections
begin with a small letter (`WellFormed`), every file and environment, the loaded
configuration is that of the file. It generalises `env_override`.

**Only model-checked:** liveness, since fairness and ENABLED are out of the
prover's reach. What is proved of it is the half that does not need fairness, that
the system can always go on and cannot go round for ever:

| Checked by TLC | Proved of it |
|---|---|
| `ChainEnds` | `ChainIsBounded` |
| `BootCompletes`, `ShutdownCompletes` | `WaitsAlwaysDriven` |
| `DispatcherBoots` | `EveryTaskEnds`, `RequestsAlwaysAnswerable` |
| `ShutdownServesAll` | `ShutdownStuckBySeveringOnly`, `AlwaysOneToAnswer` |
| `CallsReturn` | `StartIsBounded` |
| `SingleClientRecovers`, `session_thrash` | nothing |

There is no RECURSIVE operator.

## 7. Where the code and the documents disagree

Five disagreements have a run and a finding (section 3). Others were met while
modelling; `spec.md` is `openspec/changes/add-ingestion-module/specs/ingestion/spec.md`:

* the status stays CONNECTED while the connection is lost (spec.md:352);
* clients of failed attempts dial on after FAILED (spec.md:234), and
  `onModuleDestroy` leaves clients alive that were not connected (spec.md:503-506);
* a broker that closes without an error before CONNACK blocks the start
  (spec.md:192);
* after a failed start the status is DISCONNECTED, not RECONNECTING (spec.md:190);
* when the retry timer replaces a client that had connected by itself, the new
  one knows no subscription (spec.md:226, 242);
* a signal during the boot: the boot's attempt answers after `onModuleDestroy`
  and may report CONNECTED with a client nobody holds, or arm a timer that the hook has
  just cleared (`mqtt-ingestor.service.ts:42-66`); the OPC UA server may complete its
  start after its own destroy hook has returned (`opc-server.module.ts:22`);
* `POST /disconnect` twice, then `POST /connect`: the callback of the second
  `end()` nulls the field that holds the new client
  (`mqtt-client.service.ts:79`), and an acknowledgement then lists a topic of a
  client the service no longer holds;
* `disconnect()` with a SUBSCRIBE, an UNSUBSCRIBE or a restoration in flight whose connection
  breaks: `end(false)` goes on waiting for the acknowledgement, its callback never runs,
  and the shutdown stops in the hook (`mqtt-client.service.ts:78`), while spec.md:508-514 wants
  a timeout that "prevents indefinite blocking"; after `POST /disconnect` the status may stay
  RECONNECTING for ever. `Hung` in `ShutdownServesAll` and `ShutdownCompletes` is this case;
* when the broker refuses a topic of the SUBSCRIBE mqtt.js sends after a reconnection,
  mqtt.js forgets all topics of that SUBSCRIBE; the dispatcher still records them, and
  `GET /subscriptions` still lists them (spec.md:226, 238-244). `lapsed` is this case;
* after an UNSUBACK the broker may deliver what it had buffered for a subscription with
  QoS 1: the schema is gone by then (`mqtt-dispatcher.service.ts:225`) and these messages pass
  unvalidated. So may messages that come over a client which was replaced, and their order
  with those of its successor is not kept;
* of two overlapping subscribes of one topic the second may be answered with
  success although the first is then denied; a topic whose unsubscribe failed
  stays listed but is not restored (`mqtt-client.service.ts:98-150`);
* one `null` in a batch rejects the whole call, after messages before it were
  accepted: the catch block reads a field of it (`api-ingestor.service.ts:63`);
  Express refuses bodies above its default limit of 100 kB, so the service's own
  check for 1 MB never decides;
* GET and DELETE `schemas/:topic` take the topic from the body;
* a subscribe between the request and the acknowledgement of an unsubscribe of
  the same topic loses its schema (no caller yet);
* `startServer()` after a stop finds the old promise settled and returns
  without a server (`opc-server.service.ts:46`);
* `getMessageStreamByTopic()` never matches a pattern with `+`, and `a/#` not
  the topic `a`: `StreamMatches` says so, against `BrokerMatches`; and its `#` passes topics that
  begin with `$`, which no wildcard of MQTT matches;
* `IngestionController.subscribe` registers schemas in a registry that
  validation does not use (spec.md:132);
* `ApiIngestorService.ingest` builds an event and drops it (spec.md:439-470);
* GET and restore of an unknown id answer with success, not 404
  (`machines.controller.ts:50, 78`);
* soft-deleted machines are subscribed at the start (`withDeleted: true`).

## 8. What is not modelled

* `getDelay()` and its cap: delays do not exist in the models.
* The connection counters of the statistics, and the QoS of a subscription: only
  that a higher one makes mqtt.js ask again.
* The second registry (`IngestionSchemaRegistry`) and the endpoints that read or write it:
  `validate()` never reads it, so they touch nothing else.
* Fields of events, messages and types; zod's parsing of message bodies;
  variables and methods of the OPC UA types: data no property tells apart.
* An HTTP server that begins to listen only while the last shutdown hook runs,
  and a signal before `OpcServerModule.onModuleInit()`: the models let requests begin
  once the boot has returned and until the server is closed, and the OPC UA hooks end what they began.
* `src/ingestion/mqtt-ingestor.service.ts` and
  `src/ingestion/canonical-event-factory.service.ts`: earlier copies nobody provides.
* Swagger, the module wiring, the validation pipes and the tests.

## 9. Plan

Done, in this order: `MqttClient`, `MqttIngestor` and its proofs;
`MqttDispatcher` over them and its proofs; `OpcServer`; `ConfigService`;
`TopicFilters`, `EventStream`; `MachineStore`, `MachinesService`; a signal
during the boot; `ReconnectContract` and the refinement; `ApiIngestor`,
`IngestionController` and its proofs; the proofs about `EventStream` and
about the public calls of the dispatcher; the variants and the absence of dead ends behind
the liveness properties. Next:

1. Dispatcher composed with the tables: removed machines, topics changed by
   PATCH, `subscribeToMachineById` as the caller would use it.
2. `Backoff`: `getDelay()` monotone and capped, checked against a definition by
   repeated multiplication.
3. `StreamMatches` against what the documents promise of `+` and `#`.
