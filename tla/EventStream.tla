------------------------------ MODULE EventStream ------------------------------
(***************************************************************************)
(* The path of a message: from the broker over the 'message' handler of    *)
(* MqttClientService and the callback of MqttIngestorService to            *)
(* CanonicalEventFactory, which validates it with                          *)
(* MessageSchemaRegistryService, and to the listeners of the stream.       *)
(*                                                                         *)
(* MqttIngestor models how clients come and go, MqttDispatcher how topics  *)
(* come to be subscribed and lost: here a subscription is made in one      *)
(* step, and the broker may or may not serve what a client asked for.      *)
(***************************************************************************)
EXTENDS TopicFilters, FiniteSets

CONSTANTS Topics,       \* the topics that are published on
          Sources,      \* the values of machine.mqttSource
          Patterns,     \* the values of topicPattern
          Schemas,      \* the schemas of CncSchemaMapper
          Clients,      \* the clients mqtt.connect() may create (a bound)
          None,         \* no schema, no pattern, no client
          Listeners,    \* the subscribers of the stream
          MaxMessages   \* bound on the messages the broker sends

ASSUME TopicAssumption ==
  /\ \A t \in Topics : IsFilter(t) /\ ~IsWild(t) /\ t[1] \notin Reserved
  /\ \A f \in Sources \cup Patterns : IsFilter(f)
ASSUME MessageAssumption == MaxMessages \in Nat /\ None \notin Schemas \cup Clients

VARIABLES
  client,     \* the field of MqttClientService
  used,       \* the clients mqtt.connect() has returned
  up,         \* the clients whose connection is established
  session,    \* the client that holds the broker's session
  wanted,     \* wanted[c]: the filters mqtt.js has asked the broker for on c
  draining,   \* filters unsubscribed in this session: the broker may have
              \* messages left for them
  handlers,   \* length of MqttClientService.messageCallbacks
  completed,  \* messageSubject has completed
  schemaOf,   \* MessageSchemaRegistryService.schemas, None if there is none
  sent,       \* the messages the broker has sent, in their order
  handled,    \* those that have arrived, or were lost with a connection
  pattern,    \* pattern[l]: what l asked for, None before it does
  got         \* got[l]: the events l was given

connVars == <<client, used, up, session>>
subVars == <<wanted, draining>>
eventVars == <<pattern, got>>
streamVars == <<connVars, subVars, handlers, completed, schemaOf, sent, handled, eventVars>>

(* fits: the schemas a payload satisfies, nothing if it is not JSON.       *)
Messages == {m \in [topic : Topics, json : BOOLEAN, fits : SUBSET Schemas] :
               ~m.json => m.fits = {}}

(* late: sent for a filter that was unsubscribed.                          *)
Deliveries == [msg : Messages, on : Clients, late : BOOLEAN]

Events == [id : 1..MaxMessages, topic : Topics, schema : Schemas \cup {None}]

StreamTypeOK ==
  /\ client \in used \cup {None}
  /\ used \subseteq Clients /\ up \subseteq used
  /\ session \in up \cup {None}
  /\ wanted \in [Clients -> SUBSET Sources] /\ draining \subseteq Sources
  /\ handlers \in 0..1
  /\ completed \in BOOLEAN
  /\ schemaOf \in [Sources -> Schemas \cup {None}]
  /\ sent \in Seq(Deliveries) /\ Len(sent) =< MaxMessages
  /\ handled \subseteq 1..Len(sent)
  /\ pattern \in [Listeners -> Patterns \cup {None}]
  /\ got \in [Listeners -> Seq(Events)]

StreamInit ==
  /\ client = None /\ used = {} /\ up = {} /\ session = None
  /\ wanted = [c \in Clients |-> {}] /\ draining = {}
  /\ handlers = 0
  /\ completed = FALSE
  /\ schemaOf = [f \in Sources |-> None]
  /\ sent = <<>> /\ handled = {}
  /\ pattern = [l \in Listeners |-> None]
  /\ got = [l \in Listeners |-> <<>>]

-----------------------------------------------------------------------------
(* The connections.  A client that is replaced goes on dialling, and what  *)
(* it receives is handed to the same callbacks.                            *)

(* connect() of MqttClientService, unless it is connected already.         *)
Opens(c) ==
  /\ client \notin up
  /\ c \notin used
  /\ client' = c
  /\ used' = used \cup {c}
  /\ UNCHANGED <<up, session, subVars, handlers, completed, schemaOf, sent, handled, eventVars>>

(* The CONNACK: all clients have one clientId, the last one to connect     *)
(* takes the session.                                                      *)
Connects_HandlerAgain(c) ==
  /\ c \in used \ up
  /\ up' = up \cup {c}
  /\ session' = c
  /\ draining' = {}
  /\ handlers' = 1 + handlers
  /\ UNCHANGED <<client, used, wanted, completed, schemaOf, sent, handled, eventVars>>

Connects(c) ==
  /\ c \in used \ up
  /\ up' = up \cup {c}
  /\ session' = c
  /\ draining' = {}
  /\ UNCHANGED <<client, used, wanted, handlers, completed, schemaOf, sent, handled, eventVars>>

(* mqtt.clean is true in local.yml: nothing is sent again on another       *)
(* connection, so what is on its way is lost, QoS 1 or not.                *)
Breaks(c) ==
  /\ c \in up
  /\ up' = up \ {c}
  /\ session' = IF session = c THEN None ELSE session
  /\ draining' = IF session = c THEN {} ELSE draining
  /\ handled' = handled \cup {i \in DOMAIN sent : sent[i].on = c}
  /\ UNCHANGED <<client, used, wanted, handlers, completed, schemaOf, sent, eventVars>>

(* onModuleInit() goes on after connect(), connected or not.               *)
SetupMessageHandler ==
  /\ handlers = 0
  /\ handlers' = 1
  /\ UNCHANGED <<connVars, subVars, completed, schemaOf, sent, handled, eventVars>>

(* onModuleDestroy() completes the subject before it disconnects.  A       *)
(* signal may come before onModuleInit() has installed the callback.       *)
OnModuleDestroy ==
  /\ ~completed
  /\ completed' = TRUE
  /\ UNCHANGED <<connVars, subVars, handlers, schemaOf, sent, handled, eventVars>>

-----------------------------------------------------------------------------
(* The subscriptions.                                                      *)

(* subscribeToMachine(): the schema is registered under the filter itself. *)
SubscribeToMachine(f, s) ==
  /\ handlers = 1
  /\ schemaOf' = [schemaOf EXCEPT ![f] = s]
  /\ wanted' = [c \in Clients |-> IF c = client /\ c \in up
                                   THEN wanted[c] \cup {f} ELSE wanted[c]]
  /\ UNCHANGED <<connVars, draining, handlers, completed, sent, handled, eventVars>>

(* unsubscribeFromMachine() for a topic that is recorded: the              *)
(* acknowledgement, after which the schema goes, comes behind what the     *)
(* broker has sent on the connection.  The broker may go on with messages  *)
(* it has buffered: the dispatcher subscribes with QoS 1.                  *)
UnsubscribeFromMachine_BeforeAck(f) ==
  /\ client \in up
  /\ schemaOf[f] # None
  /\ wanted' = [wanted EXCEPT ![client] = @ \ {f}]
  /\ draining' = IF session = client THEN draining \cup ({f} \cap wanted[client]) ELSE draining
  /\ schemaOf' = [schemaOf EXCEPT ![f] = None]
  /\ UNCHANGED <<connVars, handlers, completed, sent, handled, eventVars>>

UnsubscribeFromMachine(f) ==
  /\ client \in up
  /\ schemaOf[f] # None
  /\ \A i \in DOMAIN sent \ handled : sent[i].on # client
  /\ wanted' = [wanted EXCEPT ![client] = @ \ {f}]
  /\ draining' = IF session = client THEN draining \cup ({f} \cap wanted[client]) ELSE draining
  /\ schemaOf' = [schemaOf EXCEPT ![f] = None]
  /\ UNCHANGED <<connVars, handlers, completed, sent, handled, eventVars>>

(* getMessageStreamByTopic(); getMessageStream() is the pattern "#".       *)
Listen(l, p) ==
  /\ pattern[l] = None
  /\ pattern' = [pattern EXCEPT ![l] = p]
  /\ UNCHANGED <<connVars, subVars, handlers, completed, schemaOf, sent, handled, got>>

-----------------------------------------------------------------------------
(* The messages.                                                           *)

Serves(F, t) == \E f \in F : BrokerMatches(f, t)

(* The broker sends what some machine published to the client that has the *)
(* session.                                                                *)
BrokerSends(m) ==
  /\ session # None
  /\ Serves(wanted[session] \cup draining, m.topic)
  /\ Len(sent) < MaxMessages
  /\ sent' = Append(sent, [msg |-> m, on |-> session,
                           late |-> ~Serves(wanted[session], m.topic)])
  /\ UNCHANGED <<connVars, subVars, handlers, completed, schemaOf, handled, eventVars>>

(* schemas.get(topic): an exact look-up.                                   *)
SchemaFor(t) == IF t \in Sources THEN schemaOf[t] ELSE None

(* createFromMqtt() throws for what is not JSON or fails its schema.       *)
Accepts(m) == m.json /\ (SchemaFor(m.topic) = None \/ SchemaFor(m.topic) \in m.fits)

(* One event for each callback, to each listener whose pattern matches;    *)
(* nothing once the subject has completed.                                 *)
Given(l, m, id) ==
  IF pattern[l] # None /\ StreamMatches(pattern[l], m.topic)
  THEN [i \in 1..handlers |-> [id |-> id, topic |-> m.topic, schema |-> SchemaFor(m.topic)]]
  ELSE <<>>

Emit(m, id) ==
  got' = IF Accepts(m) /\ ~completed
         THEN [l \in Listeners |-> got[l] \o Given(l, m, id)]
         ELSE got

(* The 'message' event: the callback handles it without interruption, and  *)
(* catches what createFromMqtt() throws.  A connection keeps the order.    *)
MessageArrives(i) ==
  /\ i \in DOMAIN sent \ handled
  /\ \A j \in DOMAIN sent \ handled : sent[j].on = sent[i].on => i =< j
  /\ handled' = handled \cup {i}
  /\ Emit(sent[i].msg, i)
  /\ UNCHANGED <<connVars, subVars, handlers, completed, schemaOf, sent, pattern>>

StreamNext ==
  \/ \E c \in Clients : Opens(c) \/ Connects(c) \/ Breaks(c)
  \/ SetupMessageHandler
  \/ OnModuleDestroy
  \/ \E f \in Sources, s \in Schemas : SubscribeToMachine(f, s)
  \/ \E f \in Sources : UnsubscribeFromMachine(f)
  \/ \E l \in Listeners, p \in Patterns : Listen(l, p)
  \/ \E m \in Messages : BrokerSends(m)
  \/ \E i \in 1..MaxMessages : MessageArrives(i)

StreamSpec == StreamInit /\ [][StreamNext]_streamVars

-----------------------------------------------------------------------------
(* Properties.                                                             *)

(* However connections come and go and clients replace one another, a      *)
(* message gives a listener at most one event, and the events of one       *)
(* client's messages keep the broker's order.                              *)
OncePerArrival ==
  \A l \in Listeners : \A i, j \in DOMAIN got[l] :
    i < j => LET a == got[l][i].id
                 b == got[l][j].id
             IN  a # b /\ (sent[a].on = sent[b].on => a < b)

(* An event is JSON of the schema it is marked with, and its topic is one  *)
(* that the broker would have matched with the listener's pattern.         *)
EventsAreSound ==
  \A l \in Listeners : \A i \in DOMAIN got[l] :
    LET e == got[l][i]
        m == sent[e.id].msg
    IN  /\ m.json
        /\ e.schema # None => e.schema \in m.fits
        /\ BrokerMatches(pattern[l], e.topic)

(* Whatever is subscribed and unsubscribed meanwhile, an event that was    *)
(* not validated is of a topic that a wildcard covers, or of a message     *)
(* that the broker had left after the UNSUBACK, or one that came over a    *)
(* client that was replaced.                                               *)
ConcreteTopicsValidated ==
  \A l \in Listeners : \A i \in DOMAIN got[l] :
    LET e == got[l][i] IN
    e.schema = None =>
      \/ \E f \in Sources : IsWild(f) /\ BrokerMatches(f, e.topic)
      \/ sent[e.id].late
      \/ sent[e.id].on # client

-----------------------------------------------------------------------------
(* What the documents say and the code does not do.                        *)

(* openspec/changes/add-ingestion-module/specs/ingestion/spec.md, lines    *)
(* 253-258: 'machine/+/telemetry' may be subscribed and the messages of    *)
(* matching topics are received; line 295: a payload "is validated against *)
(* schema" if the registry has one for the topic, as for                   *)
(* 'machine/+/telemetry' in line 418.                                      *)
WildcardsValidated ==
  \A l \in Listeners : \A i \in DOMAIN got[l] : got[l][i].schema # None
=============================================================================
