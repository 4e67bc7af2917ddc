-------------------------- MODULE IngestionController --------------------------
(***************************************************************************)
(* The endpoints of IngestionController                                    *)
(* (src/src/ingestion/ingestion.controller.ts) on top of MqttIngestor:     *)
(* POST /connect and /disconnect, which MqttIngestor has, and              *)
(* POST /subscribe and DELETE /unsubscribe, down to the subscriptions of   *)
(* MqttClientService and, with MqttSubscriptions, of mqtt.js and the       *)
(* broker.                                                                 *)
(*                                                                         *)
(* AppModule does not import IngestionModule: this is the application as   *)
(* it would be if it did.  The machines and their dispatcher are left out; *)
(* MqttDispatcher has them.  The endpoints that read or write a schema     *)
(* touch a registry of their own, which nothing else ever reads; they are  *)
(* left out too.                                                           *)
(***************************************************************************)
EXTENDS MqttSubscriptions, ApiIngestor

CONSTANTS NoTopic,
          Requests   \* calls of subscribe and unsubscribe (a bound)

ASSUME TopicAssumption == NoTopic \notin Topics

VARIABLES
  listed,     \* keys of MqttClientService.subscriptions: GET /subscriptions
  request     \* request[q]: where a call of the two endpoints stands

topicVars == <<listed, brokerVars, request>>
controllerVars == <<vars, topicVars>>

Underway == {"subscribing", "unsubscribing"}

(* ahead: the requests that were under way on the same connection when     *)
(* this one was sent.                                                      *)
RequestStates ==
  [pc : Underway \cup {"idle", "done", "failed"},
   topic : Topics \cup {NoTopic},
   on : Clients \cup {NoClient},
   ahead : SUBSET Requests]

NotUnderway(pc, t) == [pc |-> pc, topic |-> t, on |-> NoClient, ahead |-> {}]

ControllerTypeOK ==
  /\ TypeOK
  /\ listed \subseteq Topics
  /\ BrokerTypeOK
  /\ request \in [Requests -> RequestStates]
  /\ \A q \in Requests : request[q].pc \in Underway =>
       request[q].topic \in Topics /\ request[q].on \in Clients

ControllerInit ==
  /\ Init
  /\ listed = {}
  /\ BrokerInit
  /\ request = [q \in Requests |-> NotUnderway("idle", NoTopic)]

-----------------------------------------------------------------------------
(* POST /subscribe and DELETE /unsubscribe, up to their await.             *)

Call(q) == Serving /\ request[q].pc = "idle"

(* The requests of S are over, with the outcome pc.                        *)
Settle(S, pc) ==
  request' = [q \in Requests |->
                IF q \in S THEN NotUnderway(pc, request[q].topic)
                ELSE [request[q] EXCEPT !.ahead = @ \ S]]

AtOnce(q, t, pc) == request' = [request EXCEPT ![q] = NotUnderway(pc, t)]

Unreachable(q, t) ==
  /\ ~Reachable
  /\ AtOnce(q, t, "failed")
  /\ UNCHANGED <<listed, wanted>>

UnderwayOn(c) == {q \in Requests : request[q].pc \in Underway /\ request[q].on = c}

Sends(q, t, pc) ==
  request' = [request EXCEPT ![q] = [pc |-> pc, topic |-> t, on |-> client,
                                     ahead |-> UnderwayOn(client)]]

(* mqtt.js answers at once for a topic it already restores, unless this    *)
(* call asks for a higher QoS; otherwise it sends a SUBSCRIBE and will     *)
(* restore the topic from now on.                                          *)
Subscribe(q) ==
  /\ Call(q)
  /\ \E t \in Topics :
       \/ Unreachable(q, t)
       \/ /\ Reachable /\ t \in wanted[client]
          /\ AtOnce(q, t, "done")
          /\ listed' = listed \cup {t}
          /\ UNCHANGED wanted
       \/ /\ Reachable
          /\ Sends(q, t, "subscribing")
          /\ wanted' = [wanted EXCEPT ![client] = @ \cup {t}]
          /\ UNCHANGED listed
  /\ UNCHANGED <<vars, restoring, served, lapsed>>

Unsubscribe(q) ==
  /\ Call(q)
  /\ \E t \in Topics :
       \/ Unreachable(q, t)
       \/ /\ Reachable
          /\ Sends(q, t, "unsubscribing")
          /\ wanted' = [wanted EXCEPT ![client] = @ \ {t}]
          /\ UNCHANGED listed
  /\ UNCHANGED <<vars, restoring, served, lapsed>>

-----------------------------------------------------------------------------
(* Acknowledgements, in the order of the requests on a connection.         *)

Acknowledged(q) ==
  /\ request[q].pc \in Underway
  /\ Answers(request[q].on)
  /\ request[q].ahead = {}

Granted(q) ==
  /\ request[q].pc = "subscribing"
  /\ listed' = listed \cup {request[q].topic}
  /\ Granting(request[q].on, request[q].topic)
  /\ Settle({q}, "done")
  /\ UNCHANGED wanted

(* The broker refuses a subscription: mqtt.js forgets the topic.           *)
Denied(q) ==
  /\ request[q].pc = "subscribing"
  /\ wanted' = [wanted EXCEPT ![request[q].on] = @ \ {request[q].topic}]
  /\ Settle({q}, "failed")
  /\ UNCHANGED <<listed, served, lapsed>>

Released_StillListed(q) ==
  /\ request[q].pc = "unsubscribing"
  /\ served' = IF session = request[q].on THEN served \ {request[q].topic} ELSE served
  /\ Settle({q}, "done")
  /\ UNCHANGED <<listed, wanted, lapsed>>

Released(q) ==
  /\ request[q].pc = "unsubscribing"
  /\ listed' = listed \ {request[q].topic}
  /\ served' = IF session = request[q].on THEN served \ {request[q].topic} ELSE served
  /\ Settle({q}, "done")
  /\ UNCHANGED <<wanted, lapsed>>

Acked(q) ==
  /\ Acknowledged(q)
  /\ Granted(q) \/ Denied(q) \/ Released(q)
  /\ UNCHANGED <<vars, restoring>>

-----------------------------------------------------------------------------
(* The steps of MqttIngestor, with their effect on the subscriptions.      *)

(* mqtt.js fails what it has in flight when the connection of c closes.    *)
CutOff_Stranded(c) == UNCHANGED request

CutOff(c) == Settle(UnderwayOn(c), "failed")

TopicsAccepted(c) ==
  /\ Accepted(c)
  /\ SessionBegins(c)
  /\ UNCHANGED <<listed, request>>

AttemptEnded(c) ==
  \/ TopicsAccepted(c)
  \/ (Refused(c) \/ ClosedSilently(c)) /\ UNCHANGED topicVars

(* The broker answers the restoration: GET /subscriptions is not told.     *)
TopicsRestored(c) == RestoreAcked(c) /\ UNCHANGED <<listed, request>>

TopicsBroken(c) ==
  /\ Lost(c) \/ Evicted(c)
  /\ SessionEnds(c)
  /\ CutOff(c)
  /\ UNCHANGED listed

(* What mqtt.js has in flight on c: end() waits for its acknowledgements.  *)
Owed(c) == UnderwayOn(c) # {} \/ restoring[c] # {}

TopicsEnded(c) ==
  /\ ~Owed(c)
  /\ EndDone(c)
  /\ SessionEnds(c)
  /\ listed' = {}
  /\ UNCHANGED request

TopicsSevered(c) ==
  /\ Owed(c)
  /\ Severed(c)
  /\ SessionEnds(c)
  /\ CutOff(c)
  /\ UNCHANGED listed

(* disconnect(): the subscriptions are cleared with the field.  Closing    *)
(* the HTTP server, between the two hooks, waits for every request.        *)
RequestsServed == \A q \in Requests : request[q].pc \notin Underway

AnyDisconnect ==
  \/ ApiDisconnect
  \/ OnModuleDestroy
  \/ OnApplicationShutdown /\ RequestsServed

TopicsDropped ==
  /\ AnyDisconnect
  /\ listed' = IF client # NoClient /\ client' = NoClient THEN {} ELSE listed
  /\ UNCHANGED <<brokerVars, request>>

ShutdownGoesOn == TopicsDropped /\ phase = "destroyed" /\ phase' # "destroyed"

Untouched(A) == A /\ UNCHANGED topicVars

ControllerNext ==
  \/ Untouched(OnModuleInit)
  \/ Untouched(ApiConnect)
  \/ Untouched(ReconnectTimer)
  \/ TopicsDropped
  \/ \E c \in Clients :
       \/ AttemptEnded(c)
       \/ Untouched(Dialled(c))
       \/ TopicsRestored(c)
       \/ TopicsBroken(c)
       \/ TopicsEnded(c)
       \/ TopicsSevered(c)
  \/ \E q \in Requests :
       \/ Subscribe(q)
       \/ Unsubscribe(q)
       \/ Acked(q)

ControllerSpec == ControllerInit /\ [][ControllerNext]_controllerVars

(* The fairness of MqttIngestor, and that a broker whose connection holds  *)
(* acknowledges, restorations included.                                    *)
ControllerFairness ==
  /\ WF_controllerVars(Untouched(OnModuleInit))
  /\ WF_controllerVars(Untouched(ReconnectTimer))
  /\ WF_controllerVars(ShutdownGoesOn)
  /\ \A c \in Clients :
       /\ WF_controllerVars(AttemptEnded(c))
       /\ WF_controllerVars(Untouched(Dialled(c)))
       /\ WF_controllerVars(TopicsBroken(c) /\ Evicted(c))
       /\ WF_controllerVars(TopicsEnded(c))
       /\ WF_controllerVars(TopicsRestored(c))
       /\ SF_controllerVars(AttemptEnded(c) /\ (Accepted(c) \/ Refused(c)))
  /\ \A q \in Requests : WF_controllerVars(Acked(q))

ControllerFairSpec == ControllerSpec /\ ControllerFairness

-----------------------------------------------------------------------------
(* Properties, beside those of MqttIngestor and ApiIngestor.               *)

(* Some request about t is under way or was not carried out.               *)
Disturbed(t) ==
  \E q \in Requests : request[q].topic = t /\ request[q].pc \in Underway \cup {"failed"}

(* GET /subscriptions tells the truth as long as the process has had one   *)
(* client: however calls overlap and connections break, a topic it lists   *)
(* is delivered when the connection is up, or mqtt.js is about to restore  *)
(* it, unless a request about it is under way or has failed, or the broker *)
(* has refused to restore it, which leaves the list as it is.              *)
ListedIsServed ==
  Cardinality(Used) =< 1 /\ client # NoClient /\ session # NoClient =>
    \A t \in listed : t \in served \cup restoring[session] \cup lapsed \/ Disturbed(t)

(* As long as the endpoints are served, every POST /ingest/batch is        *)
(* answered for each of its messages, or fails as a whole for a null.      *)
BatchAccounts == Serving => EveryBatchAccounted

(* Closing the HTTP server waits for the calls in flight, and these for a  *)
(* connection that onModuleDestroy() has just taken away: the shutdown is  *)
(* completed all the same, unless the connection breaks while one of them  *)
(* is in flight and end() waits for its acknowledgement.                   *)
ShutdownServesAll == phase # "up" ~> phase = "stopped" \/ Hung
=============================================================================
