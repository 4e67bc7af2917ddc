----------------------- MODULE IngestionControllerProofs -----------------------
(***************************************************************************)
(* Theorems about IngestionController, for every number of clients, topics *)
(* and calls.                                                              *)
(***************************************************************************)
EXTENDS IngestionController, MqttIngestorProofs

-----------------------------------------------------------------------------
(* The endpoints that subscribe leave the connection to MqttIngestor.      *)

LEMMA ControllerStepIsIngestorStep == [ControllerNext]_controllerVars => [Next]_vars
<1> SUFFICES ASSUME [ControllerNext]_controllerVars PROVE [Next]_vars
  OBVIOUS
<1>1. CASE Untouched(OnModuleInit) \/ Untouched(ApiConnect) \/ Untouched(ReconnectTimer)
  BY <1>1 DEF Untouched, Next, WiredNext
<1>2. CASE TopicsDropped
  BY <1>2 DEF TopicsDropped, AnyDisconnect, Next, WiredNext
<1>3. ASSUME NEW c \in Clients,
             \/ AttemptEnded(c) \/ Untouched(Dialled(c))
             \/ TopicsBroken(c) \/ TopicsEnded(c) \/ TopicsSevered(c)
      PROVE  Next
  BY <1>3 DEF AttemptEnded, TopicsAccepted, Untouched, TopicsBroken, TopicsEnded, TopicsSevered, Next,
              WiredNext
<1>4. ASSUME NEW q \in Requests, Subscribe(q) \/ Unsubscribe(q) \/ Acked(q)
      PROVE  UNCHANGED vars
  BY <1>4 DEF Subscribe, Unsubscribe, Acked
<1>5. ASSUME NEW c \in Clients, TopicsRestored(c)
      PROVE  UNCHANGED vars
  BY <1>5 DEF TopicsRestored, RestoreAcked, RestoreGranted, RestoreRefused, Restoration
<1>6. CASE UNCHANGED controllerVars
  BY <1>6 DEF controllerVars
<1> QED
  BY <1>1, <1>2, <1>3, <1>4, <1>5, <1>6 DEF ControllerNext

(* Adding the endpoints that subscribe and unsubscribe takes nothing away  *)
(* from what MqttIngestor does: the controller implements it.              *)
THEOREM ControllerImplementsIngestor == ControllerSpec => Spec
<1>1. ControllerInit => Init
  BY DEF ControllerInit
<1> QED
  BY <1>1, ControllerStepIsIngestorStep, PTL DEF ControllerSpec, Spec

(* Whatever the endpoints do, no continuation of a connection is lost and  *)
(* RECONNECTING is never a dead end.                                       *)
THEOREM ControllerKeepsContinuations ==
  ControllerSpec => [](NoStrandedAwait /\ FieldNotEnded /\ ReconnectingIsDriven)
BY ControllerImplementsIngestor, NoAwaitIsStranded, ReconnectingAlwaysDriven, PTL

-----------------------------------------------------------------------------
(* Types.                                                                  *)

TopicTypeOK ==
  /\ listed \subseteq Topics
  /\ BrokerTypeOK
  /\ request \in [Requests -> RequestStates]
  /\ \A q \in Requests : request[q].pc \in Underway =>
       request[q].topic \in Topics /\ request[q].on \in Clients

LEMMA RequestType ==
  ASSUME NEW pc \in Underway \cup {"idle", "done", "failed"}, NEW t \in Topics \cup {NoTopic},
         NEW c \in Clients \cup {NoClient}, NEW rs \in SUBSET Requests
  PROVE  [pc |-> pc, topic |-> t, on |-> c, ahead |-> rs] \in RequestStates
BY DEF RequestStates

LEMMA RequestFields ==
  ASSUME NEW r \in RequestStates
  PROVE  /\ r.pc \in Underway \cup {"idle", "done", "failed"}
         /\ r.topic \in Topics \cup {NoTopic}
         /\ r.on \in Clients \cup {NoClient}
         /\ r.ahead \in SUBSET Requests
         /\ \A rs : [r EXCEPT !.ahead = rs]
                    = [pc |-> r.pc, topic |-> r.topic, on |-> r.on, ahead |-> rs]
BY DEF RequestStates

LEMMA SettleType ==
  ASSUME TopicTypeOK, NEW S \in SUBSET Requests, NEW pc \in {"done", "failed"}, Settle(S, pc)
  PROVE  /\ request' \in [Requests -> RequestStates]
         /\ \A q \in Requests : request'[q].pc \in Underway =>
              request'[q].topic \in Topics /\ request'[q].on \in Clients
<1> USE DEF TopicTypeOK, BrokerTypeOK
<1>1. ASSUME NEW q \in S
      PROVE  request'[q] = [pc |-> pc, topic |-> request[q].topic, on |-> NoClient, ahead |-> {}]
  BY <1>1 DEF Settle, NotUnderway
<1>2. ASSUME NEW q \in Requests \ S
      PROVE  request'[q] = [pc |-> request[q].pc, topic |-> request[q].topic,
                            on |-> request[q].on, ahead |-> request[q].ahead \ S]
  <2>1. request'[q] = [request[q] EXCEPT !.ahead = request[q].ahead \ S]
    BY <1>2 DEF Settle
  <2> QED
    BY <2>1, RequestFields
<1>3. ASSUME NEW q \in Requests
      PROVE  /\ request'[q] \in RequestStates
             /\ request'[q].pc \in Underway =>
                  request'[q].topic \in Topics /\ request'[q].on \in Clients
  <2>1. /\ request[q].pc \in Underway \cup {"idle", "done", "failed"}
        /\ request[q].topic \in Topics \cup {NoTopic}
        /\ request[q].on \in Clients \cup {NoClient}
        /\ request[q].ahead \in SUBSET Requests
    BY RequestFields
  <2>2. CASE q \in S
    <3>1. {} \in SUBSET Requests /\ pc \in Underway \cup {"idle", "done", "failed"}
          /\ NoClient \in Clients \cup {NoClient} /\ pc \notin Underway
      BY DEF Underway
    <3>2. request'[q] = [pc |-> pc, topic |-> request[q].topic, on |-> NoClient, ahead |-> {}]
      BY <1>1, <2>2
    <3>3. [pc |-> pc, topic |-> request[q].topic, on |-> NoClient, ahead |-> {}] \in RequestStates
      BY <2>1, <3>1, RequestType
    <3>4. request'[q].pc = pc
      BY <3>2
    <3> QED
      BY <3>1, <3>2, <3>3, <3>4
  <2>3. CASE q \notin S
    <3>1. request'[q] = [pc |-> request[q].pc, topic |-> request[q].topic,
                         on |-> request[q].on, ahead |-> request[q].ahead \ S]
      BY <1>2, <2>3
    <3>2. [pc |-> request[q].pc, topic |-> request[q].topic,
           on |-> request[q].on, ahead |-> request[q].ahead \ S] \in RequestStates
      BY <2>1, RequestType
    <3>3. /\ request'[q].pc = request[q].pc /\ request'[q].topic = request[q].topic
          /\ request'[q].on = request[q].on
      BY <3>1
    <3> QED
      BY <3>1, <3>2, <3>3
  <2> QED
    BY <2>2, <2>3
<1> QED
  BY <1>3 DEF Settle

LEMMA CallType ==
  ASSUME TopicTypeOK, ClientTypeOK, NEW q \in Requests, Subscribe(q) \/ Unsubscribe(q)
  PROVE  TopicTypeOK'
<1> USE DEF TopicTypeOK, BrokerTypeOK
<1>1. PICK t \in Topics : \/ Unreachable(q, t)
                          \/ AtOnce(q, t, "done") /\ listed' = listed \cup {t} /\ UNCHANGED wanted
                          \/ /\ Reachable
                             /\ Sends(q, t, "subscribing") \/ Sends(q, t, "unsubscribing")
                             /\ UNCHANGED listed
                             /\ wanted' \in { [wanted EXCEPT ![client] = @ \cup {t}],
                                              [wanted EXCEPT ![client] = @ \ {t}] }
  BY DEF Subscribe, Unsubscribe
<1>2. UNCHANGED <<restoring, served, lapsed>>
  BY DEF Subscribe, Unsubscribe
<1>3. ASSUME NEW pc \in {"done", "failed"}, AtOnce(q, t, pc),
             listed' \subseteq listed \cup {t}, UNCHANGED wanted
      PROVE  TopicTypeOK'
  <2>1. request' = [request EXCEPT ![q] =
            [pc |-> pc, topic |-> t, on |-> NoClient, ahead |-> {}]]
    BY <1>3 DEF AtOnce, NotUnderway
  <2>2. [pc |-> pc, topic |-> t, on |-> NoClient, ahead |-> {}] \in RequestStates
    BY RequestType
  <2>3. pc \notin Underway
    BY DEF Underway
  <2> QED
    BY <1>2, <1>3, <2>1, <2>2, <2>3
<1>4. CASE /\ Reachable
           /\ Sends(q, t, "subscribing") \/ Sends(q, t, "unsubscribing")
           /\ UNCHANGED listed
           /\ wanted' \in { [wanted EXCEPT ![client] = @ \cup {t}],
                            [wanted EXCEPT ![client] = @ \ {t}] }
  <2>1. client \in Clients /\ UnderwayOn(client) \in SUBSET Requests
    BY <1>4 DEF Reachable, ClientTypeOK, UnderwayOn
  <2>2. wanted' \in [Clients -> SUBSET Topics]
    BY <1>4
  <2>3. PICK pc \in Underway : request' = [request EXCEPT ![q] =
            [pc |-> pc, topic |-> t, on |-> client, ahead |-> UnderwayOn(client)]]
    BY <1>4 DEF Sends, Underway
  <2> QED
    BY <1>2, <1>4, <2>1, <2>2, <2>3 DEF RequestStates
<1> QED
  BY <1>1, <1>3, <1>4 DEF Unreachable

LEMMA AckType ==
  ASSUME TopicTypeOK, NEW q \in Requests, Acked(q)
  PROVE  TopicTypeOK'
<1>1. request[q].topic \in Topics /\ request[q].on \in Clients
  BY DEF TopicTypeOK, Acked, Acknowledged
<1>2. PICK pc \in {"done", "failed"} : Settle({q}, pc)
  BY DEF Acked, Granted, Denied, Released
<1>3. /\ request' \in [Requests -> RequestStates]
      /\ \A r \in Requests : request'[r].pc \in Underway =>
           request'[r].topic \in Topics /\ request'[r].on \in Clients
  BY <1>2, SettleType
<1> QED
  BY <1>1, <1>3 DEF TopicTypeOK, BrokerTypeOK, Acked, Granted, Granting, Denied, Released

(* A connection that closes, however it does.                              *)
LEMMA TopicClosings ==
  ASSUME TopicTypeOK, NEW c \in Clients, TopicsBroken(c) \/ TopicsEnded(c) \/ TopicsSevered(c)
  PROVE  /\ Break(c) \/ EndCallback(c) \/ Sever(c)
         /\ Settle(UnderwayOn(c), "failed") /\ SessionEnds(c) /\ listed' \subseteq listed
<1>1. CASE TopicsBroken(c) \/ TopicsSevered(c)
  BY <1>1 DEF TopicsBroken, TopicsSevered, Lost, Evicted, Severed, CutOff
<1>2. CASE TopicsEnded(c)
  <2>1. UnderwayOn(c) = {} /\ request' = request
    BY <1>2 DEF TopicsEnded, Owed
  <2>2. \A q \in Requests : [request[q] EXCEPT !.ahead = @ \ {}] = request[q]
    <3>1. \A r \in RequestStates : r = [pc |-> r.pc, topic |-> r.topic, on |-> r.on, ahead |-> r.ahead]
      BY DEF RequestStates
    <3>2. \A r \in RequestStates : [r EXCEPT !.ahead = @ \ {}] = r
      BY <3>1, RequestFields
    <3> QED
      BY <3>2 DEF TopicTypeOK
  <2>3. Settle({}, "failed")
    BY <2>1, <2>2 DEF Settle, TopicTypeOK
  <2> QED
    BY <1>2, <2>1, <2>3 DEF TopicsEnded, EndDone
<1> QED
  BY <1>1, <1>2

(* The acknowledgement of a restoration.                                   *)
LEMMA TopicRestorings ==
  ASSUME NEW c \in Clients, TopicsRestored(c)
  PROVE  /\ UNCHANGED <<vars, listed, request>> /\ Connected(c) /\ restoring[c] # {}
         /\ restoring' = [restoring EXCEPT ![c] = {}]
         /\ \E granted \in SUBSET restoring[c] :
              /\ served' = IF session = c THEN served \cup granted ELSE served
              /\ \/ granted = restoring[c] /\ UNCHANGED <<wanted, lapsed>>
                 \/ /\ wanted' = [wanted EXCEPT ![c] = @ \ restoring[c]]
                    /\ lapsed' = lapsed \cup restoring[c]
<1>1. CASE RestoreGranted(c)
  BY <1>1 DEF TopicsRestored, RestoreGranted, Restoration, Connected
<1>2. CASE RestoreRefused(c)
  BY <1>2, Zenon DEF TopicsRestored, RestoreRefused, Restoration, Connected
<1> QED
  BY <1>1, <1>2 DEF TopicsRestored, RestoreAcked

LEMMA ConnectionTopicType ==
  ASSUME TopicTypeOK, NEW c \in Clients, TopicsBroken(c) \/ TopicsEnded(c) \/ TopicsSevered(c)
  PROVE  TopicTypeOK'
<1>1. Settle(UnderwayOn(c), "failed") /\ UnderwayOn(c) \in SUBSET Requests
  BY TopicClosings DEF UnderwayOn
<1>2. /\ request' \in [Requests -> RequestStates]
      /\ \A r \in Requests : request'[r].pc \in Underway =>
           request'[r].topic \in Topics /\ request'[r].on \in Clients
  BY <1>1, SettleType
<1> QED
  BY <1>2, TopicClosings DEF TopicTypeOK, BrokerTypeOK, SessionEnds

(* With the endpoints, every variable keeps its type, and a request under  *)
(* way is about a topic and on a client of the process.                    *)
THEOREM ControllerTypeCorrect == ControllerSpec => []ControllerTypeOK
<1>1. ControllerInit => TopicTypeOK
  BY DEF ControllerInit, BrokerInit, TopicTypeOK, BrokerTypeOK, RequestStates, NotUnderway, Underway
<1>2. ASSUME TypeOK, TopicTypeOK, [ControllerNext]_controllerVars
      PROVE  TopicTypeOK'
  <2>0. ClientTypeOK
    BY <1>2 DEF TypeOK
  <2>1. CASE UNCHANGED topicVars
    BY <1>2, <2>1 DEF TopicTypeOK, BrokerTypeOK, topicVars, brokerVars
  <2>2. CASE TopicsDropped
    BY <1>2, <2>2 DEF TopicTypeOK, BrokerTypeOK, TopicsDropped, brokerVars
  <2>3. ASSUME NEW c \in Clients, TopicsAccepted(c)
        PROVE  TopicTypeOK'
    BY <1>2, <2>3 DEF TopicTypeOK, BrokerTypeOK, TopicsAccepted, SessionBegins
  <2>4. ASSUME NEW c \in Clients, TopicsBroken(c) \/ TopicsEnded(c) \/ TopicsSevered(c)
        PROVE  TopicTypeOK'
    BY <1>2, <2>4, ConnectionTopicType
  <2>5. ASSUME NEW q \in Requests, Subscribe(q) \/ Unsubscribe(q) \/ Acked(q)
        PROVE  TopicTypeOK'
    BY <1>2, <2>0, <2>5, CallType, AckType
  <2>6. ASSUME NEW c \in Clients, TopicsRestored(c)
        PROVE  TopicTypeOK'
    BY <1>2, <2>6, TopicRestorings DEF TopicTypeOK, BrokerTypeOK
  <2> QED
    BY <1>2, <2>1, <2>2, <2>3, <2>4, <2>5, <2>6 DEF ControllerNext, AttemptEnded, Untouched, controllerVars
<1>3. TypeOK /\ TopicTypeOK <=> ControllerTypeOK
  BY DEF ControllerTypeOK, TopicTypeOK
<1>4. ControllerSpec => []TypeOK
  BY ControllerImplementsIngestor, TypeCorrect, PTL
<1> QED
  BY <1>1, <1>2, <1>3, <1>4, PTL DEF ControllerSpec

-----------------------------------------------------------------------------
(* The list of subscriptions, as long as the process has had one client.   *)

About(q, t) == request[q].pc \in Underway /\ request[q].topic = t

Failed(t) == \E q \in Requests : request[q].pc = "failed" /\ request[q].topic = t

(* All the other requests about t are ahead of q.                          *)
LastAbout(q, t) ==
  About(q, t) /\ \A r \in Requests \ {q} : About(r, t) => r \in request[q].ahead

RequestsInOrder ==
  \A q \in Requests : request[q].pc \in Underway =>
    /\ request[q].on \in Used /\ Connected(request[q].on)
    /\ \A r \in request[q].ahead : request[r].pc \in Underway
    /\ \A r \in UnderwayOn(request[q].on) \ {q} :
         q \in request[r].ahead \/ r \in request[q].ahead

(* What mqtt.js restores is decided by the last request that was sent ...  *)
LastDecides(t) ==
  \A q \in Requests :
    LastAbout(q, t) => (request[q].pc = "subscribing" <=> t \in wanted[request[q].on])

(* ... one half of which holds whatever a restoration has come to ...      *)
LastKept(t) ==
  \A q \in Requests :
    LastAbout(q, t) /\ t \in wanted[request[q].on] => request[q].pc = "subscribing"

(* ... and when none is under way, list, mqtt.js and broker agree.         *)
Agreed(t) ==
  (\A q \in Requests : ~About(q, t)) =>
    \A c \in Used :
      /\ t \in listed => t \in wanted[c]
      /\ session # NoClient /\ t \in wanted[c] => t \in served \cup restoring[session]

(* No request about t has failed, no restoration was refused.              *)
Undisturbed(t) == ~Failed(t) /\ t \notin lapsed

ListInv ==
  /\ session # NoClient => session \in Used
  /\ RequestsInOrder
  /\ \A c \in Clients : restoring[c] # {} => Connected(c)
  /\ Used = {} => listed = {}
  /\ SingleClient =>
       \A t \in Topics : LastKept(t) /\ (Undisturbed(t) => LastDecides(t) /\ Agreed(t))

(* Steps of the clients that close no connection and open none.            *)
LEMMA ClientsMoveList ==
  ASSUME ClientTypeOK, TopicTypeOK, ListInv, ClientStep,
         UNCHANGED <<session, brokerVars, request>>, listed' \subseteq listed,
         \A c \in Clients : Connected(c) => Connected(c)'
  PROVE  ListInv'
<1> USE DEF ListInv, brokerVars
<1>1. Used \subseteq Used' /\ (SingleClient' => SingleClient)
  BY UsedGrows
<1>2. RequestsInOrder'
  BY <1>1 DEF RequestsInOrder, UnderwayOn, Used
<1>3. \A t : /\ Undisturbed(t)' <=> Undisturbed(t)
             /\ LastDecides(t) => LastDecides(t)'
             /\ LastKept(t) => LastKept(t)'
             /\ \A q : About(q, t)' <=> About(q, t)
  BY DEF Undisturbed, Failed, LastDecides, LastKept, LastAbout, About
<1>4. CASE \E c \in Clients, caller \in Callers : Open(c, caller)
  <2>1. PICK c \in Clients, caller \in Callers : Open(c, caller)
    BY <1>4
  <2>2. c \notin Used /\ Used' = Used \cup {c}
    BY <2>1, OpenUses
  <2>3. ASSUME SingleClient' PROVE listed' = {} /\ session' = NoClient
    <3>1. Used = {}
      BY <2>2, <2>3 DEF SingleClient
    <3> QED
      BY <3>1
  <2>4. SingleClient' => \A t \in Topics : Agreed(t)'
    BY <2>3 DEF Agreed
  <2> QED
    BY <1>1, <1>2, <1>3, <2>2, <2>4
<1>5. CASE ~\E c \in Clients, caller \in Callers : Open(c, caller)
  <2>1. Used' = Used
    BY <1>5, OthersUseNone
  <2>2. \A t : Agreed(t) => Agreed(t)'
    BY <1>3, <2>1 DEF Agreed
  <2> QED
    BY <1>1, <1>2, <1>3, <2>1, <2>2
<1> QED
  BY <1>4, <1>5

LEMMA AcceptList ==
  ASSUME ClientTypeOK, TopicTypeOK, ListInv, NEW c \in Clients, TopicsAccepted(c)
  PROVE  ListInv'
<1> USE DEF ListInv
<1>1. /\ Accept(c) /\ UNCHANGED <<listed, wanted, lapsed, request>>
      /\ restoring'[c] = wanted[c] /\ \A d \in Clients \ {c} : restoring'[d] = restoring[d]
  BY DEF TopicsAccepted, Accepted, SessionBegins, TopicTypeOK, BrokerTypeOK
<1>2. /\ Used' = Used /\ c \in Used /\ session' = c
      /\ Connected(c)' /\ \A d \in Clients : Connected(d) => Connected(d)'
  <2>1. \A d \in Clients : /\ conn'[d] = "unused" <=> conn[d] = "unused"
                           /\ Connected(d) => Connected(d)'
    BY <1>1 DEF Accept, ClientTypeOK, Connected
  <2>2. conn[c] # "unused" /\ session' = c /\ Connected(c)'
    BY <1>1 DEF Accept, Connected, ClientTypeOK
  <2> QED
    BY <2>1, <2>2 DEF Used
<1>3. RequestsInOrder' /\ \A d \in Clients : restoring'[d] # {} => Connected(d)'
  BY <1>1, <1>2 DEF RequestsInOrder, UnderwayOn, Used
<1>4. \A t : /\ Undisturbed(t)' <=> Undisturbed(t)
             /\ LastDecides(t) => LastDecides(t)'
             /\ LastKept(t) => LastKept(t)'
             /\ \A q : About(q, t)' <=> About(q, t)
  BY <1>1 DEF Undisturbed, Failed, LastDecides, LastKept, LastAbout, About
<1>5. SingleClient => \A t : Agreed(t) => Agreed(t)'
  BY <1>1, <1>2, <1>4 DEF Agreed, SingleClient
<1>6. SingleClient' => SingleClient
  BY <1>2 DEF SingleClient
<1> QED
  BY <1>1, <1>2, <1>3, <1>4, <1>5, <1>6

-----------------------------------------------------------------------------
(* Requests that end.                                                      *)

LEMMA SettleEffects ==
  ASSUME TopicTypeOK, NEW S \in SUBSET Requests, NEW pc \in {"done", "failed"}, Settle(S, pc)
  PROVE  /\ \A q \in S : request'[q].pc = pc /\ request'[q].topic = request[q].topic
         /\ \A q \in Requests \ S :
              /\ request'[q].pc = request[q].pc /\ request'[q].topic = request[q].topic
              /\ request'[q].on = request[q].on /\ request'[q].ahead = request[q].ahead \ S
<1>1. ASSUME NEW q \in S
      PROVE  request'[q].pc = pc /\ request'[q].topic = request[q].topic
  BY <1>1 DEF Settle, NotUnderway
<1>2. ASSUME NEW q \in Requests \ S
      PROVE  /\ request'[q].pc = request[q].pc /\ request'[q].topic = request[q].topic
             /\ request'[q].on = request[q].on /\ request'[q].ahead = request[q].ahead \ S
  <2>1. request'[q] = [request[q] EXCEPT !.ahead = request[q].ahead \ S]
    BY <1>2 DEF Settle
  <2>2. request[q] \in RequestStates
    BY <1>2 DEF TopicTypeOK
  <2> QED
    BY <2>1, <2>2, RequestFields
<1> QED
  BY <1>1, <1>2

(* The requests that remain keep their order.                              *)
LEMMA SettleKeepsOrder ==
  ASSUME TopicTypeOK, RequestsInOrder, NEW S \in SUBSET Requests, NEW pc \in {"done", "failed"},
         Settle(S, pc), Used' = Used,
         \A q \in Requests \ S : request[q].pc \in Underway =>
                                      conn'[request[q].on] \in {"connected", "ending"}
  PROVE  RequestsInOrder'
<1>1. pc \notin Underway
  BY DEF Underway
<1> SUFFICES ASSUME NEW q \in Requests, request'[q].pc \in Underway
             PROVE  /\ request'[q].on \in Used' /\ conn'[request'[q].on] \in {"connected", "ending"}
                    /\ \A r \in request'[q].ahead : request'[r].pc \in Underway
                    /\ \A r \in UnderwayOn(request[q].on)' \ {q} :
                         q \in request'[r].ahead \/ r \in request'[q].ahead
  BY DEF RequestsInOrder, UnderwayOn, Connected
<1>2. /\ q \notin S /\ request[q].pc \in Underway
      /\ request'[q].on = request[q].on /\ request'[q].ahead = request[q].ahead \ S
  BY <1>1, SettleEffects
<1>3. request[q].on \in Used /\ conn'[request'[q].on] \in {"connected", "ending"}
  BY <1>2 DEF RequestsInOrder
<1>4. request[q].ahead \subseteq Requests
  BY <1>2, RequestFields DEF TopicTypeOK
<1>5. ASSUME NEW r \in request'[q].ahead PROVE request'[r].pc \in Underway
  BY <1>2, <1>4, <1>5, SettleEffects DEF RequestsInOrder
<1>6. ASSUME NEW r \in UnderwayOn(request[q].on)' \ {q}
      PROVE  q \in request'[r].ahead \/ r \in request'[q].ahead
  <2>1. /\ r \in Requests /\ r \notin S /\ request[r].pc \in Underway
        /\ request[r].on = request[q].on /\ request'[r].ahead = request[r].ahead \ S
    BY <1>1, <1>2, <1>6, SettleEffects DEF UnderwayOn
  <2>2. q \in request[r].ahead \/ r \in request[q].ahead
    BY <1>2, <1>6, <2>1 DEF RequestsInOrder, UnderwayOn
  <2> QED
    BY <1>2, <2>1, <2>2
<1> QED
  BY <1>2, <1>3, <1>5, <1>6

(* A connection that closes takes all its requests with it.                *)
LEMMA CloseList ==
  ASSUME ClientTypeOK, TopicTypeOK, ListInv, NEW c \in Clients,
         TopicsBroken(c) \/ TopicsEnded(c) \/ TopicsSevered(c)
  PROVE  ListInv'
<1> USE DEF ListInv
<1>1. /\ Break(c) \/ EndCallback(c) \/ Sever(c)
      /\ Settle(UnderwayOn(c), "failed") /\ UnderwayOn(c) \in SUBSET Requests
      /\ UNCHANGED <<wanted, lapsed>> /\ listed' \subseteq listed
      /\ restoring'[c] = {} /\ \A d \in Clients \ {c} : restoring'[d] = restoring[d]
  BY TopicClosings DEF SessionEnds, UnderwayOn, TopicTypeOK, BrokerTypeOK
<1>2. /\ Used' = Used /\ c \in Used
      /\ \A d \in Clients \ {c} : Connected(d) => Connected(d)'
      /\ session' = IF session = c THEN NoClient ELSE session
  <2>1. /\ \A d \in Clients : conn'[d] = "unused" <=> conn[d] = "unused"
        /\ \A d \in Clients \ {c} : Connected(d) => Connected(d)'
    BY <1>1 DEF Break, EndCallback, Sever, ClientTypeOK, Connected
  <2>2. conn[c] # "unused" /\ session' = IF session = c THEN NoClient ELSE session
    BY <1>1 DEF Break, EndCallback, Sever
  <2> QED
    BY <2>1, <2>2 DEF Used
<1>3. ASSUME NEW q \in Requests \ UnderwayOn(c), request[q].pc \in Underway
      PROVE  conn'[request[q].on] \in {"connected", "ending"}
  BY <1>2, <1>3 DEF RequestsInOrder, UnderwayOn, Used, Connected
<1>4. RequestsInOrder' /\ \A d \in Clients : restoring'[d] # {} => Connected(d)'
  BY <1>1, <1>2, <1>3, SettleKeepsOrder
<1>5. ASSUME SingleClient, NEW t \in Topics
      PROVE  LastKept(t)' /\ (Undisturbed(t)' => LastDecides(t)' /\ Agreed(t)')
  <2>1. session' = NoClient
    BY <1>2, <1>5 DEF SingleClient
  <2>2. \A q \in Requests : request[q].pc \in Underway => q \in UnderwayOn(c)
    BY <1>2, <1>5 DEF SingleClient, RequestsInOrder, UnderwayOn
  <2>3. \A q \in Requests : request'[q].pc \notin Underway
    BY <1>1, <2>2, SettleEffects DEF Underway
  <2>4. Undisturbed(t)' => \A q \in Requests : ~About(q, t)
    BY <1>1, <2>2, SettleEffects DEF About, Undisturbed, Failed
  <2>5. Undisturbed(t)' => Undisturbed(t)
    <3>1. ASSUME NEW q \in Requests, request[q].pc = "failed", request[q].topic = t PROVE Failed(t)'
      <4>1. q \notin UnderwayOn(c)
        BY <3>1 DEF UnderwayOn, Underway
      <4> QED
        BY <1>1, <3>1, <4>1, SettleEffects DEF Failed
    <3> QED
      BY <1>1, <3>1 DEF Undisturbed, Failed
  <2>6. Undisturbed(t)' => \A d \in Used : t \in listed => t \in wanted[d]
    BY <1>5, <2>4, <2>5 DEF Agreed
  <2> QED
    BY <1>1, <1>2, <2>1, <2>3, <2>6 DEF LastDecides, LastKept, LastAbout, About, Agreed
<1>6. SingleClient' => SingleClient
  BY <1>2 DEF SingleClient
<1> QED
  BY <1>1, <1>2, <1>4, <1>5, <1>6

(* A restoration is answered: granted, it is served; refused, lapsed.      *)
LEMMA RestoredList ==
  ASSUME ClientTypeOK, TopicTypeOK, ListInv, NEW c \in Clients, TopicsRestored(c)
  PROVE  ListInv'
<1> USE DEF ListInv
<1>1. /\ UNCHANGED <<client, conn, session, listed, request>> /\ Used' = Used /\ c \in Used
      /\ \A d \in Clients : restoring'[d] = IF d = c THEN {} ELSE restoring[d]
  BY TopicRestorings DEF vars, clientVars, Used, Connected, TopicTypeOK, BrokerTypeOK
<1>2. PICK granted \in SUBSET restoring[c] :
        /\ served' = IF session = c THEN served \cup granted ELSE served
        /\ \/ granted = restoring[c] /\ UNCHANGED <<wanted, lapsed>>
           \/ /\ wanted' = [wanted EXCEPT ![c] = @ \ restoring[c]]
              /\ lapsed' = lapsed \cup restoring[c]
  BY TopicRestorings
<1>3. \A d \in Clients : /\ wanted'[d] \subseteq wanted[d]
                         /\ \A t : t \notin lapsed' => (t \in wanted'[d] <=> t \in wanted[d])
  BY <1>2 DEF TopicTypeOK, BrokerTypeOK
<1>4. RequestsInOrder' /\ \A d \in Clients : restoring'[d] # {} => Connected(d)'
  BY <1>1 DEF RequestsInOrder, UnderwayOn, Connected
<1>5. \A t : /\ Undisturbed(t)' => Undisturbed(t)
             /\ \A q : About(q, t)' <=> About(q, t)
             /\ \A q : LastAbout(q, t)' <=> LastAbout(q, t)
  BY <1>1, <1>2 DEF Undisturbed, Failed, About, LastAbout
<1>6. \A q \in Requests : \A t : LastAbout(q, t) => request[q].on \in Clients
  BY DEF LastAbout, About, TopicTypeOK
<1>7. ASSUME SingleClient, NEW t \in Topics
      PROVE  LastKept(t)' /\ (Undisturbed(t)' => LastDecides(t)' /\ Agreed(t)')
  <2>1. LastKept(t)'
    BY <1>1, <1>3, <1>5, <1>6, <1>7 DEF LastKept
  <2>2. Undisturbed(t)' => LastDecides(t)'
    BY <1>1, <1>3, <1>5, <1>6, <1>7 DEF LastDecides, Undisturbed
  <2>3. ASSUME Undisturbed(t)' PROVE Agreed(t)'
    <3>1. Undisturbed(t) /\ Agreed(t) /\ t \notin lapsed'
      BY <1>5, <1>7, <2>3 DEF Undisturbed
    <3>2. session # NoClient => session = c
      BY <1>1, <1>7 DEF SingleClient
    <3>3. session # NoClient /\ t \in served \cup restoring[session] => t \in served'
      BY <1>2, <3>1, <3>2
    <3> QED
      BY <1>1, <1>3, <1>5, <3>1, <3>3 DEF Agreed, Used
  <2> QED
    BY <2>1, <2>2, <2>3
<1>8. SingleClient' => SingleClient
  BY <1>1 DEF SingleClient
<1> QED
  BY <1>1, <1>4, <1>7, <1>8

(* An acknowledgement, of the request all the others are behind.           *)
LEMMA AckList ==
  ASSUME ClientTypeOK, TopicTypeOK, ListInv, NEW q \in Requests, Acked(q)
  PROVE  ListInv'
<1> USE DEF ListInv
<1> DEFINE t == request[q].topic
           c == request[q].on
<1>1. /\ request[q].pc \in Underway /\ request[q].ahead = {} /\ restoring[c] = {}
      /\ c \in Used /\ c \in Clients /\ t \in Topics
  BY DEF Acked, Acknowledged, Answers, RequestsInOrder, TopicTypeOK
<1>2. /\ Granted(q) \/ Denied(q) \/ Released(q)
      /\ Used' = Used /\ session' = session /\ conn' = conn /\ restoring' = restoring
  BY DEF Acked, vars, clientVars, Used
<1>3. PICK pc \in {"done", "failed"} : Settle({q}, pc)
  BY <1>2 DEF Granted, Denied, Released
<1>4. RequestsInOrder' /\ \A d \in Clients : restoring'[d] # {} => Connected(d)'
  <2>1. \A r \in Requests \ {q} : request[r].pc \in Underway =>
          conn'[request[r].on] \in {"connected", "ending"}
    BY <1>2 DEF RequestsInOrder, Connected
  <2> QED
    BY <1>2, <1>3, <2>1, SettleKeepsOrder DEF Connected
<1>5. /\ request'[q].pc = pc /\ request'[q].topic = t
      /\ \A r \in Requests \ {q} :
           /\ request'[r].pc = request[r].pc /\ request'[r].topic = request[r].topic
           /\ request'[r].on = request[r].on /\ request'[r].ahead = request[r].ahead \ {q}
  BY <1>3, SettleEffects
<1> HIDE DEF t, c
<1>6. Used = {} => listed' = {}
  BY <1>1
<1>7. \A x : ~Failed(x)' => ~Failed(x)
  <2>1. request[q].pc # "failed"
    BY <1>1 DEF Underway
  <2> QED
    BY <1>5, <2>1 DEF Failed
<1>8. \A x : \A r \in Requests : About(r, x)' <=> (r # q /\ About(r, x))
  BY <1>5 DEF About, Underway
<1>9. ASSUME SingleClient, NEW x \in Topics, NEW r \in Requests, LastAbout(r, x)'
      PROVE  LastAbout(r, x) /\ r # q
  <2>1. r # q /\ About(r, x)
    BY <1>8, <1>9 DEF LastAbout
  <2>2. q \in request[r].ahead
    <3>1. request[r].pc \in Underway /\ request[r].on = request[q].on
      BY <1>1, <1>9, <2>1 DEF About, RequestsInOrder, SingleClient
    <3>2. r \in UnderwayOn(request[q].on) \ {q}
      BY <2>1, <3>1 DEF UnderwayOn
    <3> QED
      BY <1>1, <3>2 DEF RequestsInOrder
  <2>3. ASSUME NEW z \in Requests \ {r}, About(z, x) PROVE z \in request[r].ahead
    <3>1. CASE z = q BY <2>2, <3>1
    <3>2. CASE z # q
      <4>1. About(z, x)'
        BY <1>8, <2>3, <3>2
      <4>2. z \in request'[r].ahead
        BY <1>9, <2>3, <4>1 DEF LastAbout
      <4> QED
        BY <1>5, <2>1, <4>2
    <3> QED BY <3>1, <3>2
  <2> QED
    BY <2>1, <2>3 DEF LastAbout
<1>10. SingleClient => (session # NoClient => session = c) /\ \A d \in Used : d = c
  BY <1>1 DEF SingleClient, t, c
<1>11. ASSUME SingleClient, NEW x \in Topics
       PROVE  LastKept(x)'
  <2> SUFFICES ASSUME NEW r \in Requests, LastAbout(r, x)', x \in wanted'[request'[r].on]
               PROVE  request'[r].pc = "subscribing"
    BY DEF LastKept
  <2>1. LastAbout(r, x) /\ r # q /\ LastKept(x)
    BY <1>9, <1>11
  <2>2. request'[r].pc = request[r].pc /\ request'[r].on = request[r].on /\ request[r].on \in Clients
    BY <1>5, <2>1 DEF LastAbout, About, TopicTypeOK
  <2>3. \A d \in Clients : wanted'[d] \subseteq wanted[d]
    BY <1>2 DEF Granted, Denied, Released, TopicTypeOK, BrokerTypeOK
  <2> QED
    BY <2>1, <2>2, <2>3 DEF LastKept
(* With a grant of a topic that mqtt.js still wants, what a refused        *)
(* restoration had disturbed is in order again.                            *)
<1>12. ASSUME SingleClient, Granted(q), NEW x \in Topics, x = t, x \in lapsed, x \notin lapsed'
       PROVE  LastDecides(x)' /\ Agreed(x)'
  <2>1. /\ wanted' = wanted /\ x \in wanted[c] /\ x \in listed'
        /\ served' = IF session = c THEN served \cup {x} ELSE served
    BY <1>12 DEF Granted, Granting, t, c
  <2>2. LastDecides(x)'
    <3> SUFFICES ASSUME NEW r \in Requests, LastAbout(r, x)'
                 PROVE  request'[r].pc = "subscribing" /\ x \in wanted'[request'[r].on]
      BY DEF LastDecides
    <3>1. LastAbout(r, x) /\ r # q /\ LastKept(x)
      BY <1>9, <1>12
    <3>2. request[r].on = c
      BY <1>10, <1>12, <3>1 DEF LastAbout, About, RequestsInOrder
    <3> QED
      BY <1>5, <2>1, <3>1, <3>2 DEF LastKept
  <2>3. Agreed(x)'
    BY <1>2, <1>10, <1>12, <2>1 DEF Agreed
  <2> QED
    BY <2>2, <2>3
<1>13. ASSUME SingleClient, Granted(q) \/ Released(q), NEW x \in Topics, Undisturbed(x)', Undisturbed(x)
       PROVE  LastDecides(x)' /\ Agreed(x)'
  <2>1. wanted' = wanted /\ LastDecides(x) /\ Agreed(x)
    BY <1>13 DEF Granted, Released
  <2>2. LastDecides(x)'
    <3> SUFFICES ASSUME NEW r \in Requests, LastAbout(r, x)'
                 PROVE  request'[r].pc = "subscribing" <=> x \in wanted'[request'[r].on]
      BY DEF LastDecides
    <3>1. LastAbout(r, x) /\ r # q
      BY <1>9, <1>13
    <3> QED
      BY <1>5, <2>1, <3>1 DEF LastDecides
  <2>3. CASE x # t
    <3>1. /\ x \in listed' <=> x \in listed
          /\ x \in served => x \in served'
      BY <1>13, <2>3 DEF Granted, Granting, Released, t
    <3>2. (\A r \in Requests : ~About(r, x)') => (\A r \in Requests : ~About(r, x))
      BY <1>8, <2>3 DEF About, t
    <3> QED
      BY <1>2, <2>1, <2>2, <3>1, <3>2 DEF Agreed
  <2>4. CASE x = t
    <3> SUFFICES ASSUME \A r \in Requests : ~About(r, x)'
                 PROVE  \A d \in Used' : /\ x \in listed' => x \in wanted'[d]
                                         /\ session' # NoClient /\ x \in wanted'[d] =>
                                              x \in served' \cup restoring'[session']
      BY <2>2 DEF Agreed
    <3>1. \A r \in Requests \ {q} : ~About(r, x)
      BY <1>8
    <3>2. LastAbout(q, x)
      BY <1>1, <2>4, <3>1 DEF LastAbout, About, t
    <3>3. request[q].pc = "subscribing" <=> x \in wanted[c]
      BY <2>1, <3>2 DEF LastDecides, c
    <3>4. CASE Granted(q)
      <4>1. x \in wanted[c] /\ (session = c => x \in served')
        BY <2>4, <3>3, <3>4 DEF Granted, Granting, t, c
      <4> QED
        BY <1>2, <1>10, <1>13, <2>1, <4>1
    <3>5. CASE Released(q)
      <4>1. x \notin wanted[c] /\ x \notin listed'
        BY <2>4, <3>3, <3>5 DEF Released, t
      <4> QED
        BY <1>2, <1>10, <1>13, <2>1, <4>1
    <3> QED
      BY <1>13, <3>4, <3>5
  <2> QED
    BY <2>3, <2>4
<1>14. ASSUME SingleClient, Denied(q), NEW x \in Topics, Undisturbed(x)', Undisturbed(x)
       PROVE  LastDecides(x)' /\ Agreed(x)'
  <2>1. LastDecides(x) /\ Agreed(x) /\ UNCHANGED <<listed, served>>
    BY <1>14 DEF Denied
  <2>2. request'[q].pc = "failed"
    <3>1. Settle({q}, "failed")
      BY <1>14 DEF Denied
    <3> QED
      BY <3>1, SettleEffects
  <2>3. x # t
    BY <1>5, <1>14, <2>2 DEF Undisturbed, Failed
  <2>4. \A d \in Clients : x \in wanted'[d] <=> x \in wanted[d]
    BY <1>14, <2>3 DEF Denied, TopicTypeOK, BrokerTypeOK, t
  <2>5. LastDecides(x)'
    <3> SUFFICES ASSUME NEW r \in Requests, LastAbout(r, x)'
                 PROVE  request'[r].pc = "subscribing" <=> x \in wanted'[request'[r].on]
      BY DEF LastDecides
    <3>1. LastAbout(r, x) /\ r # q
      BY <1>9, <1>14
    <3>2. request[r].on \in Clients
      BY <3>1 DEF LastAbout, About, TopicTypeOK
    <3> QED
      BY <1>5, <2>1, <2>4, <3>1, <3>2 DEF LastDecides
  <2>6. (\A r \in Requests : ~About(r, x)') => (\A r \in Requests : ~About(r, x))
    BY <1>8, <2>3 DEF About, t
  <2> QED
    BY <1>2, <2>1, <2>4, <2>5, <2>6 DEF Agreed, Used
<1>15. ASSUME SingleClient, NEW x \in Topics, Undisturbed(x)'
       PROVE  LastDecides(x)' /\ Agreed(x)'
  <2>1. ~Failed(x) /\ ~Failed(x)' /\ x \notin lapsed'
    BY <1>7, <1>15 DEF Undisturbed
  <2>2. x \in lapsed => x = t /\ Granted(q)
    BY <1>2, <2>1 DEF Granted, Granting, Denied, Released, t
  <2>3. CASE x \in lapsed
    BY <1>12, <1>15, <2>1, <2>2, <2>3
  <2>4. CASE x \notin lapsed
    BY <1>2, <1>13, <1>14, <1>15, <2>1, <2>4 DEF Undisturbed
  <2> QED
    BY <2>3, <2>4
<1>16. SingleClient' => SingleClient
  BY <1>2 DEF SingleClient
<1> QED
  BY <1>1, <1>2, <1>4, <1>6, <1>11, <1>15, <1>16

-----------------------------------------------------------------------------
(* Requests that begin.                                                    *)

(* A call that is answered at once, whatever the answer.                   *)
LEMMA AtOnceList ==
  ASSUME ClientTypeOK, TopicTypeOK, ListInv, NEW q \in Requests, NEW t \in Topics,
         NEW pc \in {"done", "failed"},
         request[q].pc = "idle", AtOnce(q, t, pc), UNCHANGED <<vars, brokerVars>>,
         \/ listed' = listed
         \/ Reachable /\ t \in wanted[client] /\ listed' = listed \cup {t}
  PROVE  ListInv'
<1> USE DEF ListInv, brokerVars
<1>1. /\ request'[q].pc = pc /\ request'[q].topic = t
      /\ \A r \in Requests \ {q} : request'[r] = request[r]
  BY DEF AtOnce, NotUnderway, TopicTypeOK
<1>2. Used' = Used /\ session' = session /\ conn' = conn
  BY DEF vars, clientVars, Used
<1>3. \A r \in Requests : request'[r].pc \in Underway <=> r # q /\ request[r].pc \in Underway
  BY <1>1 DEF Underway
<1>4. RequestsInOrder' /\ \A d \in Clients : restoring'[d] # {} => Connected(d)'
  <2> SUFFICES ASSUME NEW r \in Requests, request'[r].pc \in Underway
               PROVE  /\ request'[r].on \in Used' /\ conn'[request'[r].on] \in {"connected", "ending"}
                      /\ \A z \in request'[r].ahead : request'[z].pc \in Underway
                      /\ \A z \in UnderwayOn(request[r].on)' \ {r} :
                           r \in request'[z].ahead \/ z \in request'[r].ahead
    BY <1>2 DEF RequestsInOrder, UnderwayOn, Connected
  <2>1. r # q /\ request[r].pc \in Underway /\ request'[r] = request[r]
    BY <1>1, <1>3
  <2>2. request[r].ahead \subseteq Requests
    BY <2>1, RequestFields DEF TopicTypeOK
  <2>3. \A z \in request[r].ahead : z # q /\ request'[z].pc \in Underway
    BY <1>1, <2>1, <2>2 DEF RequestsInOrder, Underway
  <2>4. ASSUME NEW z \in UnderwayOn(request[r].on)' \ {r}
        PROVE  r \in request'[z].ahead \/ z \in request'[r].ahead
    <3>1. z # q /\ z \in UnderwayOn(request[r].on) \ {r} /\ request'[z] = request[z]
      BY <1>1, <1>3, <2>1, <2>4 DEF UnderwayOn
    <3> QED
      BY <2>1, <3>1 DEF RequestsInOrder
  <2> QED
    BY <1>2, <2>1, <2>3, <2>4 DEF RequestsInOrder, Connected
<1>5. \A x : \A r \in Requests : About(r, x)' <=> About(r, x)
  BY <1>1, <1>3 DEF About, Underway
<1>6. \A x : Undisturbed(x)' => Undisturbed(x)
  BY <1>1 DEF Undisturbed, Failed
<1>7. \A x : /\ LastDecides(x) => LastDecides(x)'
             /\ LastKept(x) => LastKept(x)'
  <2>1. ASSUME NEW x, NEW r \in Requests, LastAbout(r, x)'
        PROVE  LastAbout(r, x) /\ request'[r] = request[r]
    <3>1. r # q /\ request'[r] = request[r]
      BY <1>1, <1>3, <2>1 DEF LastAbout, About
    <3> QED
      BY <1>5, <2>1, <3>1 DEF LastAbout
  <2> QED
    BY <2>1 DEF LastDecides, LastKept
<1>8. SingleClient => \A x : Agreed(x) => Agreed(x)'
  <2>1. Reachable => client \in Used
    BY DEF Reachable, Used, ClientTypeOK
  <2>2. SingleClient => \A x \in listed' : x \in listed \/ \A d \in Used : x \in wanted[d]
    BY <2>1 DEF SingleClient
  <2> QED
    BY <1>2, <1>5, <2>2 DEF Agreed
<1>9. Used' = {} => listed' = {}
  BY <1>2 DEF Reachable, Used, ClientTypeOK
<1>10. SingleClient' => SingleClient
  BY <1>2 DEF SingleClient
<1> QED
  BY <1>2, <1>4, <1>6, <1>7, <1>8, <1>9, <1>10

(* A call that sends a request: it is now the last one about its topic.    *)
LEMMA SendsList ==
  ASSUME ClientTypeOK, TopicTypeOK, ListInv, NEW q \in Requests, NEW t \in Topics,
         NEW pc \in Underway,
         request[q].pc = "idle", Reachable, Sends(q, t, pc), UNCHANGED <<vars, listed, restoring, served, lapsed>>,
         wanted' = [wanted EXCEPT ![client] =
                      IF pc = "subscribing" THEN @ \cup {t} ELSE @ \ {t}]
  PROVE  ListInv'
<1> USE DEF ListInv
<1>1. /\ request'[q] = [pc |-> pc, topic |-> t, on |-> client, ahead |-> UnderwayOn(client)]
      /\ \A r \in Requests \ {q} : request'[r] = request[r]
  BY DEF Sends, TopicTypeOK
<1>2. /\ Used' = Used /\ session' = session /\ conn' = conn
      /\ client \in Used /\ Connected(client)
  BY DEF vars, clientVars, Used, Reachable, ClientTypeOK, Connected
<1>3. \A r \in Requests : request'[r].pc \in Underway <=> r = q \/ request[r].pc \in Underway
  BY <1>1
<1>4. q \notin UnderwayOn(client) /\ UnderwayOn(client) \subseteq Requests
  BY DEF UnderwayOn, Underway
<1>5. ASSUME NEW r \in Requests, request[r].pc \in Underway
      PROVE  r # q /\ request[r].ahead \subseteq Requests \ {q}
  <2>1. request[r].ahead \subseteq Requests
    BY <1>5, RequestFields DEF TopicTypeOK
  <2> QED
    BY <1>5, <2>1 DEF RequestsInOrder, Underway
<1>6. RequestsInOrder' /\ \A d \in Clients : restoring'[d] # {} => Connected(d)'
  <2> SUFFICES ASSUME NEW r \in Requests, request'[r].pc \in Underway
               PROVE  /\ request'[r].on \in Used' /\ conn'[request'[r].on] \in {"connected", "ending"}
                      /\ \A z \in request'[r].ahead : request'[z].pc \in Underway
                      /\ \A z \in Requests \ {r} :
                           request'[z].pc \in Underway /\ request'[z].on = request'[r].on =>
                             r \in request'[z].ahead \/ z \in request'[r].ahead
    BY <1>2 DEF RequestsInOrder, UnderwayOn, Connected
  <2>1. CASE r = q
    <3>1. \A z \in UnderwayOn(client) : request'[z].pc \in Underway
      BY <1>3, <1>4 DEF UnderwayOn
    <3>2. ASSUME NEW z \in Requests \ {q}, request'[z].pc \in Underway, request'[z].on = client
          PROVE  z \in UnderwayOn(client)
      BY <1>1, <3>2 DEF UnderwayOn
    <3> QED
      BY <1>1, <1>2, <2>1, <3>1, <3>2 DEF Connected
  <2>2. CASE r # q
    <3>1. request[r].pc \in Underway /\ request'[r] = request[r]
      BY <1>1, <2>2
    <3>2. \A z \in request[r].ahead : request'[z].pc \in Underway
      BY <1>1, <1>5, <3>1 DEF RequestsInOrder
    <3>3. ASSUME NEW z \in Requests \ {r}, request'[z].pc \in Underway,
                 request'[z].on = request'[r].on
          PROVE  r \in request'[z].ahead \/ z \in request'[r].ahead
      <4>1. CASE z = q
        BY <1>1, <3>1, <3>3, <4>1 DEF UnderwayOn
      <4>2. CASE z # q
        BY <1>1, <3>1, <3>3, <4>2 DEF RequestsInOrder, UnderwayOn
      <4> QED BY <4>1, <4>2
    <3> QED
      BY <1>2, <3>1, <3>2, <3>3 DEF RequestsInOrder, Connected
  <2> QED
    BY <2>1, <2>2
<1>7. \A x : \A r \in Requests \ {q} : About(r, x)' <=> About(r, x)
  BY <1>1 DEF About
<1>8. About(q, t)' /\ \A x : About(q, x)' => x = t
  BY <1>1 DEF About
<1>9. \A x : Undisturbed(x)' => Undisturbed(x)
  <2>1. \A r \in Requests : request[r].pc = "failed" => request'[r] = request[r]
    BY <1>1
  <2> QED
    BY <2>1 DEF Undisturbed, Failed
<1>10. \A x : \A d \in Clients : x # t => (x \in wanted'[d] <=> x \in wanted[d])
  BY DEF TopicTypeOK, BrokerTypeOK
<1>11. t \in wanted'[client] <=> pc = "subscribing"
  BY <1>2 DEF TopicTypeOK, BrokerTypeOK, Used
<1>12. ASSUME NEW x \in Topics, NEW r \in Requests, LastAbout(r, x)'
       PROVE  \/ request'[r].pc = "subscribing" <=> x \in wanted'[request'[r].on]
              \/ /\ LastAbout(r, x) /\ request'[r] = request[r]
                 /\ x \in wanted'[request[r].on] <=> x \in wanted[request[r].on]
  <2>1. CASE r = q
    BY <1>1, <1>8, <1>11, <1>12, <2>1 DEF LastAbout
  <2>2. CASE r # q
    <3>1. About(r, x) /\ request'[r] = request[r] /\ request[r].pc \in Underway
      BY <1>1, <1>7, <1>12, <2>2 DEF LastAbout, About
    <3>2. x # t
      BY <1>5, <1>8, <1>12, <2>2, <3>1 DEF LastAbout
    <3>3. LastAbout(r, x)
      BY <1>5, <1>7, <1>12, <3>1 DEF LastAbout, About, Underway
    <3>4. request[r].on \in Clients
      BY <3>1 DEF TopicTypeOK
    <3> QED
      BY <1>10, <3>1, <3>2, <3>3, <3>4
  <2> QED
    BY <2>1, <2>2
<1>13. ASSUME NEW x \in Topics, Agreed(x)
       PROVE  Agreed(x)'
  <2>1. CASE x = t
    BY <1>8, <2>1 DEF Agreed
  <2>2. CASE x # t
    <3>1. (\A r \in Requests : ~About(r, x)') => (\A r \in Requests : ~About(r, x))
      BY <1>7 DEF About, Underway
    <3> QED
      BY <1>2, <1>10, <1>13, <2>2, <3>1 DEF Agreed, Used
  <2> QED
    BY <2>1, <2>2
<1>14. SingleClient' => SingleClient
  BY <1>2 DEF SingleClient
<1>15. ASSUME NEW x \in Topics
       PROVE  /\ LastDecides(x) => LastDecides(x)'
              /\ LastKept(x) => LastKept(x)'
  BY <1>12 DEF LastDecides, LastKept
<1>16. ASSUME NEW x \in Topics PROVE Agreed(x) => Agreed(x)'
  BY <1>13
<1>17. ASSUME SingleClient', NEW x \in Topics
       PROVE  LastKept(x)' /\ (Undisturbed(x)' => LastDecides(x)' /\ Agreed(x)')
  <2>1. LastKept(x) /\ (Undisturbed(x) => LastDecides(x) /\ Agreed(x))
    BY <1>14, <1>17
  <2>2. Undisturbed(x)' => Undisturbed(x)
    BY <1>9
  <2>3. LastKept(x)'
    BY <2>1, <1>15
  <2>4. LastDecides(x) => LastDecides(x)'
    BY <1>15
  <2>5. Agreed(x) => Agreed(x)'
    BY <1>16
  <2> QED
    BY <2>1, <2>2, <2>3, <2>4, <2>5
<1>18. /\ session' # NoClient => session' \in Used'
       /\ Used' = {} => listed' = {}
  BY <1>2
<1> QED
  BY <1>6, <1>17, <1>18

LEMMA CallList ==
  ASSUME ClientTypeOK, TopicTypeOK, ListInv, NEW q \in Requests, Subscribe(q) \/ Unsubscribe(q)
  PROVE  ListInv'
<1>1. request[q].pc = "idle" /\ UNCHANGED <<vars, restoring, served, lapsed>>
  BY DEF Subscribe, Unsubscribe, Call
<1>2. ASSUME NEW t \in Topics, Unreachable(q, t) PROVE ListInv'
  BY <1>1, <1>2, AtOnceList DEF Unreachable, brokerVars
<1>3. ASSUME NEW t \in Topics, Reachable, t \in wanted[client], AtOnce(q, t, "done"),
             listed' = listed \cup {t}, UNCHANGED wanted
      PROVE  ListInv'
  BY <1>1, <1>3, AtOnceList DEF brokerVars
<1>4. ASSUME NEW t \in Topics, Reachable, Sends(q, t, "subscribing"), UNCHANGED listed,
             wanted' = [wanted EXCEPT ![client] = @ \cup {t}]
      PROVE  ListInv'
  BY <1>1, <1>4, SendsList DEF Underway
<1>5. ASSUME NEW t \in Topics, Reachable, Sends(q, t, "unsubscribing"), UNCHANGED listed,
             wanted' = [wanted EXCEPT ![client] = @ \ {t}]
      PROVE  ListInv'
  BY <1>1, <1>5, SendsList DEF Underway
<1> QED
  BY <1>2, <1>3, <1>4, <1>5 DEF Subscribe, Unsubscribe

LEMMA ListStep ==
  ASSUME TypeOK, TopicTypeOK, ListInv, [ControllerNext]_controllerVars
  PROVE  ListInv'
<1>0. ClientTypeOK /\ ClientStep
  BY ControllerStepIsIngestorStep, NextIsClientStep DEF TypeOK
<1>1. CASE \/ UNCHANGED controllerVars \/ TopicsDropped
           \/ Untouched(OnModuleInit) \/ Untouched(ApiConnect) \/ Untouched(ReconnectTimer)
           \/ \E c \in Clients : \/ Untouched(Dialled(c))
                                 \/ (Refused(c) \/ ClosedSilently(c)) /\ UNCHANGED topicVars
  <2>1. UNCHANGED <<brokerVars, request>> /\ listed' \subseteq listed
    BY <1>1 DEF controllerVars, topicVars, TopicsDropped, Untouched
  <2>2. session' = session /\ \A c \in Clients : Connected(c) => Connected(c)'
    <3>1. CASE UNCHANGED controllerVars
      BY <3>1 DEF controllerVars, vars, clientVars, Connected
    <3>2. CASE TopicsDropped
      BY <1>0, <3>2 DEF TopicsDropped, AnyDisconnect, ApiDisconnect, OnModuleDestroy,
                        OnApplicationShutdown, DisconnectFrom, BeginEnd, Release, Connected,
                        ClientTypeOK
    <3>3. CASE Untouched(OnModuleInit) \/ Untouched(ApiConnect) \/ Untouched(ReconnectTimer)
      BY <1>0, <3>3 DEF Untouched, OnModuleInit, ApiConnect, ReconnectTimer, ConnectFrom, Open,
                        clientVars, Connected, ClientTypeOK
    <3>4. ASSUME NEW c \in Clients, Untouched(Dialled(c)) \/ Refused(c) \/ ClosedSilently(c)
          PROVE  session' = session /\ \A d \in Clients : Connected(d) => Connected(d)'
      BY <1>0, <3>4 DEF Untouched, Dialled, Dial, Refused, Refuse, ClosedSilently, DropSilently,
                        Connected, ClientTypeOK
    <3> QED
      BY <1>1, <3>1, <3>2, <3>3, <3>4
  <2> QED
    BY <1>0, <2>1, <2>2, ClientsMoveList
<1>2. ASSUME NEW c \in Clients, TopicsAccepted(c) PROVE ListInv'
  BY <1>0, <1>2, AcceptList
<1>3. ASSUME NEW c \in Clients, TopicsBroken(c) \/ TopicsEnded(c) \/ TopicsSevered(c)
      PROVE  ListInv'
  BY <1>0, <1>3, CloseList
<1>4. ASSUME NEW q \in Requests, Subscribe(q) \/ Unsubscribe(q) PROVE ListInv'
  BY <1>0, <1>4, CallList
<1>5. ASSUME NEW q \in Requests, Acked(q) PROVE ListInv'
  BY <1>0, <1>5, AckList
<1>6. ASSUME NEW c \in Clients, TopicsRestored(c) PROVE ListInv'
  BY <1>0, <1>6, RestoredList
<1> QED
  BY <1>1, <1>2, <1>3, <1>4, <1>5, <1>6 DEF ControllerNext, AttemptEnded

LEMMA ListInvAlways ==
  ControllerSpec => [](TypeOK /\ TopicTypeOK /\ ListInv /\ IsFiniteSet(Used))
<1> DEFINE IInv == ListInv /\ IsFiniteSet(Used)
<1>1. ControllerInit => IInv
  <2> SUFFICES ASSUME ControllerInit PROVE IInv
    OBVIOUS
  <2>1. Used = {} /\ session = NoClient /\ listed = {} /\ \A c \in Clients : restoring[c] = {}
    BY DEF ControllerInit, BrokerInit, Init, ClientInit, Used
  <2>2. \A q \in Requests : request[q].pc \notin Underway
    BY DEF ControllerInit, NotUnderway, Underway
  <2>3. \A q \in Requests : \A t : ~About(q, t)
    BY <2>2 DEF About
  <2> QED
    BY <2>1, <2>2, <2>3, FS_EmptySet
       DEF ListInv, RequestsInOrder, LastDecides, LastKept, LastAbout, Agreed
<1>2. TypeOK /\ TopicTypeOK /\ IInv /\ [ControllerNext]_controllerVars => IInv'
  <2>1. TypeOK /\ [ControllerNext]_controllerVars => ClientTypeOK /\ ClientStep
    BY ControllerStepIsIngestorStep, NextIsClientStep DEF TypeOK
  <2> QED
    BY <2>1, ListStep, UsedFinite
<1>3. ControllerSpec => [](TypeOK /\ TopicTypeOK)
  <2>1. ControllerTypeOK => TypeOK /\ TopicTypeOK
    BY DEF ControllerTypeOK, TopicTypeOK
  <2> QED
    BY <2>1, ControllerTypeCorrect, PTL
<1> QED
  BY <1>1, <1>2, <1>3, PTL DEF ControllerSpec

(* For any number of topics and calls, and however they overlap with each  *)
(* other, with disconnect(), with losses of the connection and with the    *)
(* restorations that follow: as long as the process has had one client,    *)
(* GET /subscriptions lists what the broker delivers or is being asked for *)
(* again, but for topics with a request under way or failed and for those  *)
(* the broker has refused to restore.                                      *)
THEOREM ListAlwaysServed == ControllerSpec => []ListedIsServed
<1>1. TopicTypeOK /\ ListInv /\ IsFiniteSet(Used) => ListedIsServed
  <2> SUFFICES ASSUME TopicTypeOK, ListInv, IsFiniteSet(Used), Cardinality(Used) =< 1,
                      session # NoClient, NEW t \in listed, t \notin lapsed, ~Disturbed(t)
               PROVE  t \in served \cup restoring[session]
    BY DEF ListedIsServed
  <2>1. SingleClient
    BY SingleByCount
  <2>2. Undisturbed(t) /\ \A q \in Requests : ~About(q, t)
    BY DEF Disturbed, Undisturbed, Failed, About
  <2>3. t \in Topics /\ session \in Used
    BY DEF TopicTypeOK, ListInv
  <2> QED
    BY <2>1, <2>2, <2>3 DEF ListInv, Agreed
<1> QED
  BY <1>1, ListInvAlways, PTL

-----------------------------------------------------------------------------
(* The calls in flight on a connection are answered one by one.            *)

Waiting == {q \in Requests : request[q].pc \in Underway}

(* A request is behind requests of its own connection, and behind those    *)
(* that these are behind: no two wait for each other.                      *)
QueuesInOrder ==
  /\ IsFiniteSet(Waiting)
  /\ \A q \in Waiting :
       /\ request[q].ahead \subseteq UnderwayOn(request[q].on) \ {q}
       /\ \A p \in request[q].ahead : request[p].ahead \subseteq request[q].ahead \ {p}

(* The requests that are over leave every queue.                           *)
LEMMA SettleKeepsQueues ==
  ASSUME TopicTypeOK, QueuesInOrder, NEW S \in SUBSET Requests, NEW pc \in {"done", "failed"},
         Settle(S, pc)
  PROVE  QueuesInOrder'
<1>1. ASSUME NEW q \in Requests
      PROVE  /\ q \in Waiting' <=> q \in Waiting \ S
             /\ q \in Waiting' => /\ request'[q].on = request[q].on
                                 /\ request'[q].ahead = request[q].ahead \ S
  BY SettleEffects DEF Waiting, Underway
<1>2. Waiting' = Waiting \ S
  BY <1>1 DEF Waiting
<1>3. IsFiniteSet(Waiting')
  BY <1>2, FS_Subset DEF QueuesInOrder
<1>4. ASSUME NEW q \in Waiting'
      PROVE  /\ request'[q].ahead \subseteq UnderwayOn(request[q].on)' \ {q}
             /\ \A p \in request'[q].ahead : request'[p].ahead \subseteq request'[q].ahead \ {p}
  <2>1. /\ q \in Waiting /\ request'[q].on = request[q].on
        /\ request'[q].ahead = request[q].ahead \ S
    BY <1>1, <1>4 DEF Waiting
  <2>2. ASSUME NEW p \in request'[q].ahead
        PROVE  /\ p \in UnderwayOn(request[q].on)' \ {q}
               /\ request'[p].ahead \subseteq request'[q].ahead \ {p}
    <3>1. /\ p \in Requests /\ p \in Waiting \ S /\ p # q /\ request[p].on = request[q].on
          /\ request[p].ahead \subseteq request[q].ahead \ {p}
      BY <2>1, <2>2 DEF QueuesInOrder, UnderwayOn, Waiting
    <3>2. /\ p \in Waiting' /\ request'[p].on = request[q].on
          /\ request'[p].ahead = request[p].ahead \ S
      BY <1>1, <1>2, <3>1
    <3> QED
      BY <2>1, <3>1, <3>2 DEF UnderwayOn, Waiting
  <2> QED
    BY <2>2
<1> QED
  BY <1>3, <1>4 DEF QueuesInOrder

(* A request joins the end of the queue.                                   *)
LEMMA SendsKeepsQueues ==
  ASSUME TopicTypeOK, QueuesInOrder, NEW q \in Requests, request[q].pc = "idle", NEW t \in Topics,
         NEW pc \in Underway, Sends(q, t, pc)
  PROVE  QueuesInOrder'
<1>1. /\ request'[q].pc \in Underway /\ request'[q].on = client
      /\ request'[q].ahead = UnderwayOn(client)
      /\ \A r \in Requests \ {q} : request'[r] = request[r]
  BY DEF Sends, TopicTypeOK
<1>2. q \notin Waiting /\ Waiting' = Waiting \cup {q}
  BY <1>1 DEF Waiting, Underway
<1>3. \A c : UnderwayOn(c) \subseteq UnderwayOn(c)' /\ UnderwayOn(c) \subseteq Waiting
  BY <1>1, <1>2 DEF UnderwayOn, Waiting
<1>4. IsFiniteSet(Waiting')
  BY <1>2, FS_AddElement DEF QueuesInOrder
<1>5. ASSUME NEW r \in Waiting
      PROVE  /\ request'[r] = request[r] /\ request[r].ahead \subseteq UnderwayOn(request[r].on)' \ {r}
             /\ \A p \in request[r].ahead : request'[p].ahead \subseteq request[r].ahead \ {p}
  <2>1. r # q /\ r \in Requests /\ request[r].ahead \subseteq Waiting
    BY <1>2, <1>3 DEF QueuesInOrder, Waiting
  <2>2. \A p \in request[r].ahead : request'[p] = request[p]
    BY <1>1, <1>2, <2>1 DEF Waiting
  <2> QED
    BY <1>1, <1>3, <2>1, <2>2 DEF QueuesInOrder
<1>6. /\ request'[q].ahead \subseteq UnderwayOn(request[q].on)' \ {q}
      /\ \A p \in request'[q].ahead : request'[p].ahead \subseteq request'[q].ahead \ {p}
  <2>1. ASSUME NEW p \in UnderwayOn(client) PROVE request'[p].ahead \subseteq UnderwayOn(client) \ {p}
    <3>1. p \in Waiting /\ request[p].on = client
      BY <1>3, <2>1 DEF UnderwayOn
    <3> QED
      BY <1>5, <3>1 DEF QueuesInOrder
  <2>2. q \notin UnderwayOn(client)
    BY <1>2, <1>3
  <2> QED
    BY <1>1, <1>3, <2>1, <2>2
<1> QED
  BY <1>1, <1>2, <1>4, <1>5, <1>6 DEF QueuesInOrder

LEMMA QueueStep ==
  ASSUME TopicTypeOK, QueuesInOrder, [ControllerNext]_controllerVars
  PROVE  QueuesInOrder'
<1>1. CASE request' = request
  BY <1>1 DEF QueuesInOrder, Waiting, UnderwayOn
<1>2. ASSUME NEW c \in Clients, Settle(UnderwayOn(c), "failed") PROVE QueuesInOrder'
  <2>1. UnderwayOn(c) \in SUBSET Requests
    BY DEF UnderwayOn
  <2> QED
    BY <1>2, <2>1, SettleKeepsQueues
<1>3. ASSUME NEW q \in Requests, Acked(q) PROVE QueuesInOrder'
  BY <1>3, SettleKeepsQueues DEF Acked, Granted, Denied, Released
<1>4. ASSUME NEW q \in Requests, request[q].pc = "idle", NEW t \in Topics,
             NEW pc \in {"done", "failed"}, AtOnce(q, t, pc)
      PROVE  QueuesInOrder'
  <2>1. request'[q].pc = pc /\ \A r \in Requests \ {q} : request'[r] = request[r]
    BY <1>4 DEF AtOnce, NotUnderway, TopicTypeOK
  <2>2. q \notin Waiting /\ Waiting' = Waiting
    BY <1>4, <2>1 DEF Waiting, Underway
  <2>3. \A r \in Waiting : request'[r] = request[r]
    BY <2>1, <2>2 DEF Waiting
  <2>4. \A c : UnderwayOn(c)' = UnderwayOn(c) /\ UnderwayOn(c) \subseteq Waiting
    BY <2>2, <2>3 DEF UnderwayOn, Waiting
  <2>5. ASSUME NEW r \in Waiting
        PROVE  /\ request'[r].ahead \subseteq UnderwayOn(request[r].on)' \ {r}
               /\ \A p \in request'[r].ahead : request'[p].ahead \subseteq request'[r].ahead \ {p}
    <3>1. request[r].ahead \subseteq Waiting
      BY <2>4 DEF QueuesInOrder
    <3> QED
      BY <2>3, <2>4, <3>1 DEF QueuesInOrder
  <2> QED
    BY <2>2, <2>5 DEF QueuesInOrder
<1>5. ASSUME NEW q \in Requests, Subscribe(q) \/ Unsubscribe(q) PROVE QueuesInOrder'
  BY <1>4, <1>5, SendsKeepsQueues DEF Subscribe, Unsubscribe, Call, Unreachable, Underway
<1> QED
  BY <1>1, <1>2, <1>3, <1>5, TopicClosings
     DEF ControllerNext, Untouched, TopicsDropped, AttemptEnded, TopicsAccepted, TopicsRestored,
         topicVars, controllerVars

(* A queue that is not empty has a first request, which is behind nobody.  *)
LEMMA SomeoneIsFirst ==
  ASSUME QueuesInOrder, NEW c, UnderwayOn(c) # {}
  PROVE  \E p \in UnderwayOn(c) : request[p].ahead = {}
<1> DEFINE Length(p) == Cardinality(request[p].ahead)
           Lengths == {Length(p) : p \in UnderwayOn(c)}
           Less == OpToRel(<, Nat)
<1>1. ASSUME NEW p \in UnderwayOn(c)
      PROVE  IsFiniteSet(request[p].ahead) /\ request[p].ahead \subseteq UnderwayOn(c)
  <2>1. p \in Waiting /\ request[p].on = c /\ UnderwayOn(c) \in SUBSET Waiting
    BY DEF UnderwayOn, Waiting
  <2>2. request[p].ahead \in SUBSET Waiting /\ request[p].ahead \subseteq UnderwayOn(c)
    BY <2>1 DEF QueuesInOrder
  <2> QED
    BY <2>2, FS_Subset DEF QueuesInOrder
<1>2. \A p \in UnderwayOn(c) : Length(p) \in Nat
  BY <1>1, FS_CardinalityType
<1>3. PICK n \in Lengths : \A m \in Lengths : <<m, n>> \notin Less
  <2> HIDE DEF Less, Length
  <2>1. IsWellFoundedOn(Less, Nat)
    BY NatLessThanWellFounded DEF Less
  <2>2. Lengths \subseteq Nat /\ Lengths # {}
    BY <1>2
  <2> HIDE DEF Lengths
  <2> QED
    BY <2>1, <2>2, WFMin
<1>4. PICK p \in UnderwayOn(c) : Length(p) = n
  OBVIOUS
<1>5. ASSUME NEW r \in request[p].ahead PROVE FALSE
  <2>1. r \in UnderwayOn(c) /\ IsFiniteSet(request[p].ahead)
    BY <1>1
  <2>2. request[r].ahead \in SUBSET (request[p].ahead \ {r})
    BY DEF QueuesInOrder, UnderwayOn, Waiting
  <2>3. /\ IsFiniteSet(request[p].ahead \ {r})
        /\ Cardinality(request[p].ahead \ {r}) = Cardinality(request[p].ahead) - 1
    BY <1>5, <2>1, FS_RemoveElement
  <2>4. Cardinality(request[r].ahead) =< Cardinality(request[p].ahead \ {r})
    BY <2>2, <2>3, FS_Subset
  <2>5. Length(r) < n /\ Length(r) \in Nat /\ n \in Nat /\ Length(r) \in Lengths
    BY <1>2, <1>4, <2>1, <2>3, <2>4
  <2>6. <<Length(r), n>> \in Less
    BY <2>5 DEF OpToRel
  <2> QED
    BY <1>3, <2>5, <2>6
<1> QED
  BY <1>5

(* The broker has an acknowledgement to send on the connection of c that   *)
(* waits for no other: that of the restoration, or of one request.         *)
OneToAnswer(c) ==
  \E p \in UnderwayOn(c) :
    Acknowledged(p) /\ \A r \in UnderwayOn(c) : Acknowledged(r) => r = p

Answerable(c) ==
  IF restoring[c] # {}
  THEN Connected(c) /\ \A r \in UnderwayOn(c) : ~Acknowledged(r)
  ELSE OneToAnswer(c)

(* However calls, losses, restorations and disconnects interleave, what is *)
(* in flight on a connection never waits for each other: there is always   *)
(* exactly one thing the broker may acknowledge next.  So the shutdown,    *)
(* whose HTTP server waits for all the calls, is not kept by calls that    *)
(* overlap.                                                                *)
THEOREM AlwaysOneToAnswer == ControllerSpec => [](Alive => \A c \in Clients : Owed(c) => Answerable(c))
<1>1. ControllerInit => QueuesInOrder
  <2> SUFFICES ASSUME ControllerInit PROVE QueuesInOrder
    OBVIOUS
  <2>1. Waiting = {}
    BY DEF ControllerInit, NotUnderway, Underway, Waiting
  <2> QED
    BY <2>1, FS_EmptySet DEF QueuesInOrder
<1>2. TopicTypeOK /\ QueuesInOrder /\ [ControllerNext]_controllerVars => QueuesInOrder'
  BY QueueStep
<1>3. ASSUME QueuesInOrder, ListInv, NEW c \in Clients, Alive, restoring[c] = {}, UnderwayOn(c) # {}
      PROVE  OneToAnswer(c)
  <2>1. PICK p \in UnderwayOn(c) : request[p].ahead = {}
    BY <1>3, SomeoneIsFirst
  <2>2. RequestsInOrder
    BY <1>3 DEF ListInv
  <2>3. Acknowledged(p)
    BY <1>3, <2>1, <2>2 DEF Acknowledged, Answers, RequestsInOrder, UnderwayOn, Connected
  <2>4. ASSUME NEW r \in UnderwayOn(c), Acknowledged(r) PROVE r = p
    BY <2>1, <2>2, <2>4 DEF Acknowledged, RequestsInOrder, UnderwayOn
  <2> QED
    BY <2>3, <2>4 DEF OneToAnswer
<1>4. ASSUME ListInv, NEW c \in Clients, restoring[c] # {}
      PROVE  Connected(c) /\ \A r \in UnderwayOn(c) : ~Acknowledged(r)
  BY <1>4 DEF ListInv, Acknowledged, Answers, UnderwayOn
<1>5. QueuesInOrder /\ ListInv => (Alive => \A c \in Clients : Owed(c) => Answerable(c))
  BY <1>3, <1>4 DEF Owed, Answerable
<1> QED
  BY <1>1, <1>2, <1>5, ListInvAlways, PTL DEF ControllerSpec

(* An end() that is awaited has been severed, and then never calls back,   *)
(* or it runs: with nothing in flight on the connection it completes, and  *)
(* with something in flight the broker can acknowledge it.                 *)
EndDriven(c) ==
  \/ conn[c] = "severed"
  \/ conn[c] = "ending" /\ (Owed(c) => Answerable(c))

(* What the shutdown waits for, and that it is under way.                  *)
ShutdownIsDriven ==
  /\ phase = "destroying" => \E c \in Clients : closer[c] = "destroy" /\ EndDriven(c)
  /\ phase = "stopping" => \E c \in Clients : closer[c] = "shutdown" /\ EndDriven(c)
  /\ phase = "destroyed" =>
       \/ RequestsServed /\ \A c \in Clients : awaited[c] # "api" /\ closer[c] # "api"
       \/ \E c \in Clients : UnderwayOn(c) # {} /\ Answerable(c)
       \/ \E c \in Clients : awaited[c] = "api" /\ conn[c] \in {"connecting", "waiting"}
       \/ \E c \in Clients : closer[c] = "api" /\ EndDriven(c)

(* The shutdown is stuck in one way only (hazards: the HTTP server is      *)
(* closed between the two hooks and waits for the calls in flight; end()   *)
(* waits for the acknowledgements of what is in flight): a hook that       *)
(* awaits, awaits an end() that can still complete or whose connection     *)
(* broke under a request; and while the server is being closed, nothing is *)
(* in flight, or some call can still be answered, or such an end() is      *)
(* awaited.  It is what ShutdownServesAll adds its fairness to.            *)
THEOREM ShutdownStuckBySeveringOnly == ControllerSpec => []ShutdownIsDriven
<1> DEFINE OneEach == Alive => \A c \in Clients : Owed(c) => Answerable(c)
<1>1. TypeOK /\ TopicTypeOK /\ WaitsAreDriven /\ NoStrandedAwait /\ OneEach => ShutdownIsDriven
  <2> SUFFICES ASSUME TypeOK, TopicTypeOK, WaitsAreDriven, NoStrandedAwait, OneEach
               PROVE  ShutdownIsDriven
    OBVIOUS
  <2>1. phase \in {"destroying", "stopping", "destroyed"} =>
          \A c \in Clients : Owed(c) => Answerable(c)
    BY DEF Alive
  <2> HIDE DEF OneEach
  <2>2. ~RequestsServed => \E c \in Clients : UnderwayOn(c) # {}
    <3>1. ASSUME NEW q \in Requests, request[q].pc \in Underway
          PROVE  request[q].on \in Clients /\ q \in UnderwayOn(request[q].on)
      BY <3>1 DEF TopicTypeOK, UnderwayOn
    <3> QED
      BY <3>1 DEF RequestsServed
  <2>3. \A c \in Clients : UnderwayOn(c) # {} => Owed(c)
    BY DEF Owed
  <2>4. phase \in {"destroying", "stopping", "destroyed"} =>
          \A c \in Clients : /\ awaited[c] # "none" => conn[c] \in {"connecting", "waiting"}
                             /\ closer[c] # "none" => EndDriven(c)
    BY <2>1 DEF NoStrandedAwait, EndDriven
  <2>5. /\ phase = "destroying" => \E c \in Clients : closer[c] = "destroy" /\ EndDriven(c)
        /\ phase = "stopping" => \E c \in Clients : closer[c] = "shutdown" /\ EndDriven(c)
    BY <2>4 DEF WaitsAreDriven
  <2>6. phase = "destroyed" =>
          \A c \in Clients : /\ awaited[c] = "api" => conn[c] \in {"connecting", "waiting"}
                             /\ closer[c] = "api" => EndDriven(c)
    BY <2>4
  <2> QED
    BY <2>1, <2>2, <2>3, <2>5, <2>6, Zenon DEF ShutdownIsDriven
<1>2. ControllerSpec => [](WaitsAreDriven /\ NoStrandedAwait)
  BY ControllerImplementsIngestor, WaitsAlwaysDriven, PTL
<1>3. ControllerSpec => []OneEach
  BY AlwaysOneToAnswer
<1> HIDE DEF OneEach
<1> QED
  BY <1>1, <1>2, <1>3, ListInvAlways, PTL

-----------------------------------------------------------------------------
(* POST /ingest/batch.  The loop of ingestBatch() is a recursive function; *)
(* the provers cannot instantiate the induction theorems of the library,   *)
(* which take an operator, so that the induction is one over a set.        *)

(* A set that holds 0 and, with a number, the next one holds them all.     *)
LEMMA CountingUp ==
  ASSUME NEW S, 0 \in S, \A n \in Nat : n \in S => n + 1 \in S
  PROVE  Nat \subseteq S
<1> DEFINE Missing == Nat \ S
           Less == OpToRel(<, Nat)
<1> SUFFICES ASSUME Missing # {} PROVE FALSE
  OBVIOUS
<1>1. PICK n \in Missing : \A m \in Missing : <<m, n>> \notin Less
  <2> HIDE DEF Less
  <2>1. IsWellFoundedOn(Less, Nat)
    BY NatLessThanWellFounded DEF Less
  <2>2. Missing \subseteq Nat
    OBVIOUS
  <2> HIDE DEF Missing
  <2> QED
    BY <2>1, <2>2, WFMin
<1>2. n # 0 /\ n \in Nat
  OBVIOUS
<1>3. n - 1 \in Nat /\ n - 1 < n /\ (n - 1) + 1 = n
  BY <1>2
<1>4. <<n - 1, n>> \in Less
  BY <1>2, <1>3 DEF OpToRel
<1>5. n - 1 \notin Missing
  BY <1>1, <1>4
<1>6. n - 1 \in S
  BY <1>3, <1>5
<1> QED
  BY <1>2, <1>3, <1>6

(* There is a function that satisfies the recursion of IngestBatch.        *)
LEMMA LoopIsDefined ==
  ASSUME NEW messages \in Seq(Messages)
  PROVE  \E answer : answer = [n \in 0..Len(messages) |->
            IF n = 0 THEN EmptyAnswer ELSE BatchStep(answer[n - 1], messages[n])]
<1> DEFINE Turn(g, n) == IF n = 0 THEN EmptyAnswer ELSE BatchStep(g[n - 1], messages[n])
           Loop(g, k) == g = [n \in 0..k |-> Turn(g, n)]
           Runs == {k \in Nat : \E g : Loop(g, k)}
<1>1. 0 \in Runs
  <2> DEFINE g == [n \in 0..0 |-> EmptyAnswer]
  <2>1. Loop(g, 0)
    OBVIOUS
  <2> HIDE DEF Loop, g
  <2> QED
    BY <2>1
<1>2. ASSUME NEW k \in Nat, k \in Runs
      PROVE  k + 1 \in Runs
  <2>1. PICK g : Loop(g, k)
    BY <1>2
  <2> DEFINE h == [n \in 0..(k + 1) |-> IF n =< k THEN g[n] ELSE Turn(g, k + 1)]
  <2>2. ASSUME NEW n \in 0..(k + 1)
        PROVE  h[n] = Turn(h, n)
    <3>1. n # 0 => n - 1 \in 0..k /\ n - 1 \in 0..(k + 1)
      OBVIOUS
    <3>2. n # 0 => h[n - 1] = g[n - 1]
      BY <3>1
    <3> HIDE DEF Turn
    <3>3. n \in 0..k => g[n] = Turn(g, n)
      BY <2>1
    <3>4. Turn(h, n) = Turn(g, n)
      BY <3>2 DEF Turn
    <3>5. CASE n = k + 1
      BY <3>4, <3>5
    <3>6. CASE n \in 0..k
      BY <3>3, <3>4, <3>6
    <3> QED
      BY <3>5, <3>6
  <2>3. h = [n \in 0..(k + 1) |-> h[n]]
    OBVIOUS
  <2> HIDE DEF h, Turn
  <2>4. Loop(h, k + 1)
    BY <2>2, <2>3
  <2> HIDE DEF Loop
  <2> QED
    BY <2>4
<1>3. Len(messages) \in Nat
  OBVIOUS
<1> HIDE DEF Runs
<1>4. Nat \subseteq Runs
  BY <1>1, <1>2, CountingUp
<1> QED
  BY <1>3, <1>4 DEF Runs

(* Hence IngestBatch is the last value of one that does.                   *)
LEMMA LoopUnfolds ==
  ASSUME NEW messages \in Seq(Messages)
  PROVE  \E answer : /\ IngestBatch(messages) = answer[Len(messages)]
                     /\ answer = [n \in 0..Len(messages) |->
                          IF n = 0 THEN EmptyAnswer ELSE BatchStep(answer[n - 1], messages[n])]
<1> DEFINE Loop(answer) == answer = [n \in 0..Len(messages) |->
                 IF n = 0 THEN EmptyAnswer ELSE BatchStep(answer[n - 1], messages[n])]
           answer == CHOOSE a : Loop(a)
<1>1. IngestBatch(messages) = answer[Len(messages)]
  BY DEF IngestBatch
<1>2. \E a : Loop(a)
  BY LoopIsDefined
<1> HIDE DEF Loop
<1>3. Loop(answer)
  BY <1>2
<1> QED
  BY <1>1, <1>3 DEF Loop

AnswerStates == [events : Seq(Nat), successCount : Nat, errorCount : Nat]

(* What the loop has made of the first n messages.                         *)
AccountedUpTo(messages, n, answer) ==
  IF \E i \in 1..n : messages[i] = "null"
  THEN answer = NoAnswer
  ELSE /\ answer \in AnswerStates
       /\ InOrderOf(answer.events, {i \in 1..n : Ingested(messages[i])})
       /\ Len(answer.events) = answer.successCount
       /\ answer.successCount + answer.errorCount = n

(* A position behind all of those in order may be appended.                *)
LEMMA AppendInOrder ==
  ASSUME NEW events \in Seq(Nat), NEW n \in Nat, NEW S \in SUBSET (1..n), InOrderOf(events, S)
  PROVE  InOrderOf(Append(events, n + 1), S \cup {n + 1})
<1> DEFINE longer == Append(events, n + 1)
           l == Len(events)
<1>1. l \in Nat /\ DOMAIN events = 1..l /\ DOMAIN longer = 1..(l + 1)
  OBVIOUS
<1>2. /\ \A i \in 1..l : longer[i] = events[i] /\ events[i] \in S
      /\ longer[l + 1] = n + 1
  BY <1>1 DEF InOrderOf, Range
<1>3. Range(longer) = S \cup {n + 1}
  BY <1>1, <1>2 DEF InOrderOf, Range
<1>4. ASSUME NEW i \in 1..(l + 1), NEW j \in 1..(l + 1), i < j
      PROVE  longer[i] < longer[j]
  <2>1. i \in 1..l
    BY <1>1, <1>4
  <2>2. CASE j \in 1..l
    BY <1>1, <1>2, <1>4, <2>1, <2>2 DEF InOrderOf
  <2>3. CASE j = l + 1
    BY <1>2, <2>1, <2>3
  <2> QED
    BY <1>1, <2>2, <2>3
<1> QED
  BY <1>1, <1>3, <1>4 DEF InOrderOf

(* One turn of the loop keeps the account.                                 *)
LEMMA OneTurn ==
  ASSUME NEW messages \in Seq(Messages), NEW n \in Nat, n + 1 \in 1..Len(messages),
         NEW answer, AccountedUpTo(messages, n, answer)
  PROVE  AccountedUpTo(messages, n + 1, BatchStep(answer, messages[n + 1]))
<1> DEFINE m == messages[n + 1]
           Good(k) == {i \in 1..k : Ingested(messages[i])}
<1>1. 1..(n + 1) = (1..n) \cup {n + 1}
  OBVIOUS
<1>2. CASE \E i \in 1..n : messages[i] = "null"
  BY <1>1, <1>2 DEF AccountedUpTo, BatchStep
<1>3. CASE m = "null"
  BY <1>1, <1>3 DEF AccountedUpTo, BatchStep, Ingested
<1>4. CASE ~(\E i \in 1..(n + 1) : messages[i] = "null")
  <2>1. /\ answer \in AnswerStates
        /\ InOrderOf(answer.events, Good(n))
        /\ Len(answer.events) = answer.successCount
        /\ answer.successCount + answer.errorCount = n
    BY <1>1, <1>4 DEF AccountedUpTo
  <2>2. answer # NoAnswer /\ m # "null"
    BY <1>1, <1>4, <2>1 DEF NoAnswer, AnswerStates
  <2>3. CASE Ingested(m)
    <3>1. BatchStep(answer, m) = [events |-> Append(answer.events, n + 1),
                                  successCount |-> answer.successCount + 1,
                                  errorCount |-> answer.errorCount]
      BY <2>1, <2>2, <2>3 DEF BatchStep, AnswerStates
    <3>2. Good(n + 1) = Good(n) \cup {n + 1}
      BY <1>1, <2>3
    <3>3. InOrderOf(Append(answer.events, n + 1), Good(n + 1))
      <4>1. Good(n) \in SUBSET (1..n) /\ answer.events \in Seq(Nat)
        BY <2>1 DEF AnswerStates
      <4> HIDE DEF Good
      <4>2. InOrderOf(Append(answer.events, n + 1), Good(n) \cup {n + 1})
        BY <2>1, <4>1, AppendInOrder
      <4> QED
        BY <3>2, <4>2
    <3>4. /\ Append(answer.events, n + 1) \in Seq(Nat)
          /\ Len(Append(answer.events, n + 1)) = answer.successCount + 1
      BY <2>1 DEF AnswerStates
    <3>5. BatchStep(answer, m) \in AnswerStates
      BY <2>1, <3>1, <3>4 DEF AnswerStates
    <3> QED
      BY <1>4, <2>1, <3>1, <3>3, <3>4, <3>5 DEF AccountedUpTo, AnswerStates
  <2>4. CASE ~Ingested(m)
    <3>1. BatchStep(answer, m) = [events |-> answer.events,
                                  successCount |-> answer.successCount,
                                  errorCount |-> answer.errorCount + 1]
      BY <2>1, <2>2, <2>4 DEF BatchStep, AnswerStates
    <3>2. Good(n + 1) = Good(n)
      BY <1>1, <2>4
    <3>3. BatchStep(answer, m) \in AnswerStates
      BY <2>1, <3>1 DEF AnswerStates
    <3>4. InOrderOf(answer.events, Good(n + 1))
      BY <2>1, <3>2
    <3>5. /\ answer.successCount \in Nat /\ answer.errorCount \in Nat
          /\ answer.successCount + (answer.errorCount + 1) = n + 1
      BY <2>1 DEF AnswerStates
    <3> QED
      BY <1>4, <2>1, <3>1, <3>3, <3>4, <3>5 DEF AccountedUpTo
  <2> QED
    BY <2>3, <2>4
<1> QED
  BY <1>1, <1>2, <1>3, <1>4

(* A batch of any length is answered for each of its messages, in order,   *)
(* or, with a null anywhere in it, not at all.                             *)
THEOREM BatchOfAnyLength ==
  ASSUME NEW messages \in Seq(Messages)
  PROVE  Accounted(messages, IngestBatch(messages))
<1> DEFINE Length == Len(messages)
<1>1. PICK answer : /\ IngestBatch(messages) = answer[Length]
                    /\ answer = [n \in 0..Length |->
                         IF n = 0 THEN EmptyAnswer ELSE BatchStep(answer[n - 1], messages[n])]
  BY LoopUnfolds
<1>2. Length \in Nat /\ DOMAIN messages = 1..Length
  OBVIOUS
<1> DEFINE Done == {n \in Nat : n =< Length => AccountedUpTo(messages, n, answer[n])}
<1>3. 0 \in Done
  <2>1. answer[0] = EmptyAnswer
    BY <1>1, <1>2
  <2>2. InOrderOf(<<>>, {})
    BY DEF InOrderOf, Range
  <2>3. EmptyAnswer \in AnswerStates /\ {i \in 1..0 : Ingested(messages[i])} = {}
    BY DEF EmptyAnswer, AnswerStates
  <2> QED
    BY <2>1, <2>2, <2>3 DEF AccountedUpTo, EmptyAnswer
<1>4. ASSUME NEW n \in Nat, n \in Done
      PROVE  n + 1 \in Done
  <2>1. SUFFICES ASSUME n + 1 =< Length
                 PROVE  AccountedUpTo(messages, n + 1, answer[n + 1])
    OBVIOUS
  <2>2. answer[n + 1] = BatchStep(answer[n], messages[n + 1])
    BY <1>1, <1>2, <2>1
  <2>3. n + 1 \in 1..Length /\ AccountedUpTo(messages, n, answer[n])
    BY <1>2, <1>4, <2>1
  <2> QED
    BY <2>2, <2>3, OneTurn
<1>5. AccountedUpTo(messages, Length, answer[Length])
  <2> HIDE DEF Done
  <2>1. Nat \subseteq Done
    BY <1>3, <1>4, CountingUp
  <2> QED
    BY <1>2, <2>1 DEF Done
<1>6. "null" \in Range(messages) <=> \E i \in 1..Length : messages[i] = "null"
  BY <1>2 DEF Range
<1>7. IngestedOf(messages) = {i \in 1..Length : Ingested(messages[i])}
  BY <1>2 DEF IngestedOf
<1> QED
  BY <1>1, <1>5, <1>6, <1>7 DEF AccountedUpTo, Accounted

LEMMA EveryBatch == EveryBatchAccounted
<1> SUFFICES ASSUME NEW messages \in Batches
             PROVE  Accounted(messages, IngestBatch(messages))
  BY DEF EveryBatchAccounted
<1>1. messages \in Seq(Messages)
  BY BatchAssumption DEF Batches
<1> QED
  BY <1>1, BatchOfAnyLength

(* Whatever bound the request body has, every POST /ingest/batch that the  *)
(* service answers accounts for each of its messages.                      *)
THEOREM BatchesAccounted == ControllerSpec => []BatchAccounts
<1>1. BatchAccounts
  BY EveryBatch DEF BatchAccounts
<1> QED
  BY <1>1, PTL
=============================================================================
