--------------------------- MODULE EventStreamProofs ---------------------------
(***************************************************************************)
(* Theorems about EventStream: for all topics, filters, schemas and        *)
(* listeners and any number of messages, what a listener is given.         *)
(***************************************************************************)
EXTENDS EventStream, TLAPS

-----------------------------------------------------------------------------
(* The two ways to match.                                                  *)

(* A filter without wildcards matches the topic it is, and no other.       *)
LEMMA ConcreteMatch ==
  ASSUME NEW f, NEW t, IsFilter(f), IsFilter(t), ~IsWild(f), BrokerMatches(f, t)
  PROVE  f = t
<1> f \in Seq(STRING) /\ t \in Seq(STRING) /\ Len(f) \in Nat \ {0}
    /\ DOMAIN f = 1..Len(f) /\ DOMAIN t = 1..Len(t)
  BY DEF IsFilter
<1>1. \A i \in 1..Len(f) : f[i] # Plus /\ f[i] # Hash
  BY DEF IsWild
<1>2. f[Len(f)] # Hash
  BY <1>1
<1>3. Len(f) = Len(t) /\ \A i \in 1..Len(f) : f[i] \in {Plus, t[i]}
  BY <1>2 DEF BrokerMatches, LevelMatches
<1> QED BY <1>1, <1>3

(* What the regular expression of getMessageStreamByTopic() lets pass, the *)
(* broker would have matched with the same filter.                         *)
LEMMA StreamWithinBroker ==
  ASSUME NEW f, NEW t, IsFilter(f), IsFilter(t), t[1] \notin Reserved, StreamMatches(f, t)
  PROVE  BrokerMatches(f, t)
<1> f \in Seq(STRING) /\ t \in Seq(STRING) /\ Len(f) \in Nat \ {0} /\ Len(t) \in Nat
    /\ DOMAIN f = 1..Len(f)
  BY DEF IsFilter
<1>1. CASE f = t
  BY <1>1 DEF BrokerMatches, LevelMatches
<1>2. CASE f # t
  BY <1>2 DEF StreamMatches, BrokerMatches, LevelMatches
<1> QED BY <1>1, <1>2

-----------------------------------------------------------------------------
(* Types.                                                                  *)

(* What one message gives a listener: one event, or none.                  *)
LEMMA GivenIsOne ==
  ASSUME StreamTypeOK, NEW l \in Listeners, NEW m \in Messages, NEW id \in 1..MaxMessages
  PROVE  /\ Given(l, m, id) \in Seq(Events)
         /\ \/ Given(l, m, id) = <<>>
            \/ /\ Len(Given(l, m, id)) = 1
               /\ Given(l, m, id)[1] = [id |-> id, topic |-> m.topic, schema |-> SchemaFor(m.topic)]
               /\ pattern[l] # None /\ StreamMatches(pattern[l], m.topic)
<1> DEFINE e == [id |-> id, topic |-> m.topic, schema |-> SchemaFor(m.topic)]
<1>1. SchemaFor(m.topic) \in Schemas \cup {None}
  BY DEF SchemaFor, StreamTypeOK
<1>2. e \in Events
  BY <1>1 DEF Events, Messages
<1>3. handlers = 0 \/ handlers = 1
  BY DEF StreamTypeOK
<1> HIDE DEF e
<1>4. CASE ~(pattern[l] # None /\ StreamMatches(pattern[l], m.topic))
  BY <1>4 DEF Given
<1>5. CASE pattern[l] # None /\ StreamMatches(pattern[l], m.topic)
  <2>1. Given(l, m, id) = [i \in 1..handlers |-> e]
    BY <1>5 DEF Given, e
  <2>2. CASE handlers = 0
    BY <2>1, <2>2
  <2>3. CASE handlers = 1
    <3>1. Given(l, m, id) \in Seq(Events) /\ Len(Given(l, m, id)) = 1 /\ Given(l, m, id)[1] = e
      BY <1>2, <2>1, <2>3
    <3> QED BY <1>5, <3>1 DEF e
  <2> QED BY <1>3, <2>2, <2>3
<1> QED BY <1>4, <1>5

LEMMA SentMessages ==
  ASSUME StreamTypeOK
  PROVE  \A i \in DOMAIN sent : sent[i].msg \in Messages
<1>1. \A i \in DOMAIN sent : sent[i] \in Deliveries
  BY DEF StreamTypeOK
<1> QED
  BY <1>1 DEF Deliveries

LEMMA TypeInit == StreamInit => StreamTypeOK
<1> SUFFICES ASSUME StreamInit PROVE StreamTypeOK
  OBVIOUS
<1>1. sent \in Seq(Deliveries) /\ Len(sent) = 0 /\ handled \subseteq 1..Len(sent)
  BY DEF StreamInit
<1>2. got \in [Listeners -> Seq(Events)]
  BY DEF StreamInit
<1>3. completed \in BOOLEAN
  BY Zenon DEF StreamInit
<1> QED BY <1>1, <1>2, <1>3, MessageAssumption DEF StreamInit, StreamTypeOK

LEMMA TypeStep == StreamTypeOK /\ [StreamNext]_streamVars => StreamTypeOK'
<1> SUFFICES ASSUME StreamTypeOK, [StreamNext]_streamVars PROVE StreamTypeOK'
  OBVIOUS
<1> USE MessageAssumption DEF connVars, subVars, eventVars
<1> Len(sent) \in Nat /\ DOMAIN sent = 1..Len(sent)
  BY DEF StreamTypeOK
<1>1. ASSUME NEW c \in Clients, Opens(c) \/ Connects(c) PROVE StreamTypeOK'
  BY <1>1 DEF Opens, Connects, StreamTypeOK
<1>2. ASSUME NEW c \in Clients, Breaks(c) PROVE StreamTypeOK'
  <2>1. session' \in up' \cup {None}
    BY <1>2 DEF Breaks, StreamTypeOK
  <2> QED BY <1>2, <2>1 DEF Breaks, StreamTypeOK
<1>3. CASE SetupMessageHandler BY <1>3 DEF SetupMessageHandler, StreamTypeOK
<1>4. CASE OnModuleDestroy BY <1>4 DEF OnModuleDestroy, StreamTypeOK
<1>5. ASSUME NEW f \in Sources, NEW s \in Schemas, SubscribeToMachine(f, s) PROVE StreamTypeOK'
  <2>1. wanted' \in [Clients -> SUBSET Sources]
    BY <1>5 DEF SubscribeToMachine, StreamTypeOK
  <2> QED BY <1>5, <2>1 DEF SubscribeToMachine, StreamTypeOK
<1>6. ASSUME NEW f \in Sources, UnsubscribeFromMachine(f) PROVE StreamTypeOK'
  <2>1. wanted' \in [Clients -> SUBSET Sources] /\ draining' \subseteq Sources
    BY <1>6 DEF UnsubscribeFromMachine, StreamTypeOK
  <2> QED BY <1>6, <2>1 DEF UnsubscribeFromMachine, StreamTypeOK
<1>7. ASSUME NEW l \in Listeners, NEW p \in Patterns, Listen(l, p) PROVE StreamTypeOK'
  BY <1>7 DEF Listen, StreamTypeOK
<1>8. ASSUME NEW m \in Messages, BrokerSends(m) PROVE StreamTypeOK'
  <2> DEFINE d == [msg |-> m, on |-> session, late |-> ~Serves(wanted[session], m.topic)]
  <2>1. d \in Deliveries
    BY <1>8 DEF BrokerSends, Deliveries, StreamTypeOK
  <2>2. sent' = Append(sent, d)
    BY <1>8 DEF BrokerSends
  <2> HIDE DEF d
  <2>3. sent' \in Seq(Deliveries) /\ Len(sent') = Len(sent) + 1
    BY <2>1, <2>2 DEF StreamTypeOK
  <2> QED BY <1>8, <2>3 DEF BrokerSends, StreamTypeOK
<1>9. ASSUME NEW i \in 1..MaxMessages, MessageArrives(i) PROVE StreamTypeOK'
  <2> DEFINE m == sent[i].msg
  <2>1. m \in Messages /\ handled' \subseteq 1..Len(sent)
    BY <1>9, SentMessages DEF MessageArrives, StreamTypeOK
  <2> HIDE DEF m
  <2>2. \A l \in Listeners : got[l] \o Given(l, m, i) \in Seq(Events)
    <3> TAKE l \in Listeners
    <3>1. Given(l, m, i) \in Seq(Events)
      BY <2>1, GivenIsOne
    <3>2. got[l] \in Seq(Events)
      BY DEF StreamTypeOK
    <3> QED BY <3>1, <3>2
  <2>3. got' \in [Listeners -> Seq(Events)]
    BY <1>9, <2>2 DEF MessageArrives, Emit, StreamTypeOK, m
  <2> QED BY <1>9, <2>1, <2>3 DEF MessageArrives, StreamTypeOK
<1>10. CASE UNCHANGED streamVars BY <1>10 DEF streamVars, StreamTypeOK
<1> QED BY <1>1, <1>2, <1>3, <1>4, <1>5, <1>6, <1>7, <1>8, <1>9, <1>10 DEF StreamNext

(* Every variable keeps its type: one callback at most, whatever clients   *)
(* come and go.                                                            *)
THEOREM StreamTypeCorrect == StreamSpec => []StreamTypeOK
<1> QED BY TypeInit, TypeStep, PTL DEF StreamSpec

-----------------------------------------------------------------------------
(* The inductive invariant.                                                *)

(* An event is of a message that was handled, for a listener that asked.   *)
EventsOfHandled ==
  \A l \in Listeners : \A i \in DOMAIN got[l] :
    got[l][i].id \in handled /\ pattern[l] # None

(* A connection keeps the order.                                           *)
HandledFirst ==
  \A i \in handled : \A j \in DOMAIN sent \ handled : sent[i].on = sent[j].on => i < j

(* A client has asked for nothing, and was sent nothing, before it exists. *)
OnlyUsed ==
  /\ \A c \in Clients \ used : wanted[c] = {}
  /\ \A i \in DOMAIN sent : sent[i].on \in used

(* What the client of the field has asked for is registered: the schema    *)
(* goes after the filter.                                                  *)
WantedHaveSchema == client # None => \A f \in wanted[client] : schemaOf[f] # None

Covered(t) == \E f \in Sources : IsWild(f) /\ BrokerMatches(f, t)

(* A message on its way to the client of the field will be validated,      *)
(* unless a wildcard covers its topic or it is late: a schema goes when    *)
(* nothing is on its way any more.                                         *)
UnderwayValidated ==
  \A i \in DOMAIN sent \ handled :
    \/ Covered(sent[i].msg.topic)
    \/ SchemaFor(sent[i].msg.topic) # None
    \/ sent[i].late
    \/ sent[i].on # client

StreamInv ==
  /\ StreamTypeOK
  /\ EventsOfHandled
  /\ HandledFirst
  /\ OncePerArrival
  /\ EventsAreSound
  /\ OnlyUsed
  /\ WantedHaveSchema
  /\ UnderwayValidated
  /\ ConcreteTopicsValidated

(* A message leaves the events of a listener as they are or adds one.      *)
LEMMA EventsGrow ==
  ASSUME StreamTypeOK, NEW i \in 1..MaxMessages, MessageArrives(i), NEW l \in Listeners
  PROVE  \/ got'[l] = got[l]
         \/ /\ Len(got'[l]) = Len(got[l]) + 1
            /\ \A k \in 1..Len(got[l]) : got'[l][k] = got[l][k]
            /\ got'[l][Len(got[l]) + 1] =
                 [id |-> i, topic |-> sent[i].msg.topic, schema |-> SchemaFor(sent[i].msg.topic)]
            /\ pattern[l] # None
            /\ StreamMatches(pattern[l], sent[i].msg.topic)
            /\ Accepts(sent[i].msg)
<1> DEFINE m == sent[i].msg
           g == Given(l, m, i)
<1>1. m \in Messages
  BY SentMessages DEF MessageArrives
<1>2. got[l] \in Seq(Events)
  BY DEF StreamTypeOK
<1>3. got'[l] = got[l] \/ (Accepts(m) /\ got'[l] = got[l] \o g)
  BY DEF MessageArrives, Emit, StreamTypeOK
<1> HIDE DEF m
<1>4. /\ g \in Seq(Events)
      /\ \/ g = <<>>
         \/ /\ Len(g) = 1
            /\ g[1] = [id |-> i, topic |-> m.topic, schema |-> SchemaFor(m.topic)]
            /\ pattern[l] # None /\ StreamMatches(pattern[l], m.topic)
  BY <1>1, GivenIsOne
<1> HIDE DEF g
<1>5. CASE g = <<>>
  BY <1>2, <1>3, <1>5
<1>6. CASE g # <<>> /\ Accepts(m) /\ got'[l] = got[l] \o g
  <2>1. /\ Len(got'[l]) = Len(got[l]) + 1
        /\ \A k \in 1..Len(got[l]) : got'[l][k] = got[l][k]
        /\ got'[l][Len(got[l]) + 1] = g[1]
    BY <1>2, <1>4, <1>6
  <2> QED BY <1>4, <1>6, <2>1 DEF m
<1> QED BY <1>3, <1>5, <1>6

LEMMA InvInit == StreamInit => StreamInv
<1> SUFFICES ASSUME StreamInit PROVE StreamInv
  OBVIOUS
<1>1. \A l \in Listeners : DOMAIN got[l] = {}
  BY DEF StreamInit
<1>2. DOMAIN sent = {} /\ handled = {} /\ client = None
  BY DEF StreamInit
<1>3. OnlyUsed
  BY <1>2 DEF StreamInit, OnlyUsed
<1> QED
  BY <1>1, <1>2, <1>3, TypeInit
     DEF StreamInv, EventsOfHandled, HandledFirst, OncePerArrival, EventsAreSound,
         WantedHaveSchema, UnderwayValidated, ConcreteTopicsValidated

(* The conjuncts about the events, which only an arrival adds to.          *)
LEMMA EventsStep ==
  ASSUME StreamInv, [StreamNext]_streamVars
  PROVE  (EventsOfHandled /\ OncePerArrival /\ EventsAreSound /\ ConcreteTopicsValidated)'
<1> USE DEF StreamInv, connVars, subVars, eventVars
<1> Len(sent) \in Nat /\ DOMAIN sent = 1..Len(sent) /\ sent \in Seq(Deliveries)
  BY DEF StreamTypeOK
<1>1. \A l \in Listeners : got[l] \in Seq(Events) /\ DOMAIN got[l] = 1..Len(got[l])
                            /\ Len(got[l]) \in Nat
  BY DEF StreamTypeOK
<1>2. \A l \in Listeners : \A i \in DOMAIN got[l] :
        /\ got[l][i].id \in handled /\ got[l][i].id \in 1..Len(sent)
        /\ sent[got[l][i].id].on \in used
  BY DEF EventsOfHandled, OnlyUsed, StreamTypeOK
<1>3. ASSUME UNCHANGED got, handled \subseteq handled',
             \A i \in 1..Len(sent) : sent'[i] = sent[i],
             \A l \in Listeners : pattern[l] # None => pattern'[l] = pattern[l],
             client' = client \/ client' \notin used
      PROVE  (EventsOfHandled /\ OncePerArrival /\ EventsAreSound /\ ConcreteTopicsValidated)'
  <2>1. EventsOfHandled'
    BY <1>2, <1>3 DEF EventsOfHandled
  <2>2. EventsAreSound'
    BY <1>2, <1>3 DEF EventsAreSound, EventsOfHandled
  <2>3. OncePerArrival'
    BY <1>2, <1>3 DEF OncePerArrival
  <2>4. ConcreteTopicsValidated'
    BY <1>2, <1>3 DEF ConcreteTopicsValidated
  <2> QED BY <2>1, <2>2, <2>3, <2>4
<1>4. ASSUME NEW n \in 1..MaxMessages, MessageArrives(n)
      PROVE  (EventsOfHandled /\ OncePerArrival /\ EventsAreSound /\ ConcreteTopicsValidated)'
  <2> DEFINE m == sent[n].msg
             e == [id |-> n, topic |-> m.topic, schema |-> SchemaFor(m.topic)]
  <2>1. /\ n \in DOMAIN sent \ handled /\ handled' = handled \cup {n}
        /\ UNCHANGED <<client, sent, pattern, schemaOf>>
    BY <1>4 DEF MessageArrives
  <2>2. m \in Messages /\ m.topic \in Topics
    BY <2>1, SentMessages DEF Messages
  <2>3. Accepts(m) => m.json /\ (SchemaFor(m.topic) # None => SchemaFor(m.topic) \in m.fits)
    BY DEF Accepts
  <2>4. \A l \in Listeners : pattern[l] # None /\ StreamMatches(pattern[l], m.topic)
                              => BrokerMatches(pattern[l], m.topic)
    BY <2>2, StreamWithinBroker, TopicAssumption DEF StreamTypeOK
  <2>5. SchemaFor(m.topic) = None => Covered(m.topic) \/ sent[n].late \/ sent[n].on # client
    BY <2>1 DEF UnderwayValidated
  <2> HIDE DEF m
  <2>6. \A l \in Listeners :
          \/ got'[l] = got[l]
          \/ /\ Len(got'[l]) = Len(got[l]) + 1
             /\ \A i \in 1..Len(got[l]) : got'[l][i] = got[l][i]
             /\ got'[l][Len(got[l]) + 1] = e
             /\ pattern[l] # None /\ StreamMatches(pattern[l], m.topic) /\ Accepts(m)
    BY <1>4, EventsGrow DEF m
  <2>7. \A l \in Listeners : \A i \in DOMAIN got'[l] :
          \/ i \in 1..Len(got[l]) /\ got'[l][i] = got[l][i]
          \/ /\ i = Len(got[l]) + 1 /\ got'[l][i] = e
             /\ pattern[l] # None /\ StreamMatches(pattern[l], m.topic) /\ Accepts(m)
    <3> TAKE l \in Listeners
    <3>1. got'[l] \in Seq(Events) /\ DOMAIN got'[l] = 1..Len(got'[l])
      BY TypeStep DEF StreamTypeOK
    <3> QED BY <1>1, <2>6, <3>1
  <2>8. e.id = n /\ e.topic = m.topic /\ e.schema = SchemaFor(m.topic)
    OBVIOUS
  <2> HIDE DEF e
  <2>9. EventsOfHandled'
    BY <1>1, <1>2, <2>1, <2>7, <2>8 DEF EventsOfHandled
  <2>10. OncePerArrival'
    <3> SUFFICES ASSUME NEW l \in Listeners, NEW i \in DOMAIN got'[l], NEW j \in DOMAIN got'[l], i < j
                 PROVE  /\ got'[l][i].id # got'[l][j].id
                        /\ sent[got'[l][i].id].on = sent[got'[l][j].id].on =>
                             got'[l][i].id < got'[l][j].id
      BY <2>1 DEF OncePerArrival
    <3>1. i \in 1..Len(got[l]) /\ got'[l][i] = got[l][i]
      <4>1. i \in 1..Len(got[l]) \/ i = Len(got[l]) + 1
        BY <2>7
      <4>2. j \in 1..Len(got[l]) \/ j = Len(got[l]) + 1
        BY <2>7
      <4> QED BY <1>1, <2>7, <4>1, <4>2
    <3>2. CASE j \in 1..Len(got[l]) /\ got'[l][j] = got[l][j]
      BY <1>1, <3>1, <3>2 DEF OncePerArrival
    <3>3. CASE got'[l][j] = e
      <4>1. got[l][i].id \in handled
        BY <1>1, <1>2, <3>1
      <4> QED BY <2>1, <2>8, <3>1, <3>3, <4>1 DEF HandledFirst
    <3> QED BY <2>7, <3>2, <3>3
  <2>11. EventsAreSound'
    <3> SUFFICES ASSUME NEW l \in Listeners, NEW i \in DOMAIN got'[l]
                 PROVE  /\ sent[got'[l][i].id].msg.json
                        /\ got'[l][i].schema # None => got'[l][i].schema \in sent[got'[l][i].id].msg.fits
                        /\ BrokerMatches(pattern[l], got'[l][i].topic)
      BY <2>1 DEF EventsAreSound
    <3>1. CASE i \in 1..Len(got[l]) /\ got'[l][i] = got[l][i]
      BY <1>1, <3>1 DEF EventsAreSound
    <3>2. CASE /\ got'[l][i] = e /\ Accepts(m)
               /\ pattern[l] # None /\ StreamMatches(pattern[l], m.topic)
      <4>1. sent[e.id].msg = m
        BY <2>8 DEF m
      <4> QED BY <2>3, <2>4, <2>8, <3>2, <4>1
    <3> QED BY <2>7, <3>1, <3>2
  <2>12. ConcreteTopicsValidated'
    <3> SUFFICES ASSUME NEW l \in Listeners, NEW i \in DOMAIN got'[l], got'[l][i].schema = None
                 PROVE  \/ Covered(got'[l][i].topic)
                        \/ sent[got'[l][i].id].late
                        \/ sent[got'[l][i].id].on # client
      BY <2>1 DEF ConcreteTopicsValidated, Covered
    <3>1. CASE i \in 1..Len(got[l]) /\ got'[l][i] = got[l][i]
      BY <1>1, <3>1 DEF ConcreteTopicsValidated, Covered
    <3>2. CASE got'[l][i] = e
      BY <2>5, <2>8, <3>2
    <3> QED BY <2>7, <3>1, <3>2
  <2> QED BY <2>9, <2>10, <2>11, <2>12
<1>5. ASSUME NEW l \in Listeners, NEW p \in Patterns, Listen(l, p)
      PROVE  (EventsOfHandled /\ OncePerArrival /\ EventsAreSound /\ ConcreteTopicsValidated)'
  BY <1>3, <1>5 DEF Listen, StreamTypeOK
<1>6. ASSUME NEW x \in Messages, BrokerSends(x)
      PROVE  (EventsOfHandled /\ OncePerArrival /\ EventsAreSound /\ ConcreteTopicsValidated)'
  BY <1>3, <1>6 DEF BrokerSends
<1>7. ASSUME NEW c \in Clients, Opens(c) \/ Connects(c) \/ Breaks(c)
      PROVE  (EventsOfHandled /\ OncePerArrival /\ EventsAreSound /\ ConcreteTopicsValidated)'
  <2>1. /\ UNCHANGED <<got, sent, pattern>> /\ handled \subseteq handled'
        /\ client' = client \/ client' \notin used
    BY <1>7 DEF Opens, Connects, Breaks
  <2> QED BY <1>3, <2>1
<1>8. CASE \/ SetupMessageHandler \/ OnModuleDestroy
           \/ \E f \in Sources, s \in Schemas : SubscribeToMachine(f, s)
           \/ \E f \in Sources : UnsubscribeFromMachine(f)
           \/ UNCHANGED streamVars
  BY <1>3, <1>8
     DEF SetupMessageHandler, OnModuleDestroy, SubscribeToMachine,
         UnsubscribeFromMachine, streamVars
<1> QED BY <1>4, <1>5, <1>6, <1>7, <1>8 DEF StreamNext

(* The conjuncts about what was asked for and what is on its way.          *)
LEMMA SchemasStep ==
  ASSUME StreamInv, [StreamNext]_streamVars
  PROVE  (HandledFirst /\ OnlyUsed /\ WantedHaveSchema /\ UnderwayValidated)'
<1> USE DEF StreamInv, connVars, subVars, eventVars
<1> Len(sent) \in Nat /\ DOMAIN sent = 1..Len(sent) /\ sent \in Seq(Deliveries)
    /\ handled \subseteq DOMAIN sent /\ None \notin Clients /\ client \in used \cup {None}
  BY MessageAssumption DEF StreamTypeOK
<1>1. ASSUME NEW f \in Sources, NEW s \in Schemas, SubscribeToMachine(f, s)
      PROVE  (HandledFirst /\ OnlyUsed /\ WantedHaveSchema /\ UnderwayValidated)'
  <2>1. schemaOf'[f] # None /\ \A g \in Sources \ {f} : schemaOf'[g] = schemaOf[g]
    BY <1>1, MessageAssumption DEF SubscribeToMachine, StreamTypeOK
  <2>2. /\ \A c \in Clients : wanted'[c] \subseteq wanted[c] \cup {f} /\ wanted[c] \subseteq Sources
        /\ \A c \in Clients \ used : wanted'[c] = wanted[c]
        /\ UNCHANGED <<client, used, sent, handled>>
    BY <1>1 DEF SubscribeToMachine, StreamTypeOK
  <2>3. WantedHaveSchema'
    BY <2>1, <2>2 DEF WantedHaveSchema, StreamTypeOK
  <2>4. \A t : SchemaFor(t) # None => SchemaFor(t)' # None
    BY <2>1 DEF SchemaFor
  <2>5. UnderwayValidated'
    BY <2>2, <2>4 DEF UnderwayValidated, Covered
  <2> QED BY <2>2, <2>3, <2>5 DEF HandledFirst, OnlyUsed
<1>2. ASSUME NEW f \in Sources, UnsubscribeFromMachine(f)
      PROVE  (HandledFirst /\ OnlyUsed /\ WantedHaveSchema /\ UnderwayValidated)'
  <2>1. /\ client \in used /\ client \in Clients
        /\ wanted'[client] = wanted[client] \ {f}
        /\ \A c \in Clients \ {client} : wanted'[c] = wanted[c]
        /\ \A g \in Sources \ {f} : schemaOf'[g] = schemaOf[g]
        /\ UNCHANGED <<client, used, sent, handled>>
    BY <1>2 DEF UnsubscribeFromMachine, StreamTypeOK
  <2>2. WantedHaveSchema'
    BY <2>1 DEF WantedHaveSchema, StreamTypeOK
  <2>3. UnderwayValidated'
    BY <1>2 DEF UnsubscribeFromMachine, UnderwayValidated
  <2> QED BY <2>1, <2>2, <2>3 DEF HandledFirst, OnlyUsed
<1>3. ASSUME NEW m \in Messages, BrokerSends(m)
      PROVE  (HandledFirst /\ OnlyUsed /\ WantedHaveSchema /\ UnderwayValidated)'
  <2> DEFINE n == Len(sent) + 1
  <2>1. /\ Len(sent') = n /\ DOMAIN sent' = 1..n
        /\ sent'[n].msg = m /\ sent'[n].on = session
        /\ sent'[n].late = ~Serves(wanted[session], m.topic)
        /\ \A i \in 1..Len(sent) : sent'[i] = sent[i]
        /\ UNCHANGED <<client, used, handled, schemaOf, wanted>>
    BY <1>3 DEF BrokerSends
  <2>2. session \in used
    BY <1>3 DEF BrokerSends, StreamTypeOK
  <2>3. \/ Covered(m.topic) \/ SchemaFor(m.topic) # None
        \/ ~Serves(wanted[session], m.topic) \/ session # client
    <3> SUFFICES ASSUME Serves(wanted[client], m.topic), session = client
                 PROVE  Covered(m.topic) \/ SchemaFor(m.topic) # None
      OBVIOUS
    <3>1. PICK f \in wanted[client] : BrokerMatches(f, m.topic)
      BY DEF Serves
    <3>2. f \in Sources /\ m.topic \in Topics /\ IsFilter(f) /\ IsFilter(m.topic) /\ client # None
      BY <1>3, <2>2, TopicAssumption DEF Messages, StreamTypeOK
    <3>3. CASE IsWild(f) BY <3>1, <3>2, <3>3 DEF Covered
    <3>4. CASE ~IsWild(f)
      <4>1. f = m.topic BY <3>1, <3>2, <3>4, ConcreteMatch
      <4> QED BY <3>2, <4>1 DEF SchemaFor, WantedHaveSchema
    <3> QED BY <3>3, <3>4
  <2>4. \A t : SchemaFor(t)' = SchemaFor(t) /\ Covered(t)' = Covered(t)
    BY <2>1 DEF SchemaFor, Covered
  <2> HIDE DEF n
  <2>5. ASSUME NEW i \in (1..n) \ handled
        PROVE  \/ Covered(sent'[i].msg.topic) \/ SchemaFor(sent'[i].msg.topic) # None
               \/ sent'[i].late \/ sent'[i].on # client
    <3>1. CASE i = n BY <2>1, <2>3, <3>1
    <3>2. CASE i # n
      <4>1. i \in 1..Len(sent) BY <3>2 DEF n
      <4> QED BY <2>1, <4>1 DEF UnderwayValidated
    <3> QED BY <3>1, <3>2
  <2>6. UnderwayValidated'
    BY <2>1, <2>4, <2>5 DEF UnderwayValidated
  <2>7. HandledFirst'
    BY <2>1 DEF HandledFirst, n
  <2>8. OnlyUsed'
    BY <2>1, <2>2 DEF OnlyUsed, n
  <2> QED BY <2>1, <2>6, <2>7, <2>8 DEF WantedHaveSchema
<1>4. ASSUME NEW n \in 1..MaxMessages, MessageArrives(n)
      PROVE  (HandledFirst /\ OnlyUsed /\ WantedHaveSchema /\ UnderwayValidated)'
  <2>1. /\ n \in DOMAIN sent \ handled /\ handled' = handled \cup {n}
        /\ \A j \in DOMAIN sent \ handled : sent[j].on = sent[n].on => n =< j
        /\ UNCHANGED <<client, used, wanted, sent, schemaOf>>
    BY <1>4 DEF MessageArrives
  <2>2. HandledFirst'
    BY <2>1 DEF HandledFirst
  <2>3. UnderwayValidated'
    BY <2>1 DEF UnderwayValidated, SchemaFor, Covered
  <2> QED BY <2>1, <2>2, <2>3 DEF OnlyUsed, WantedHaveSchema
<1>5. ASSUME NEW c \in Clients, Opens(c)
      PROVE  (HandledFirst /\ OnlyUsed /\ WantedHaveSchema /\ UnderwayValidated)'
  <2>1. /\ c \notin used /\ client' = c /\ used' = used \cup {c}
        /\ UNCHANGED <<wanted, sent, handled, schemaOf>>
    BY <1>5 DEF Opens
  <2>2. wanted[c] = {} /\ \A i \in DOMAIN sent : sent[i].on # c
    BY <2>1 DEF OnlyUsed
  <2> QED BY <2>1, <2>2 DEF HandledFirst, OnlyUsed, WantedHaveSchema, UnderwayValidated
<1>6. ASSUME NEW c \in Clients, Breaks(c)
      PROVE  (HandledFirst /\ OnlyUsed /\ WantedHaveSchema /\ UnderwayValidated)'
  <2>1. /\ handled' = handled \cup {i \in DOMAIN sent : sent[i].on = c}
        /\ UNCHANGED <<client, used, wanted, sent, schemaOf>>
    BY <1>6 DEF Breaks
  <2>2. HandledFirst'
    BY <2>1 DEF HandledFirst
  <2>3. UnderwayValidated'
    BY <2>1 DEF UnderwayValidated, SchemaFor, Covered
  <2> QED BY <2>1, <2>2, <2>3 DEF OnlyUsed, WantedHaveSchema
<1>7. CASE \/ \E c \in Clients : Connects(c)
           \/ SetupMessageHandler \/ OnModuleDestroy
           \/ \E l \in Listeners, p \in Patterns : Listen(l, p)
           \/ UNCHANGED streamVars
  <2>1. UNCHANGED <<client, used, wanted, handled, sent, schemaOf>>
    BY <1>7 DEF Connects, SetupMessageHandler, OnModuleDestroy, Listen, streamVars
  <2> QED BY <2>1 DEF HandledFirst, OnlyUsed, WantedHaveSchema, UnderwayValidated, SchemaFor, Covered
<1> QED BY <1>1, <1>2, <1>3, <1>4, <1>5, <1>6, <1>7 DEF StreamNext

LEMMA InvStep == StreamInv /\ [StreamNext]_streamVars => StreamInv'
BY TypeStep, EventsStep, SchemasStep DEF StreamInv

LEMMA InvAlways == StreamSpec => []StreamInv
<1> QED BY InvInit, InvStep, PTL DEF StreamSpec

-----------------------------------------------------------------------------
(* The theorems.                                                           *)

(* However clients come, go and replace one another, a listener has at     *)
(* most one event of a message, and the events of one client's messages    *)
(* have the order in which the broker sent.                                *)
THEOREM EventsInOrder == StreamSpec => []OncePerArrival
<1>1. StreamInv => OncePerArrival
  BY DEF StreamInv
<1> QED BY <1>1, InvAlways, PTL

(* What createFromMqtt() emits is JSON of the schema it is marked with,    *)
(* and of a topic the broker would match with the listener's pattern.      *)
THEOREM EventsAlwaysSound == StreamSpec => []EventsAreSound
<1>1. StreamInv => EventsAreSound
  BY DEF StreamInv
<1> QED BY <1>1, InvAlways, PTL

(* Three things only let an event pass without validation: a wildcard that *)
(* covers its topic, a message the broker had left after the UNSUBACK (the *)
(* schema is gone by then), and a client that was replaced and still holds *)
(* a subscription the dispatcher has given up.                             *)
THEOREM NamedTopicsValidated == StreamSpec => []ConcreteTopicsValidated
<1>1. StreamInv => ConcreteTopicsValidated
  BY DEF StreamInv
<1> QED BY <1>1, InvAlways, PTL

-----------------------------------------------------------------------------
(* What a listener is not given.                                           *)

(* The pattern without "+", and without its "#" standing for nothing.      *)
Expressible(f, t) ==
  /\ \A i \in DOMAIN f : f[i] # Plus
  /\ f[Len(f)] = Hash => Len(f) =< Len(t)

(* Where getMessageStreamByTopic() and the broker differ (hazard: '+' is   *)
(* escaped before it is replaced): for every pattern and every topic, the  *)
(* regular expression loses the patterns with "+", which match nothing,    *)
(* and the topic above a final "#", and nothing else.  (The topics of the  *)
(* broker itself, which begin with "$", are left out: a pattern that       *)
(* begins with "#" lets them pass, which the broker would not match.)      *)
THEOREM WhereMatchingDiffers ==
  ASSUME NEW f, NEW t, IsFilter(f), IsFilter(t), ~IsWild(t), t[1] \notin Reserved
  PROVE  StreamMatches(f, t) <=> BrokerMatches(f, t) /\ Expressible(f, t)
<1> f \in Seq(STRING) /\ t \in Seq(STRING) /\ Len(f) \in Nat \ {0} /\ Len(t) \in Nat \ {0}
    /\ DOMAIN f = 1..Len(f) /\ DOMAIN t = 1..Len(t)
  BY DEF IsFilter
<1>1. ASSUME StreamMatches(f, t) PROVE Expressible(f, t)
  BY <1>1 DEF StreamMatches, Expressible
<1>2. ASSUME BrokerMatches(f, t), Expressible(f, t), f[Len(f)] # Hash PROVE f = t
  <2>1. Len(f) = Len(t) /\ \A i \in 1..Len(f) : f[i] = t[i]
    BY <1>2 DEF BrokerMatches, LevelMatches, Expressible
  <2> QED
    BY <2>1
<1>3. ASSUME BrokerMatches(f, t), Expressible(f, t) PROVE StreamMatches(f, t)
  <2>1. CASE f[Len(f)] # Hash
    BY <1>2, <1>3, <2>1 DEF StreamMatches, Expressible
  <2>2. CASE f[Len(f)] = Hash
    BY <1>3, <2>2 DEF BrokerMatches, LevelMatches, StreamMatches, Expressible
  <2> QED
    BY <2>1, <2>2
<1> QED
  BY <1>1, <1>3, StreamWithinBroker

(* Nothing is subscribed, and so nothing sent, before the callback is      *)
(* installed.                                                              *)
HandlerFirst ==
  (\E c \in Clients : wanted[c] # {}) \/ draining # {} \/ sent # <<>> => handlers = 1

LEMMA HandlerStep == StreamTypeOK /\ HandlerFirst /\ [StreamNext]_streamVars => HandlerFirst'
<1> SUFFICES ASSUME StreamTypeOK, HandlerFirst, [StreamNext]_streamVars PROVE HandlerFirst'
  OBVIOUS
<1> USE DEF connVars, subVars, eventVars
<1>1. CASE SetupMessageHandler
  BY <1>1 DEF SetupMessageHandler, HandlerFirst
<1>2. CASE \E m \in Messages : BrokerSends(m)
  <2>1. (\E c \in Clients : wanted[c] # {}) \/ draining # {}
    BY <1>2 DEF BrokerSends, Serves, StreamTypeOK
  <2>2. UNCHANGED handlers
    BY <1>2 DEF BrokerSends
  <2> QED
    BY <2>1, <2>2 DEF HandlerFirst
<1>3. CASE \E f \in Sources : UnsubscribeFromMachine(f)
  <2>1. PICK f \in Sources : UnsubscribeFromMachine(f)
    BY <1>3
  <2>2. /\ \A c \in Clients : wanted'[c] \subseteq wanted[c]
        /\ draining' \subseteq draining \cup wanted[client]
        /\ client \in Clients /\ UNCHANGED <<handlers, sent>>
    BY <2>1 DEF UnsubscribeFromMachine, StreamTypeOK
  <2> QED
    BY <2>2 DEF HandlerFirst
<1>4. CASE \E f \in Sources, s \in Schemas : SubscribeToMachine(f, s)
  BY <1>4 DEF SubscribeToMachine, HandlerFirst
<1>5. CASE UNCHANGED <<handlers, wanted, sent>> /\ draining' \subseteq draining
  BY <1>5 DEF HandlerFirst
<1>6. CASE \E c \in Clients : Opens(c) \/ Connects(c) \/ Breaks(c)
  <2>1. UNCHANGED <<handlers, wanted, sent>> /\ draining' \subseteq draining
    BY <1>6 DEF Opens, Connects, Breaks
  <2> QED
    BY <1>5, <2>1
<1> QED
  BY <1>1, <1>2, <1>3, <1>4, <1>5, <1>6
     DEF StreamNext, OnModuleDestroy, Listen, MessageArrives, streamVars

(* What l is due of the message i.                                         *)
Due(l, i) ==
  LET m == sent[i].msg IN
  /\ ~completed /\ Accepts(m)
  /\ pattern[l] # None
  /\ BrokerMatches(pattern[l], m.topic) /\ Expressible(pattern[l], m.topic)

EventOf(i) ==
  [id |-> i, topic |-> sent[i].msg.topic, schema |-> SchemaFor(sent[i].msg.topic)]

(* The stream loses nothing else: however often connections have come and  *)
(* gone and schemas were replaced, a message that arrives is given once to *)
(* every listener whose pattern the broker would match, unless it is no    *)
(* JSON of its schema, the subject has completed or the pattern is one of  *)
(* those above; and to nobody else.                                        *)
THEOREM NothingElseIsLost ==
  StreamSpec =>
    [][\A i \in 1..MaxMessages : MessageArrives(i) =>
         \A l \in Listeners :
           got'[l] = IF Due(l, i) THEN Append(got[l], EventOf(i)) ELSE got[l]]_streamVars
<1>1. StreamInit => HandlerFirst
  BY DEF StreamInit, HandlerFirst
<1>2. ASSUME StreamTypeOK, HandlerFirst, NEW i \in 1..MaxMessages, MessageArrives(i),
             NEW l \in Listeners
      PROVE  got'[l] = IF Due(l, i) THEN Append(got[l], EventOf(i)) ELSE got[l]
  <2> DEFINE m == sent[i].msg
             e == [id |-> i, topic |-> m.topic, schema |-> SchemaFor(m.topic)]
  <2>1. /\ i \in 1..Len(sent) /\ Len(sent) \in Nat
        /\ sent \in Seq(Deliveries) /\ got[l] \in Seq(Events) /\ got \in [Listeners -> Seq(Events)]
    BY <1>2 DEF MessageArrives, StreamTypeOK
  <2>2. m \in Messages /\ handlers = 1
    <3>1. sent # <<>> /\ sent[i] \in Deliveries
      BY <2>1
    <3> QED
      BY <1>2, <3>1 DEF HandlerFirst, Deliveries
  <2>3. m.topic \in Topics /\ IsFilter(m.topic) /\ ~IsWild(m.topic) /\ m.topic[1] \notin Reserved
    BY <2>2, TopicAssumption DEF Messages
  <2>4. pattern[l] # None => IsFilter(pattern[l])
    BY <1>2, TopicAssumption DEF StreamTypeOK
  <2>5. pattern[l] # None /\ StreamMatches(pattern[l], m.topic) <=>
          /\ pattern[l] # None
          /\ BrokerMatches(pattern[l], m.topic) /\ Expressible(pattern[l], m.topic)
    BY <2>3, <2>4, WhereMatchingDiffers
  <2>7. EventOf(i) = e /\ e \in Events
    <3>1. SchemaFor(m.topic) \in Schemas \cup {None}
      BY <1>2 DEF SchemaFor, StreamTypeOK
    <3> QED
      BY <2>3, <3>1 DEF EventOf, Events
  <2>8. Due(l, i) <=> /\ ~completed /\ Accepts(m)
                      /\ pattern[l] # None /\ StreamMatches(pattern[l], m.topic)
    BY <2>5 DEF Due
  <2>9. got'[l] = IF Accepts(m) /\ ~completed THEN got[l] \o Given(l, m, i) ELSE got[l]
    BY <1>2, <2>1 DEF MessageArrives, Emit
  <2>10. Given(l, m, i) = IF pattern[l] # None /\ StreamMatches(pattern[l], m.topic)
                          THEN [k \in 1..1 |-> e] ELSE <<>>
    BY <2>2 DEF Given
  <2> HIDE DEF m, e
  <2>11. got[l] \o <<>> = got[l]
    BY <2>1
  <2>12. got[l] \o [k \in 1..1 |-> e] = Append(got[l], e)
    <3>1. [k \in 1..1 |-> e] = <<e>>
      OBVIOUS
    <3> QED
      BY <2>1, <2>7, <3>1
  <2> QED
    BY <2>7, <2>8, <2>9, <2>10, <2>11, <2>12
<1>3. StreamTypeOK /\ HandlerFirst
        => (\A i \in 1..MaxMessages : MessageArrives(i) =>
              \A l \in Listeners :
                got'[l] = IF Due(l, i) THEN Append(got[l], EventOf(i)) ELSE got[l])
  BY <1>2
<1>4. StreamSpec => []HandlerFirst
  BY <1>1, HandlerStep, StreamTypeCorrect, PTL DEF StreamSpec
<1> QED
  BY <1>3, <1>4, StreamTypeCorrect, PTL
=============================================================================
