---------------------------- MODULE IngressProofs ----------------------------
(***************************************************************************)
(* Theorems about Ingress for every set of messages, events and streams,   *)
(* every buffer size and all times, and about Inbound for all bots, chats  *)
(* and messages, about CardEvents for all cards, streams and events, and   *)
(* about Access for all configurations and calls.                          *)
(***************************************************************************)
EXTENDS Ingress, Inbound, CardEvents, Access, TLAPS

USE IngressAssumption

(* What is known of an event.                                              *)
LEMMA EventType ==
    ASSUME NEW d \in Deliveries
    PROVE  /\ Event[d].message \in Messages
           /\ Event[d].app \in Apps
           /\ Event[d].conversation \in Conversations
BY DEF Apps, Conversations

LEMMA LaterType ==
    ASSUME NEW a \in Int, NEW b \in Int
    PROVE  Later(a, b) \in {a, b} /\ Later(a, b) >= a /\ Later(a, b) >= b
BY DEF Later

(* Streams that take an event are candidates with room for it.             *)
LEMMA TakersReady ==
    ASSUME NEW candidates, NEW chosen \in Takers(candidates), NEW s \in chosen
    PROVE  s \in candidates /\ HasRoom(s)
BY DEF Takers

LEMMA EnqueueType ==
    ASSUME TypeOK, NEW candidates, candidates \subseteq Subscriptions,
           NEW chosen \in Takers(candidates), Enqueue(chosen)
    PROVE  /\ queued' \in [Subscriptions -> 0 .. Capacity]
           /\ To(chosen) \in SUBSET Providers
<1>1. \A s \in chosen : s \in Subscriptions /\ queued[s] < Capacity
  BY TakersReady DEF HasRoom
<1>2. queued' \in [Subscriptions -> 0 .. Capacity]
  BY <1>1 DEF Enqueue, TypeOK
<1>3. To(chosen) \in SUBSET Providers
  BY <1>1 DEF To, Providers
<1> QED
  BY <1>2, <1>3

LEMMA CandidatesType ==
    ASSUME NEW d \in Deliveries
    PROVE  LegacyCandidates(d) \subseteq Subscriptions
           /\ AgentCandidates(d) \subseteq Subscriptions
BY DEF LegacyCandidates, AgentCandidates, Of

(* A moment of the clock and its distance to an expiry.                    *)
LEMMA TimeType ==
    ASSUME TypeOK
    PROVE  /\ now \in Nat /\ now >= 1
           /\ now + TTL \in Times /\ now + TTL > 0
           /\ now + PinFor \in Times /\ now + PinFor > 0
BY DEF TypeOK, Times

LEMMA InitTypeOK == Init => TypeOK
BY DEF Init, TypeOK, Times, NoDelivery, NotTaken

LEMMA StreamsTypeOK ==
    ASSUME TypeOK, NEW s \in Subscriptions,
           Subscribe(s) \/ Unsubscribe(s) \/ Consume(s)
    PROVE  TypeOK'
<1>1. CASE Subscribe(s) \/ Unsubscribe(s)
  <2>1. 0 \in 0 .. Capacity
    OBVIOUS
  <2> QED
    BY <1>1, <2>1 DEF Subscribe, Unsubscribe, TypeOK, Times
<1>2. CASE Consume(s)
  <2>1. queued[s] \in 0 .. Capacity /\ queued[s] - 1 \in 0 .. Capacity
    BY <1>2 DEF Consume, TypeOK
  <2> QED
    BY <1>2, <2>1 DEF Consume, TypeOK, Times
<1> QED
  BY <1>1, <1>2

LEMMA RememberType ==
    ASSUME TypeOK, NEW d \in Deliveries, Remember(d)
    PROVE  routes' \in [Deliveries \cup Messages -> Times]
BY TimeType, EventType DEF Remember, TypeOK

LEMMA TakeType ==
    ASSUME TypeOK, NEW d \in Deliveries, NEW path \in Paths, NEW chosen,
           To(chosen) \in SUBSET Providers, Take(d, path, chosen)
    PROVE  taken' \in [Messages -> [path : Paths \cup {"none"}, to : SUBSET Providers,
                               under : Deliveries \cup {NoOne}, until : Times]]
BY TimeType, EventType DEF Take, TypeOK

LEMMA DispatchTypeOK ==
    ASSUME TypeOK, NEW d \in Deliveries, NEW chosen,
           DispatchLegacy(d, chosen) \/ DispatchAgent(d, chosen) \/ DispatchHandled(d)
    PROVE  TypeOK'
<1>1. CASE DispatchLegacy(d, chosen)
  <2>1. queued' \in [Subscriptions -> 0 .. Capacity] /\ To(chosen) \in SUBSET Providers
    BY <1>1, EnqueueType, CandidatesType DEF DispatchLegacy
  <2>2. routes' \in [Deliveries \cup Messages -> Times]
    BY <1>1, RememberType DEF DispatchLegacy
  <2>3. taken' \in [Messages -> [path : Paths \cup {"none"}, to : SUBSET Providers,
                               under : Deliveries \cup {NoOne}, until : Times]]
    BY <1>1, <2>1, TakeType DEF DispatchLegacy, Paths
  <2>4. legacy' \in [Deliveries -> [to : SUBSET Providers, expiresAt : Times]]
    BY <1>1, <2>1, TimeType DEF DispatchLegacy, TypeOK
  <2> QED
    BY <1>1, <2>1, <2>2, <2>3, <2>4 DEF DispatchLegacy, TypeOK, Times
<1>2. CASE DispatchAgent(d, chosen)
  <2>1. queued' \in [Subscriptions -> 0 .. Capacity] /\ To(chosen) \in SUBSET Providers
    BY <1>2, EnqueueType, CandidatesType DEF DispatchAgent
  <2>2. routes' \in [Deliveries \cup Messages -> Times]
    BY <1>2, RememberType DEF DispatchAgent
  <2>3. taken' \in [Messages -> [path : Paths \cup {"none"}, to : SUBSET Providers,
                               under : Deliveries \cup {NoOne}, until : Times]]
    BY <1>2, <2>1, TakeType DEF DispatchAgent, Paths
  <2>4. agent' \in [Deliveries -> [to : SUBSET Providers, expiresAt : Times]]
    BY <1>2, <2>1, TimeType DEF DispatchAgent, TypeOK
  <2>5. seen' \in [Messages -> Times]
    BY <1>2, TimeType, EventType DEF DispatchAgent, TypeOK
  <2>6. conversation' \in
            [Conversations -> [app : Apps \cup {NoOne}, expiresAt : Times]]
    BY <1>2, TimeType, EventType DEF DispatchAgent, TypeOK
  <2> QED
    BY <1>2, <2>1, <2>2, <2>3, <2>4, <2>5, <2>6 DEF DispatchAgent, TypeOK, Times
<1>3. CASE DispatchHandled(d)
  BY <1>3, RememberType DEF DispatchHandled, TypeOK, Times
<1> QED
  BY <1>1, <1>2, <1>3

LEMMA StartTypeOK ==
    ASSUME TypeOK, NEW d \in Deliveries, Start(d)
    PROVE  TypeOK'
<1>1. /\ agent[d].expiresAt \in Times
      /\ seen[Event[d].message] \in Times
  BY EventType DEF TypeOK
<1>2. /\ PinBroker(agent[d].expiresAt) \in Times
      /\ PinBroker(seen[Event[d].message]) \in Times
  BY <1>1, TimeType, LaterType DEF PinBroker, Times
<1>3. agent' \in [Deliveries -> [to : SUBSET Providers, expiresAt : Times]]
  BY <1>2 DEF Start, TypeOK
<1>4. seen' \in [Messages -> Times]
  BY <1>2 DEF Start, TypeOK
<1>5. routes' \in [Deliveries \cup Messages -> Times]
  BY TimeType, EventType DEF Start, PinRoutes, TypeOK
<1> QED
  BY <1>3, <1>4, <1>5 DEF Start, TypeOK, Times

LEMMA RefreshTypeOK ==
    ASSUME TypeOK, NEW k \in Conversations, Refresh(k)
    PROVE  TypeOK'
<1>1. conversation' \in [Conversations -> [app : Apps \cup {NoOne}, expiresAt : Times]]
  BY TimeType DEF Refresh, TypeOK
<1> QED
  BY <1>1 DEF Refresh, TypeOK, Times

LEMMA NextTypeOK == TypeOK /\ [Next]_vars => TypeOK'
<1> SUFFICES ASSUME TypeOK, [Next]_vars PROVE TypeOK'
  OBVIOUS
<1>1. CASE IngressTick
  BY <1>1 DEF IngressTick, Tick, TypeOK, Times
<1>2. CASE UNCHANGED vars
  BY <1>2 DEF vars, TypeOK, Times
<1> QED
  BY <1>1, <1>2, StreamsTypeOK, DispatchTypeOK, StartTypeOK, RefreshTypeOK DEF Next

(* Every variable has its type, for all constants: in particular no        *)
(* dispatch fills a channel beyond its buffer (the select of               *)
(* dispatchMessageForProvider and of commandBroker.dispatch).              *)
THEOREM TypeCorrect == Spec => []TypeOK
BY InitTypeOK, NextTypeOK, PTL DEF Spec

(***************************************************************************)
(* The inductive invariant.  What each message's taker was promised rests  *)
(* on four records of it, each with an expiry of its own; the first part   *)
(* says that those of the agent broker all outlast the promise, the second *)
(* that the route of a message that only legacy consumers took does.       *)
(***************************************************************************)
HeldByAgent(m) ==
    LET d == taken[m].under IN
    /\ d \in Deliveries
    /\ Event[d].message = m
    /\ agent[d].expiresAt >= taken[m].until
    /\ taken[m].to \subseteq agent[d].to
    /\ seen[m] >= taken[m].until
    /\ conversation[Event[d].conversation].expiresAt >= taken[m].until
    /\ conversation[Event[d].conversation].app = Event[d].app

AgentsHold ==
    \A m \in Messages : Lasting(m) /\ taken[m].path = "agent" => HeldByAgent(m)

RoutesHold ==
    \A m \in Messages :
        taken[m].path = "legacy" /\ Untouched(m) => routes[m] >= taken[m].until

(* Nothing is promised for longer than the lifetime.                       *)
PromisesBounded == \A m \in Messages : taken[m].until <= now + TTL

IInv == TypeOK /\ AgentsHold /\ RoutesHold /\ PromisesBounded

LEMMA InitIInv == Init => IInv
BY InitTypeOK DEF Init, IInv, AgentsHold, RoutesHold, PromisesBounded, Lasting, NotTaken

(* Steps that leave the records of the brokers alone and do not move the   *)
(* clock back keep what an agent was promised.                             *)
LEMMA AgentsHoldKept ==
    ASSUME IInv, now' \in Nat, now' >= now,
           UNCHANGED <<agent, seen, conversation, taken>>
    PROVE  AgentsHold'
<1> SUFFICES ASSUME NEW m \in Messages, Lasting(m)', taken[m].path = "agent"
             PROVE  HeldByAgent(m)'
  BY DEF AgentsHold
<1>1. Lasting(m)
  BY TimeType DEF Lasting, IInv, TypeOK, Times
<1> QED
  BY <1>1 DEF IInv, AgentsHold, HeldByAgent

LEMMA PromisesBoundedKept ==
    ASSUME IInv, now' \in Nat, now' >= now, UNCHANGED taken
    PROVE  PromisesBounded'
<1> SUFFICES ASSUME NEW m \in Messages PROVE taken[m].until <= now' + TTL
  BY DEF PromisesBounded
<1>1. taken[m].until \in Int /\ now \in Int
  BY DEF IInv, TypeOK, Times
<1> QED
  BY <1>1 DEF IInv, PromisesBounded

LEMMA QuietIInv ==
    ASSUME IInv, [Next]_vars,
           UNCHANGED <<routes, agent, seen, conversation, taken>>,
           now' \in Nat, now' >= now
    PROVE  IInv'
<1>1. RoutesHold'
  BY DEF IInv, RoutesHold, Untouched
<1> QED
  BY <1>1, AgentsHoldKept, PromisesBoundedKept, NextTypeOK DEF IInv

(* What is alive outlasts now; what is not has lapsed.                     *)
LEMMA LiveTimes ==
    ASSUME TypeOK, NEW expiry \in Times
    PROVE  /\ Live(expiry) <=> expiry >= now
           /\ ~Live(expiry) <=> expiry < now
BY TimeType DEF Live, Times

LEMMA DispatchLegacyIInv ==
    ASSUME IInv, NEW d \in Deliveries, NEW chosen, DispatchLegacy(d, chosen)
    PROVE  IInv'
<1> DEFINE e == Event[d].message
<1>0. TypeOK /\ TypeOK' /\ e \in Messages
  BY DispatchTypeOK, EventType DEF IInv
<1>1. taken' = [taken EXCEPT ![e] = [path |-> "legacy", to |-> To(chosen),
                                      under |-> d, until |-> now + TTL]]
      /\ routes'[e] = now + TTL /\ \A m \in Messages : m # e => routes'[m] = routes[m]
  BY <1>0 DEF DispatchLegacy, Remember, Take, TypeOK
<1>2. AgentsHold'
  <2> SUFFICES ASSUME NEW m \in Messages, Lasting(m)', taken'[m].path = "agent"
               PROVE  HeldByAgent(m)'
    BY DEF AgentsHold
  <2>1. m # e /\ taken'[m] = taken[m]
    BY <1>0, <1>1 DEF TypeOK
  <2>2. Lasting(m)
    BY <2>1 DEF Lasting, DispatchLegacy
  <2> QED
    BY <2>1, <2>2 DEF IInv, AgentsHold, HeldByAgent, DispatchLegacy
<1>3. RoutesHold'
  <2> SUFFICES ASSUME NEW m \in Messages, taken'[m].path = "legacy", Untouched(m)'
               PROVE  routes'[m] >= taken'[m].until
    BY DEF RoutesHold
  <2>1. CASE m = e
    BY <1>0, <1>1, <2>1, TimeType DEF TypeOK
  <2>2. CASE m # e
    <3>1. taken'[m] = taken[m] /\ Untouched(m)
      BY <1>0, <1>1, <2>2 DEF TypeOK, Untouched, DispatchLegacy
    <3> QED
      BY <1>1, <2>2, <3>1 DEF IInv, RoutesHold, DispatchLegacy
  <2> QED
    BY <2>1, <2>2
<1>4. PromisesBounded'
  BY <1>0, <1>1, TimeType DEF IInv, PromisesBounded, DispatchLegacy, TypeOK
<1> QED
  BY <1>0, <1>2, <1>3, <1>4 DEF IInv

(* The broker takes a message it has not seen into a conversation that is  *)
(* free or that its app already holds, so that no earlier promise is lost. *)
LEMMA DispatchAgentIInv ==
    ASSUME IInv, NEW d \in Deliveries, NEW chosen, DispatchAgent(d, chosen)
    PROVE  IInv'
<1> DEFINE e == Event[d].message
           k == Event[d].conversation
<1>0. TypeOK /\ TypeOK' /\ e \in Messages /\ k \in Conversations
      /\ d \notin Messages
  BY DispatchTypeOK, EventType DEF IInv
<1>1. /\ taken' = [taken EXCEPT ![e] = [path |-> "agent", to |-> To(chosen),
                                       under |-> d, until |-> now + TTL]]
      /\ \A m \in Messages : m # e => routes'[m] = routes[m]
      /\ now' = now
  BY <1>0 DEF DispatchAgent, Remember, Take, TypeOK
<1>2. /\ agent' = [agent EXCEPT ![d] = [to |-> To(chosen), expiresAt |-> now + TTL]]
      /\ seen' = [seen EXCEPT ![e] = now + TTL]
      /\ conversation' = [conversation EXCEPT ![k] =
                            [app |-> Event[d].app, expiresAt |-> now + TTL]]
  BY DEF DispatchAgent
<1>3. AgentsHold'
  <2> SUFFICES ASSUME NEW m \in Messages, Lasting(m)', taken'[m].path = "agent"
               PROVE  HeldByAgent(m)'
    BY DEF AgentsHold
  <2>1. CASE m = e
    <3>1. taken'[m] = [path |-> "agent", to |-> To(chosen),
                       under |-> d, until |-> now + TTL]
      BY <1>0, <1>1, <2>1 DEF TypeOK
    <3>2. /\ agent'[d] = [to |-> To(chosen), expiresAt |-> now + TTL]
          /\ seen'[m] = now + TTL
          /\ conversation'[k] = [app |-> Event[d].app, expiresAt |-> now + TTL]
      BY <1>0, <1>2, <2>1 DEF TypeOK
    <3> QED
      BY <3>1, <3>2, <2>1, TimeType, <1>0 DEF HeldByAgent
  <2>2. CASE m # e
    <3>1. taken'[m] = taken[m] /\ Lasting(m)
      BY <1>0, <1>1, <2>2 DEF TypeOK, Lasting
    <3> DEFINE u == taken[m].under
               c == Event[u].conversation
    <3>2. HeldByAgent(m) /\ u \in Deliveries /\ u # d /\ c \in Conversations
      BY <3>1, <2>2, EventType DEF IInv, AgentsHold, HeldByAgent
    <3>3. agent'[u] = agent[u] /\ seen'[m] = seen[m]
      BY <1>0, <1>2, <2>2, <3>2 DEF TypeOK
    <3>4. conversation'[c].expiresAt >= taken[m].until
          /\ conversation'[c].app = Event[u].app
      <4>1. CASE c # k
        BY <4>1, <1>0, <1>2, <3>2 DEF TypeOK, HeldByAgent
      <4>2. CASE c = k
        <5>1. taken[m].until \in Times /\ conversation[c].expiresAt \in Times
              /\ now \in Nat /\ now >= 1
          BY <3>2, <1>0, TimeType DEF TypeOK
        <5>2. Live(conversation[c].expiresAt)
          BY <5>1, <3>1, <3>2 DEF Live, Lasting, HeldByAgent, Times
        <5>3. Event[u].app = Event[d].app
          BY <5>2, <4>2, <3>2 DEF HeldByAgent, DispatchAgent, ConversationConflict
        <5>4. taken[m].until <= now + TTL
          BY DEF IInv, PromisesBounded
        <5>5. conversation'[k] = [app |-> Event[d].app, expiresAt |-> now + TTL]
          BY <1>0, <1>2 DEF TypeOK
        <5> QED
          BY <5>1, <5>3, <5>4, <5>5, <4>2
      <4> QED
        BY <4>1, <4>2
    <3> QED
      BY <3>1, <3>2, <3>3, <3>4 DEF HeldByAgent
  <2> QED
    BY <2>1, <2>2
<1>4. RoutesHold'
  <2> SUFFICES ASSUME NEW m \in Messages, taken'[m].path = "legacy", Untouched(m)'
               PROVE  routes'[m] >= taken'[m].until
    BY DEF RoutesHold
  <2>1. m # e /\ taken'[m] = taken[m]
    BY <1>0, <1>1 DEF TypeOK
  <2>2. Untouched(m)
    BY <2>1, <1>2, <1>0 DEF Untouched, TypeOK
  <2> QED
    BY <1>1, <2>1, <2>2 DEF IInv, RoutesHold
<1>5. PromisesBounded'
  BY <1>0, <1>1, TimeType DEF IInv, PromisesBounded, TypeOK
<1> QED
  BY <1>0, <1>3, <1>4, <1>5 DEF IInv

LEMMA DispatchHandledIInv ==
    ASSUME IInv, NEW d \in Deliveries, DispatchHandled(d)
    PROVE  IInv'
<1>0. TypeOK /\ TypeOK' /\ Event[d].message \in Messages /\ d \notin Messages
  BY DispatchTypeOK, EventType DEF IInv
<1>1. now' = now /\ UNCHANGED <<agent, seen, conversation, taken>>
  BY DEF DispatchHandled
<1>2. \A m \in Messages : routes'[m] \in {routes[m], now + TTL}
  BY <1>0 DEF DispatchHandled, Remember, TypeOK
<1>3. RoutesHold'
  BY <1>1, <1>2 DEF IInv, RoutesHold, Untouched, PromisesBounded
<1> QED
  BY <1>0, <1>1, <1>3, AgentsHoldKept, PromisesBoundedKept, TimeType DEF IInv

(* A pin never shortens what the agent broker remembers, and the routes it *)
(* does shorten are those of messages an agent has taken.                  *)
LEMMA StartIInv ==
    ASSUME IInv, NEW d \in Deliveries, Start(d)
    PROVE  IInv'
<1> DEFINE e == Event[d].message
<1>0. TypeOK /\ TypeOK' /\ e \in Messages /\ d \notin Messages /\ now \in Nat
  BY StartTypeOK, EventType, TimeType DEF IInv
<1>1. now' = now /\ UNCHANGED <<conversation, taken>>
  BY DEF Start
<1>2. \A i \in Deliveries :
        agent'[i].to = agent[i].to /\ agent'[i].expiresAt >= agent[i].expiresAt
  <2> SUFFICES ASSUME NEW i \in Deliveries
               PROVE  agent'[i].to = agent[i].to
                      /\ agent'[i].expiresAt >= agent[i].expiresAt
    OBVIOUS
  <2>1. agent[i] \in [to : SUBSET Providers, expiresAt : Times]
    BY <1>0 DEF TypeOK
  <2>2. CASE i = d
    <3>1. agent'[d] = [agent[d] EXCEPT !.expiresAt = PinBroker(agent[d].expiresAt)]
      BY <1>0 DEF Start, TypeOK
    <3>2. PinBroker(agent[d].expiresAt) >= agent[d].expiresAt
      BY <2>1, <2>2, <1>0, TimeType, LaterType DEF PinBroker, Times
    <3> QED
      BY <2>1, <2>2, <3>1, <3>2
  <2>3. CASE i # d
    BY <2>1, <2>3, <1>0 DEF Start, TypeOK, Times
  <2> QED
    BY <2>2, <2>3
<1>3. \A m \in Messages : seen'[m] >= seen[m]
  <2>1. PinBroker(seen[e]) >= seen[e]
    BY <1>0, TimeType, LaterType DEF PinBroker, Times, TypeOK
  <2> QED
    BY <2>1, <1>0 DEF Start, TypeOK, Times
<1>4. AgentsHold'
  <2> SUFFICES ASSUME NEW m \in Messages, Lasting(m)', taken'[m].path = "agent"
               PROVE  HeldByAgent(m)'
    BY DEF AgentsHold
  <2>1. Lasting(m) /\ HeldByAgent(m)
    BY <1>1 DEF Lasting, IInv, AgentsHold
  <2>2. taken[m].under \in Deliveries
    BY <2>1 DEF HeldByAgent
  <2>3. /\ taken[m].until \in Int /\ seen[m] \in Int /\ seen'[m] \in Int
        /\ agent[taken[m].under].expiresAt \in Int
        /\ agent'[taken[m].under].expiresAt \in Int
    BY <1>0, <2>2 DEF TypeOK, Times
  <2> QED
    BY <1>1, <1>2, <1>3, <2>1, <2>2, <2>3 DEF HeldByAgent
<1>5. RoutesHold'
  <2> SUFFICES ASSUME NEW m \in Messages, taken'[m].path = "legacy", Untouched(m)'
               PROVE  routes'[m] >= taken'[m].until
    BY DEF RoutesHold
  <2>1. agent[d].expiresAt > 0 /\ agent'[d].expiresAt > 0
    <3>1. agent[d].expiresAt \in Nat /\ agent'[d].expiresAt \in Nat
      BY <1>0 DEF TypeOK, Times
    <3>2. agent[d].expiresAt # 0 /\ agent'[d].expiresAt >= agent[d].expiresAt
      BY <1>2 DEF Start, Live
    <3> QED
      BY <3>1, <3>2
  <2>2. m # e
    BY <2>1 DEF Untouched, NoDelivery
  <2>3. routes'[m] = routes[m]
    BY <1>0, <2>2 DEF Start, PinRoutes, TypeOK
  <2>4. Untouched(m)
    BY <2>2, <1>0 DEF Untouched, Start, TypeOK
  <2> QED
    BY <1>1, <2>3, <2>4 DEF IInv, RoutesHold
<1> QED
  BY <1>0, <1>1, <1>4, <1>5, PromisesBoundedKept DEF IInv

LEMMA RefreshIInv ==
    ASSUME IInv, NEW k \in Conversations, Refresh(k)
    PROVE  IInv'
<1>0. TypeOK /\ TypeOK' /\ now \in Nat
  BY RefreshTypeOK, TimeType DEF IInv
<1>1. now' = now /\ UNCHANGED <<routes, agent, seen, taken>>
  BY DEF Refresh
<1>2. \A c \in Conversations :
        /\ conversation'[c].app = conversation[c].app
        /\ conversation'[c].expiresAt \in {conversation[c].expiresAt, now + TTL}
  BY <1>0 DEF Refresh, TypeOK
<1>3. AgentsHold'
  <2> SUFFICES ASSUME NEW m \in Messages, Lasting(m)', taken'[m].path = "agent"
               PROVE  HeldByAgent(m)'
    BY DEF AgentsHold
  <2>1. Lasting(m) /\ HeldByAgent(m) /\ taken[m].until <= now + TTL
    BY <1>1 DEF Lasting, IInv, AgentsHold, PromisesBounded
  <2>2. Event[taken[m].under].conversation \in Conversations
    BY <2>1, EventType DEF HeldByAgent
  <2> QED
    BY <1>1, <1>2, <2>1, <2>2 DEF HeldByAgent
<1>4. RoutesHold'
  BY <1>1 DEF IInv, RoutesHold, Untouched
<1> QED
  BY <1>0, <1>1, <1>3, <1>4, PromisesBoundedKept DEF IInv

LEMMA NextIInv == IInv /\ [Next]_vars => IInv'
<1> SUFFICES ASSUME IInv, [Next]_vars PROVE IInv'
  OBVIOUS
<1>0. now \in Nat
  BY TimeType DEF IInv
<1>1. CASE \E s \in Subscriptions : Subscribe(s) \/ Unsubscribe(s) \/ Consume(s)
  BY <1>0, <1>1, QuietIInv DEF Subscribe, Unsubscribe, Consume
<1>2. CASE IngressTick
  BY <1>0, <1>2, QuietIInv DEF IngressTick, Tick
<1>3. CASE UNCHANGED vars
  BY <1>0, <1>3, QuietIInv DEF vars
<1> QED
  BY <1>1, <1>2, <1>3, DispatchLegacyIInv, DispatchAgentIInv, DispatchHandledIInv,
     StartIInv, RefreshIInv DEF Next

LEMMA Invariance == Spec => []IInv
BY InitIInv, NextIInv, PTL DEF Spec

-----------------------------------------------------------------------------
(* Whoever received an agent event can start a response to it for its      *)
(* whole lifetime, whatever is pinned, refreshed or redelivered meanwhile  *)
(* (lookupAndPinDelivery finds it and lists the provider).                 *)
THEOREM ReceiversCanStart == Spec => []ReceiverCanStart
<1>1. IInv => ReceiverCanStart
  <2> SUFFICES ASSUME IInv, NEW m \in Messages, Lasting(m), taken[m].path = "agent"
               PROVE  /\ Live(agent[taken[m].under].expiresAt)
                      /\ taken[m].to \subseteq agent[taken[m].under].to
    BY DEF ReceiverCanStart
  <2>1. HeldByAgent(m)
    BY DEF IInv, AgentsHold
  <2>2. agent[taken[m].under].expiresAt \in Nat /\ taken[m].until \in Nat
        /\ now \in Nat /\ now >= 1
    BY <2>1, TimeType DEF HeldByAgent, IInv, TypeOK, Times
  <2> QED
    BY <2>1, <2>2 DEF HeldByAgent, Live, Lasting
<1> QED
  BY <1>1, Invariance, PTL

(* The messages of a conversation that agents hold all came through one    *)
(* app, however its handle is refreshed (conversationAppConflictLocked).   *)
THEOREM OneAppHolds == Spec => []OneAppPerConversation
<1>1. IInv => OneAppPerConversation
  BY DEF IInv, AgentsHold, HeldByAgent, OneAppPerConversation
<1> QED
  BY <1>1, Invariance, PTL

(* Only the two dispatch actions take a message.                           *)
LEMMA TakenByDispatch ==
    ASSUME TypeOK, [Next]_vars, NEW m \in Messages, taken'[m] # taken[m]
    PROVE  \E d \in Deliveries, chosen \in SUBSET Subscriptions :
              /\ Event[d].message = m
              /\ \/ DispatchLegacy(d, chosen) /\ taken'[m].path = "legacy"
                 \/ DispatchAgent(d, chosen) /\ taken'[m].path = "agent"
<1>1. \E d \in Deliveries, chosen \in SUBSET Subscriptions :
         DispatchLegacy(d, chosen) \/ DispatchAgent(d, chosen)
  BY DEF Next, vars, Of, Subscribe, Unsubscribe, Consume, DispatchHandled, Start,
         Refresh, IngressTick
<1>2. PICK d \in Deliveries, chosen \in SUBSET Subscriptions :
         DispatchLegacy(d, chosen) \/ DispatchAgent(d, chosen)
  BY <1>1
<1>3. Event[d].message = m
  BY <1>2, EventType DEF DispatchLegacy, DispatchAgent, Take, TypeOK
<1>4. CASE DispatchLegacy(d, chosen)
  BY <1>3, <1>4 DEF DispatchLegacy, Take, TypeOK
<1>5. CASE DispatchAgent(d, chosen)
  BY <1>3, <1>5 DEF DispatchAgent, Take, TypeOK
<1> QED
  BY <1>2, <1>3, <1>4, <1>5

(* No agent receives a message twice within the dedupe lifetime: the       *)
(* broker's memory of the message outlasts it (seenMessages).              *)
THEOREM AgentsTakeOnce == Spec => AgentTakesOnce
<1>1. ASSUME IInv, [Next]_vars, NEW m \in Messages,
             Lasting(m), taken[m].path = "agent", TakenAgain(m, "agent")
      PROVE  FALSE
  <2>1. PICK d \in Deliveries, chosen \in SUBSET Subscriptions :
           Event[d].message = m /\ DispatchAgent(d, chosen)
    BY <1>1, TakenByDispatch DEF IInv, TakenAgain
  <2>2. seen[m] \in Nat /\ taken[m].until \in Nat /\ now \in Nat /\ now >= 1
    BY <1>1, TimeType DEF IInv, TypeOK, Times
  <2>3. Live(seen[m])
    BY <1>1, <2>2 DEF IInv, AgentsHold, HeldByAgent, Lasting, Live
  <2> QED
    BY <2>1, <2>3 DEF DispatchAgent, AgentKnows
<1>2. IInv /\ [Next]_vars =>
         [\A m \in Messages :
            Lasting(m) /\ taken[m].path = "agent" => ~TakenAgain(m, "agent")]_vars
  BY <1>1
<1> QED
  BY <1>2, Invariance, PTL DEF Spec, AgentTakesOnce

(* A message that only legacy consumers took is routed to nobody else for  *)
(* the dedupe lifetime: its route outlasts it (dispatchInboundRoute).      *)
THEOREM LegacyRoutesStick == Spec => LegacyRouteSticks
<1>1. ASSUME IInv, [Next]_vars, NEW m \in Messages,
             Lasting(m), taken[m].path = "legacy", Untouched(m),
             TakenAgain(m, "legacy") \/ TakenAgain(m, "agent")
      PROVE  FALSE
  <2>1. PICK d \in Deliveries, chosen \in SUBSET Subscriptions :
           /\ Event[d].message = m
           /\ DispatchLegacy(d, chosen) \/ DispatchAgent(d, chosen)
    BY <1>1, TakenByDispatch DEF IInv, TakenAgain
  <2>2. routes[m] \in Nat /\ taken[m].until \in Nat /\ now \in Nat /\ now >= 1
    BY <1>1, TimeType DEF IInv, TypeOK, Times
  <2>3. Live(routes[m])
    BY <1>1, <2>2 DEF IInv, RoutesHold, Lasting, Live
  <2> QED
    BY <2>1, <2>3 DEF DispatchLegacy, DispatchAgent, Routed
<1>2. IInv /\ [Next]_vars =>
         [\A m \in Messages :
            Lasting(m) /\ taken[m].path = "legacy" /\ Untouched(m) =>
                ~TakenAgain(m, "legacy") /\ ~TakenAgain(m, "agent")]_vars
  BY <1>1
<1> QED
  BY <1>2, Invariance, PTL DEF Spec, LegacyRouteSticks

-----------------------------------------------------------------------------
(***************************************************************************)
(* Inbound.  What is handed on is decided by the configuration and by what *)
(* the store of owners says at that moment, so it stays true while it      *)
(* waits for the brokers.                                                  *)
(***************************************************************************)
(* A bot that takes a mention for its own is mentioned, or shares the name *)
(* of one that is, if nobody gave it the name of another.                  *)
LEMMA MentionMatches ==
    ASSUME NEW a \in Bots, NEW m, NEW b \in Matching(a, m),
           a \notin StrongIds => KnownNames[a] \subseteq {BotName[a]}
    PROVE  /\ b \in m.mentions \cap Bots
           /\ \/ b = a
              \/ a \notin StrongIds /\ BotName[b] = BotName[a]
BY DEF Matching, MatchesBotMention

(* A reply that no bot is named in is handed to the author of its parent.  *)
LEMMA ReplyIsForOwner ==
    ASSUME NEW a \in Bots, NEW m, UnmentionedReply(a, m), ReplyOwner(a, m) # Nobody
    PROVE  /\ m.parent # Nobody /\ m.parent[1] = a
           /\ HandedTo(a, m).agents = {m.parent[2]} /\ ~HandedTo(a, m).legacy
BY DEF UnmentionedReply, ReplyOwner, HandedTo, AgentOnly

LEMMA LegacyIsAliased ==
    ASSUME NEW a \in Bots, NEW m, HandedTo(a, m).legacy
    PROVE  Group(m) /\ Aliases[a][m.chat] = 1
BY DEF HandedTo, AgentOnly, HasAlias

LEMMA ReceiveIsAddressed ==
    ASSUME \A a \in Bots \ StrongIds : KnownNames[a] \subseteq {BotName[a]},
           NEW a \in Bots, NEW m \in InboundMessages, Receive(a, m)
    PROVE  OnlyAddressed'
<1>1. handed' = [app |-> a, message |-> m, to |-> HandedTo(a, m)]
  BY DEF Receive
<1>2. /\ handed'.app = a /\ handed'.message = m
      /\ handed'.to.agents = HandedTo(a, m).agents
      /\ handed'.to.legacy = HandedTo(a, m).legacy
  BY <1>1
<1>3. Group(m) => Matching(a, m) # {} \/ (UnmentionedReply(a, m) /\ ReplyOwner(a, m) # Nobody)
  BY DEF Receive, Understood
<1>4. ASSUME Group(m)
      PROVE  \/ a \in Addressed(m)
             \/ a \notin StrongIds /\ \E b \in m.mentions \cap Bots : BotName[b] = BotName[a]
  <2>1. CASE Matching(a, m) # {}
    <3>1. PICK b \in Matching(a, m) : TRUE
      BY <2>1
    <3>2. b \in m.mentions \cap Bots /\ (b = a \/ (a \notin StrongIds /\ BotName[b] = BotName[a]))
      BY <3>1, MentionMatches
    <3> QED
      BY <3>2 DEF Addressed
  <2>2. CASE UnmentionedReply(a, m) /\ ReplyOwner(a, m) # Nobody
    BY <2>2, ReplyIsForOwner DEF Addressed
  <2> QED
    BY <1>3, <1>4, <2>1, <2>2
<1>5. ASSUME Group(m), m.mentions \cap Bots = {}
      PROVE  HandedTo(a, m).agents = {m.parent[2]} /\ ~HandedTo(a, m).legacy
  <2>1. Matching(a, m) = {}
    BY <1>5, MentionMatches
  <2> QED
    BY <1>3, <1>5, <2>1, ReplyIsForOwner
<1> QED
  BY <1>2, <1>4, <1>5, LegacyIsAliased DEF OnlyAddressed, Group, Addressed

(* A message of a group reaches the bots it is addressed to and no other,  *)
(* but for one that goes by a name it shares -- as long as no bot without  *)
(* an id is configured with a name that is not its own.                    *)
THEOREM OnlyAddressedTake ==
    ASSUME \A a \in Bots \ StrongIds : KnownNames[a] \subseteq {BotName[a]}
    PROVE  InboundSpec => []OnlyAddressed
<1>1. InboundInit => OnlyAddressed
  BY DEF InboundInit, OnlyAddressed
<1>2. OnlyAddressed /\ [InboundNext]_inboundVars => OnlyAddressed'
  <2> SUFFICES ASSUME OnlyAddressed, [InboundNext]_inboundVars PROVE OnlyAddressed'
    OBVIOUS
  <2>1. ASSUME handed' \in {handed, Nobody} PROVE OnlyAddressed'
    BY <2>1 DEF OnlyAddressed, Group, Addressed
  <2>2. ASSUME NEW a \in Bots, NEW m \in InboundMessages, Receive(a, m)
        PROVE  OnlyAddressed'
    BY <2>2, ReceiveIsAddressed
  <2> QED
    BY <2>1, <2>2 DEF InboundNext, inboundVars, PostCard, RecordOwner, ForgetOwner, Route
<1> QED
  BY <1>1, <1>2, PTL DEF InboundSpec

(* The cards of agents, those whose owner is recorded and the message that *)
(* is handed on have their types.                                          *)
THEOREM InboundTypes == InboundSpec => []InboundTypeOK
<1>1. InboundInit => InboundTypeOK
  BY DEF InboundInit, InboundTypeOK
<1>2. InboundTypeOK /\ [InboundNext]_inboundVars => InboundTypeOK'
  <2> SUFFICES ASSUME InboundTypeOK, [InboundNext]_inboundVars PROVE InboundTypeOK'
    OBVIOUS
  <2>1. ASSUME NEW a \in Bots, NEW p \in Agents, NEW chat \in Chats, PostCard(a, p, chat)
        PROVE  InboundTypeOK'
    BY <2>1 DEF PostCard, InboundTypeOK
  <2>2. ASSUME NEW card \in cards, RecordOwner(card) \/ ForgetOwner(card)
        PROVE  InboundTypeOK'
    BY <2>2 DEF RecordOwner, ForgetOwner, InboundTypeOK
  <2>3. ASSUME NEW a \in Bots, NEW m \in InboundMessages, Receive(a, m)
        PROVE  InboundTypeOK'
    BY <2>3 DEF Receive, InboundTypeOK
  <2>4. CASE Route \/ UNCHANGED inboundVars
    BY <2>4 DEF Route, inboundVars, InboundTypeOK
  <2> QED
    BY <2>1, <2>2, <2>3, <2>4 DEF InboundNext
<1> QED
  BY <1>1, <1>2, PTL DEF InboundSpec

-----------------------------------------------------------------------------
(***************************************************************************)
(* CardEvents.  An event that was brought stays a duplicate until its TTL  *)
(* is over, and nothing else is one; who it went to was decided by what    *)
(* never changes, the author and the app of the card.                      *)
(***************************************************************************)
SeenMatchesBrought ==
    /\ passed \in [Keys -> Nat]
    /\ now \in Nat \ {0}
    /\ \A b \in brought :
          /\ Key(b[1]) \in Keys /\ b[3] \in Nat \ {0}
          /\ passed[Key(b[1])] >= b[3] + SeenFor
    /\ \A k \in Keys : passed[k] # 0 => \E b \in brought : Key(b[1]) = k

BroughtToAuthor ==
    \A b \in brought :
        /\ b[2] = Author[b[1].card] /\ b[1].app = AppOf[b[1].card]
        /\ b[1].kind = "action" => b[1].button \in Buttons[b[1].card]

BroughtOnce ==
    \A b, c \in brought :
        Key(b[1]) = Key(c[1]) /\ b # c => b[3] > c[3] + SeenFor \/ c[3] > b[3] + SeenFor

ReplyIsTrue ==
    reply # None /\ reply.told = "ok" /\ reply.event.kind = "action" =>
        \E b \in brought : Key(b[1]) = Key(reply.event)

CardInv == SeenMatchesBrought /\ BroughtToAuthor /\ BroughtOnce /\ ReplyIsTrue

LEMMA CardNumbers ==
    QueueSize \in Nat /\ SeenFor \in Nat /\ CardEventsUntil \in Nat /\ CardEventsUntil >= 1
BY CardAssumption

LEMMA InitCardInv == CardInit => CardInv
BY CardNumbers DEF CardInit, CardInv, SeenMatchesBrought, BroughtToAuthor, BroughtOnce, ReplyIsTrue

(* What is dropped was brought before if a click is told that it arrived.  *)
LEMMA DropCardInv ==
    ASSUME CardInv, NEW e \in Events, NEW what, Drop(e, what), now' = now,
           what = "ok" /\ e.kind = "action" => Seen(e)
    PROVE  CardInv'
<1>1. /\ UNCHANGED <<now, passed, brought>>
      /\ reply' = [event |-> e, told |-> what]
  BY DEF Drop, Told
<1>2. SeenMatchesBrought' /\ BroughtToAuthor' /\ BroughtOnce'
  BY <1>1 DEF CardInv, SeenMatchesBrought, BroughtToAuthor, BroughtOnce
<1>3. ReplyIsTrue'
  <2>1. reply'.told = what /\ reply'.event = e
    BY <1>1
  <2>2. ASSUME Seen(e) PROVE \E b \in brought : Key(b[1]) = Key(e)
    BY <2>2 DEF Seen, Lasts, Keys, CardInv, SeenMatchesBrought
  <2> QED
    BY <1>1, <2>1, <2>2 DEF ReplyIsTrue
<1> QED
  BY <1>2, <1>3 DEF CardInv

LEMMA BringCardInv ==
    ASSUME CardInv, NEW e \in Events, Bring(Author[e.card], e), now' = now, ~Seen(e),
           e.app = AppOf[e.card], e.kind = "action" => e.button \in Buttons[e.card]
    PROVE  CardInv'
<1> USE CardNumbers
<1>1. PICK i \in DOMAIN opened :
         /\ Oldest(i, Targets(Author[e.card], e))
         /\ IF waiting[opened[i]] < QueueSize
            THEN Enters(opened[i], e)
            ELSE Told(e, "retry") /\ UNCHANGED <<waiting, passed, brought>>
  BY DEF Bring
<1>2. CASE Told(e, "retry") /\ UNCHANGED <<waiting, passed, brought>>
  <2>1. reply'.told # "ok"
    BY <1>2 DEF Told
  <2> QED
    BY <1>2, <2>1 DEF CardInv, SeenMatchesBrought, BroughtToAuthor, BroughtOnce, ReplyIsTrue
<1>3. CASE Enters(opened[i], e)
  <2> DEFINE entry == <<e, Author[e.card], now>>
  <2>1. opened[i].agent = Author[e.card]
    BY <1>1 DEF Oldest, Targets
  <2>2. /\ passed' = [passed EXCEPT ![Key(e)] = now + SeenFor]
        /\ brought' = brought \cup {entry}
        /\ reply' = [event |-> e, told |-> "ok"]
    BY <1>3, <2>1 DEF Enters, Told
  <2>3. /\ Key(e) \in Keys /\ now \in Nat \ {0} /\ now + SeenFor \in Nat
        /\ passed \in [Keys -> Nat]
    BY DEF Keys, CardInv, SeenMatchesBrought
  <2>4. /\ passed' \in [Keys -> Nat] /\ passed'[Key(e)] = now + SeenFor
        /\ \A k \in Keys \ {Key(e)} : passed'[k] = passed[k]
    BY <2>2, <2>3
  <2>5. \A b \in brought : /\ Key(b[1]) \in Keys /\ b[3] \in Nat \ {0}
                           /\ passed[Key(b[1])] \in Nat
                           /\ passed[Key(b[1])] >= b[3] + SeenFor
    BY <2>3 DEF CardInv, SeenMatchesBrought
  <2>6. \A b \in brought : Key(b[1]) = Key(e) => now > b[3] + SeenFor
    BY <2>3, <2>5 DEF Seen, Lasts
  <2>7. entry[1] = e /\ entry[2] = Author[e.card] /\ entry[3] = now
    OBVIOUS
  <2> HIDE DEF entry
  <2>8. SeenMatchesBrought'
    <3>1. ASSUME NEW b \in brought'
          PROVE  /\ Key(b[1]) \in Keys /\ b[3] \in Nat \ {0}
                 /\ passed'[Key(b[1])] >= b[3] + SeenFor
      <4>1. CASE b = entry
        BY <2>3, <2>4, <2>7, <4>1
      <4>2. CASE b \in brought
        BY <2>3, <2>4, <2>5, <2>6, <4>2
      <4> QED
        BY <2>2, <4>1, <4>2
    <3>2. ASSUME NEW k \in Keys, passed'[k] # 0
          PROVE  \E b \in brought' : Key(b[1]) = k
      BY <2>2, <2>4, <2>7, <3>2 DEF CardInv, SeenMatchesBrought
    <3> QED
      BY <2>3, <2>4, <3>1, <3>2 DEF SeenMatchesBrought, Key
  <2>9. BroughtToAuthor'
    BY <2>2, <2>7 DEF CardInv, BroughtToAuthor
  <2>10. BroughtOnce'
    BY <2>2, <2>6, <2>7 DEF CardInv, BroughtOnce, Key
  <2>11. ReplyIsTrue'
    <3>1. entry \in brought' /\ Key(entry[1]) = Key(e) /\ reply'.event = e
      BY <2>2, <2>7
    <3> QED
      BY <3>1 DEF ReplyIsTrue, Key
  <2> QED
    BY <2>8, <2>9, <2>10, <2>11 DEF CardInv
<1> QED
  BY <1>1, <1>2, <1>3

LEMMA NextCardInv == CardInv /\ [CardNext]_cardVars => CardInv'
<1> SUFFICES ASSUME CardInv, [CardNext]_cardVars PROVE CardInv'
  OBVIOUS
<1>1. ASSUME UNCHANGED <<passed, brought, reply>>, now' \in Nat \ {0} PROVE CardInv'
  BY <1>1 DEF CardInv, SeenMatchesBrought, BroughtToAuthor, BroughtOnce, ReplyIsTrue
<1>2. now \in Nat \ {0} /\ now + 1 \in Nat \ {0}
  BY DEF CardInv, SeenMatchesBrought
<1>3. CASE UNCHANGED cardVars
  BY <1>1, <1>2, <1>3 DEF cardVars
<1>4. ASSUME NEW c \in Cards, ShowCard(c) \/ KeepResponse(c) \/ KeepOwner(c)
      PROVE  CardInv'
  BY <1>1, <1>2, <1>4 DEF ShowCard, KeepResponse, KeepOwner
<1>5. ASSUME NEW s \in CardStreams, Listen(s) \/ Hang(s) \/ Read(s)
      PROVE  CardInv'
  BY <1>1, <1>2, <1>5 DEF Listen, Hang, Read
<1>6. ASSUME NEW e \in Events, Click(e)
      PROVE  CardInv'
  <2>1. e.kind = "action" /\ now' = now
    BY <1>6 DEF Click
  <2>2. ASSUME NEW what \in {"unknown", "retry"}, Drop(e, what) PROVE CardInv'
    BY <2>1, <2>2, DropCardInv
  <2>3. ASSUME Seen(e), Drop(e, "ok") PROVE CardInv'
    BY <2>1, <2>3, DropCardInv
  <2>4. ASSUME ~Seen(e), e.app = AppOf[e.card], e.button \in Buttons[e.card],
               Bring(Author[e.card], e)
        PROVE  CardInv'
    BY <2>1, <2>4, BringCardInv
  <2> QED
    BY <1>6, <2>2, <2>3, <2>4 DEF Click
<1>7. ASSUME NEW e \in Events, React(e)
      PROVE  CardInv'
  <2>1. e.kind # "action" /\ now' = now
    BY <1>7 DEF React
  <2>2. ASSUME NEW what, Drop(e, what) PROVE CardInv'
    BY <2>1, <2>2, DropCardInv
  <2>3. ASSUME ~Seen(e), e.app = AppOf[e.card], Bring(Author[e.card], e)
        PROVE  CardInv'
    BY <2>1, <2>3, BringCardInv
  <2> QED
    BY <1>7, <2>2, <2>3 DEF React
<1>8. CASE CardTick
  BY <1>1, <1>2, <1>8 DEF CardTick, Tick
<1> QED
  BY <1>3, <1>4, <1>5, <1>6, <1>7, <1>8 DEF CardNext

(* A click and a reaction go to the author of the card and to no one else, *)
(* and not twice within the TTL, however many streams come and go.         *)
THEOREM CardEventsReachAuthor == CardSpec => []EventsReachAuthor
<1>1. CardInv => EventsReachAuthor
  BY DEF CardInv, BroughtToAuthor, BroughtOnce, ReplyIsTrue, EventsReachAuthor
<1> QED
  BY <1>1, InitCardInv, NextCardInv, PTL DEF CardSpec

LEMMA JoinedAt ==
    ASSUME NEW S, NEW a \in Seq(S), NEW b \in Seq(S), NEW j \in 1..Len(a) + Len(b)
    PROVE  (a \o b)[j] = IF j <= Len(a) THEN a[j] ELSE b[j - Len(a)]
OBVIOUS

(* A stream that hangs up leaves the others open, each of them once.       *)
LEMMA RemovedAt ==
    ASSUME NEW S, NEW s \in Seq(S), NEW i \in 1..Len(s), IsInjective(s)
    PROVE  /\ RemoveAt(s, i) \in Seq(S)
           /\ IsInjective(RemoveAt(s, i))
           /\ ToSet(RemoveAt(s, i)) \subseteq ToSet(s)
<1> DEFINE r == RemoveAt(s, i)
           from(j) == IF j < i THEN j ELSE j + 1
<1>1. /\ Len(s) \in Nat /\ i \in Nat /\ 1 <= i /\ i <= Len(s)
      /\ \A j \in 1..Len(s) : s[j] \in S
  OBVIOUS
<1>2. /\ SubSeq(s, 1, i - 1) \in Seq(S) /\ Len(SubSeq(s, 1, i - 1)) = i - 1
      /\ \A j \in 1..i - 1 : SubSeq(s, 1, i - 1)[j] = s[j]
  BY <1>1
<1>3. /\ SubSeq(s, i + 1, Len(s)) \in Seq(S)
      /\ Len(SubSeq(s, i + 1, Len(s))) = Len(s) - i
      /\ \A j \in 1..Len(s) - i : SubSeq(s, i + 1, Len(s))[j] = s[i + j]
  BY <1>1
<1>4. /\ r \in Seq(S) /\ Len(r) = Len(s) - 1
      /\ \A j \in 1..Len(s) - 1 : r[j] = s[from(j)] /\ from(j) \in 1..Len(s)
  <2>1. r = SubSeq(s, 1, i - 1) \o SubSeq(s, i + 1, Len(s))
    BY DEF RemoveAt
  <2>2. r \in Seq(S) /\ Len(r) = (i - 1) + (Len(s) - i)
    BY <2>1, <1>2, <1>3
  <2>3. Len(r) = Len(s) - 1
    BY <1>1, <2>2
  <2>4. ASSUME NEW j \in 1..Len(s) - 1 PROVE r[j] = s[from(j)] /\ from(j) \in 1..Len(s)
    <3>1. CASE j < i
      <4>1. j \in 1..i - 1
        BY <1>1, <3>1
      <4>2. r[j] = SubSeq(s, 1, i - 1)[j]
        <5>1. j \in 1..Len(SubSeq(s, 1, i - 1)) + Len(SubSeq(s, i + 1, Len(s)))
              /\ j <= Len(SubSeq(s, 1, i - 1))
          BY <1>1, <1>2, <1>3, <4>1
        <5> QED
          BY <2>1, <1>2, <1>3, <5>1, JoinedAt
      <4> QED
        BY <1>1, <1>2, <3>1, <4>1, <4>2
    <3>2. CASE j >= i
      <4>1. j - (i - 1) \in 1..Len(s) - i /\ i + (j - (i - 1)) = j + 1
        BY <1>1, <3>2
      <4>2. r[j] = SubSeq(s, i + 1, Len(s))[j - (i - 1)]
        <5>1. j \in 1..Len(SubSeq(s, 1, i - 1)) + Len(SubSeq(s, i + 1, Len(s)))
              /\ ~(j <= Len(SubSeq(s, 1, i - 1)))
          BY <1>1, <1>2, <1>3, <3>2
        <5> QED
          BY <2>1, <1>2, <1>3, <5>1, JoinedAt
      <4>3. SubSeq(s, i + 1, Len(s))[j - (i - 1)] = s[j + 1]
        BY <1>3, <4>1
      <4> QED
        BY <1>1, <3>2, <4>2, <4>3
    <3> QED
      BY <1>1, <3>1, <3>2
  <2> QED
    BY <2>2, <2>3, <2>4
<1>5. DOMAIN r = 1..Len(s) - 1 /\ DOMAIN s = 1..Len(s)
  BY <1>4
<1>6. \A j, k \in 1..Len(s) - 1 : from(j) = from(k) => j = k
  BY <1>1
<1> HIDE DEF r, from
<1>7. ASSUME NEW j \in DOMAIN r, NEW k \in DOMAIN r, r[j] = r[k]
      PROVE  j = k
  <2>1. /\ from(j) \in DOMAIN s /\ from(k) \in DOMAIN s
        /\ s[from(j)] = s[from(k)]
    BY <1>4, <1>5, <1>7
  <2>2. from(j) = from(k)
    BY <2>1 DEF IsInjective
  <2> QED
    BY <1>5, <1>6, <2>2
<1>8. IsInjective(r)
  BY <1>7 DEF IsInjective
<1>9. \A j \in DOMAIN r : r[j] \in ToSet(s)
  <2>1. \A j \in DOMAIN s : s[j] \in ToSet(s)
    BY DEF ToSet
  <2> QED
    BY <1>4, <1>5, <2>1
<1>10. ToSet(r) \subseteq ToSet(s)
  BY <1>9 DEF ToSet
<1> QED
  BY <1>4, <1>8, <1>10 DEF r

(* A stream that comes is one more, and was not open.                      *)
LEMMA AppendedOnce ==
    ASSUME NEW S, NEW q \in Seq(S), NEW x \in S, x \notin ToSet(q), IsInjective(q)
    PROVE  /\ Append(q, x) \in Seq(S)
           /\ IsInjective(Append(q, x))
           /\ ToSet(Append(q, x)) \subseteq S
<1> DEFINE r == Append(q, x)
<1>1. /\ Len(q) \in Nat /\ r \in Seq(S) /\ Len(r) = Len(q) + 1
      /\ \A j \in 1..Len(q) : r[j] = q[j]
      /\ r[Len(q) + 1] = x
  OBVIOUS
<1>2. DOMAIN q = 1..Len(q) /\ DOMAIN r = 1..(Len(q) + 1)
  BY <1>1
<1> HIDE DEF r
<1>3. \A j \in 1..Len(q) : q[j] # x
  <2>1. \A j \in DOMAIN q : q[j] \in ToSet(q)
    BY DEF ToSet
  <2> QED
    BY <1>2, <2>1
<1>4. ASSUME NEW j \in DOMAIN r, NEW k \in DOMAIN r, r[j] = r[k]
      PROVE  j = k
  <2>1. CASE j \in 1..Len(q) /\ k \in 1..Len(q)
    <3>1. q[j] = q[k]
      BY <1>1, <1>4, <2>1
    <3> QED
      BY <1>2, <2>1, <3>1 DEF IsInjective
  <2>2. CASE j = Len(q) + 1 \/ k = Len(q) + 1
    BY <1>1, <1>2, <1>3, <1>4, <2>2
  <2> QED
    BY <1>1, <1>2, <2>1, <2>2
<1>5. IsInjective(r)
  BY <1>4 DEF IsInjective
<1>6. \A j \in DOMAIN r : r[j] \in S
  BY <1>1, <1>2
<1>7. ToSet(r) \subseteq S
  BY <1>6 DEF ToSet
<1> QED
  BY <1>1, <1>5, <1>7 DEF r

(* What is in memory is on a card that is in the chat.                     *)
CardTypeInv ==
    /\ CardTypeOK /\ opened \in Seq(CardStreams)
    /\ \A c \in Cards : responses[c] # 0 => c \in posted

LEMMA CardTypeStreams ==
    ASSUME CardTypeInv, NEW s \in CardStreams, Listen(s) \/ Hang(s) \/ Read(s)
    PROVE  CardTypeInv'
<1> USE CardNumbers DEF CardTypeInv, CardTypeOK
<1>1. CASE Listen(s)
  <2>1. /\ s \notin ToSet(opened) /\ opened' = Append(opened, s)
        /\ UNCHANGED <<now, posted, responses, owned, passed>>
        /\ waiting' = [waiting EXCEPT ![s] = 0]
    BY <1>1 DEF Listen
  <2>2. /\ opened' \in Seq(CardStreams) /\ IsInjective(opened')
        /\ ToSet(opened') \subseteq CardStreams
    BY <2>1, AppendedOnce
  <2> QED
    BY <2>1, <2>2 DEF Keys
<1>2. CASE Hang(s)
  <2>1. PICK i \in DOMAIN opened : opened' = RemoveAt(opened, i)
    BY <1>2 DEF Hang
  <2>2. i \in 1..Len(opened)
    BY <2>1
  <2>3. opened' \in Seq(CardStreams) /\ IsInjective(opened')
        /\ ToSet(opened') \subseteq ToSet(opened)
    BY <2>1, <2>2, RemovedAt
  <2>4. UNCHANGED <<now, posted, responses, owned, waiting, passed>>
    BY <1>2 DEF Hang
  <2> QED
    BY <2>3, <2>4 DEF Keys
<1>3. CASE Read(s)
  <2>1. waiting[s] \in 0..QueueSize /\ waiting[s] > 0
    BY <1>3 DEF Read
  <2>2. waiting' \in [CardStreams -> 0..QueueSize]
    BY <1>3, <2>1 DEF Read
  <2> QED
    BY <1>3, <2>2 DEF Read, Keys
<1> QED
  BY <1>1, <1>2, <1>3

LEMMA CardTypeEvents ==
    ASSUME CardTypeInv, NEW e \in Events, Click(e) \/ React(e)
    PROVE  CardTypeInv'
<1> USE CardNumbers DEF CardTypeInv, CardTypeOK
<1>1. UNCHANGED <<now, posted, responses, owned, opened>>
  BY DEF Click, React
<1>2. ASSUME NEW what, Drop(e, what) PROVE CardTypeInv'
  BY <1>1, <1>2 DEF Drop, Keys
<1>3. ASSUME NEW who, Bring(who, e) PROVE CardTypeInv'
  <2>1. PICK i \in DOMAIN opened :
           IF waiting[opened[i]] < QueueSize
           THEN Enters(opened[i], e)
           ELSE Told(e, "retry") /\ UNCHANGED <<waiting, passed, brought>>
    BY <1>3 DEF Bring
  <2>2. CASE UNCHANGED <<waiting, passed>>
    BY <1>1, <2>2 DEF Keys
  <2>3. CASE waiting[opened[i]] < QueueSize /\ Enters(opened[i], e)
    <3>1. opened[i] \in CardStreams /\ Key(e) \in Keys
      BY DEF Keys
    <3>2. waiting[opened[i]] \in 0..QueueSize
      BY <3>1
    <3>3. waiting' \in [CardStreams -> 0..QueueSize]
      BY <2>3, <3>1, <3>2 DEF Enters
    <3>4. now + SeenFor \in 0..CardEventsUntil + SeenFor
      OBVIOUS
    <3>5. passed' \in [Keys -> 0..CardEventsUntil + SeenFor]
      BY <2>3, <3>1, <3>4 DEF Enters
    <3> QED
      BY <1>1, <3>3, <3>5 DEF Keys
  <2> QED
    BY <2>1, <2>2, <2>3
<1> QED
  BY <1>2, <1>3 DEF Click, React

(* The streams are open once each, no channel holds more than its size,    *)
(* owners are of cards that are in a chat, and every time is one the clock *)
(* reaches, for any cards, streams and events.                             *)
THEOREM CardTypes == CardSpec => []CardTypeOK
<1>1. CardInit => CardTypeInv
  <2> SUFFICES ASSUME CardInit PROVE CardTypeInv
    OBVIOUS
  <2>1. opened = <<>> /\ opened \in Seq(CardStreams) /\ DOMAIN opened = {}
    BY DEF CardInit
  <2>2. IsInjective(opened) /\ ToSet(opened) = {}
    BY <2>1 DEF IsInjective, ToSet
  <2>3. /\ now = 1 /\ responses = [c \in Cards |-> 0] /\ owned = {}
        /\ waiting = [s \in CardStreams |-> 0] /\ passed = [k \in Keys |-> 0]
        /\ posted \subseteq Cards /\ CardEventsUntil >= 1
    BY CardNumbers DEF CardInit
  <2>4. /\ 0 \in 0..CardEventsUntil + SeenFor /\ 0 \in 0..QueueSize
        /\ 1 \in 1..CardEventsUntil
    BY <2>3, CardNumbers
  <2> QED
    BY <2>1, <2>2, <2>3, <2>4 DEF CardTypeInv, CardTypeOK
<1>2. CardTypeInv /\ [CardNext]_cardVars => CardTypeInv'
  <2> SUFFICES ASSUME CardTypeInv, [CardNext]_cardVars PROVE CardTypeInv'
    OBVIOUS
  <2> USE CardNumbers DEF CardTypeInv, CardTypeOK
  <2>1. ASSUME NEW c \in Cards, ShowCard(c) \/ KeepResponse(c) \/ KeepOwner(c)
        PROVE  CardTypeInv'
    <3>1. CASE ShowCard(c)
      BY <2>1, <3>1 DEF ShowCard, Keys
    <3>2. CASE KeepResponse(c)
      <4>1. now + SeenFor \in 0..CardEventsUntil + SeenFor
        OBVIOUS
      <4>2. /\ responses' \in [Cards -> 0..CardEventsUntil + SeenFor]
            /\ \A d \in Cards : responses'[d] # 0 => d \in posted
        BY <3>2, <4>1 DEF KeepResponse
      <4> QED
        BY <3>2, <4>2 DEF KeepResponse, Keys
    <3>3. CASE KeepOwner(c)
      BY <3>3 DEF KeepOwner, Keys
    <3> QED
      BY <2>1, <3>1, <3>2, <3>3
  <2>2. ASSUME NEW s \in CardStreams, Listen(s) \/ Hang(s) \/ Read(s)
        PROVE  CardTypeInv'
    BY <2>2, CardTypeStreams
  <2>3. ASSUME NEW e \in Events, Click(e) \/ React(e) PROVE CardTypeInv'
    BY <2>3, CardTypeEvents
  <2>4. CASE CardTick
    BY <2>4 DEF CardTick, Tick, Keys
  <2>5. CASE UNCHANGED cardVars
    BY <2>5 DEF cardVars, Keys
  <2> QED
    BY <2>1, <2>2, <2>3, <2>4, <2>5 DEF CardNext
<1>3. CardTypeInv => CardTypeOK
  BY DEF CardTypeInv
<1> QED
  BY <1>1, <1>2, <1>3, PTL DEF CardSpec

-----------------------------------------------------------------------------
(***************************************************************************)
(* Access.  A call is served under the configuration that was loaded, so   *)
(* the invariant adds that it was accepted; each kind of call then follows *)
(* from the checks on its way and from what LoadFromEnv refuses: tokens    *)
(* that are shared, aliases with two apps, open listeners without a token. *)
(***************************************************************************)
LoadedIsAccepted == config \in RawConfigs /\ (running = "running" => Accepted(config))

AccessInv == LoadedIsAccepted /\ AccessTypeOK /\ ServedAsGranted

(* Whoever shows the general token is the operator, and nobody else.       *)
LEMMA GeneralIsOperator ==
    ASSUME Accepted(config), config \in RawConfigs, NEW call,
           call.listener \in config.listeners, GeneralAuth(call)
    PROVE  ByOperator(call.token) \/ ByNeighbour(call)
<1>1. CASE Authorized(call.token)
  <2>1. GeneralToken(config) # Nil /\ call.token = GeneralToken(config)
    BY <1>1 DEF Authorized, General
  <2>2. GeneralToken(config) = Setting(config.general)
    BY <2>1 DEF GeneralToken
  <2>3. \A p \in DOMAIN config.providers : config.providers[p].token # GeneralToken(config)
    BY DEF Accepted, ValidTokens
  <2> QED
    BY <2>1, <2>2, <2>3 DEF ByOperator
<1>2. CASE ~Authorized(call.token)
  <2>1. call.listener \notin {"grpcTCP", "httpTCP"} /\ DOMAIN config.providers = {}
    BY <1>2 DEF GeneralAuth, Scoped
  <2>2. config.listeners \subseteq {"httpUnix", "httpTCP", "grpcUnix", "grpcTCP"}
    BY AccessAssumption
  <2> QED
    BY <2>1, <2>2 DEF ByNeighbour
<1> QED
  BY <1>1, <1>2

(* An alias has no two apps, so the app found for it is the one.           *)
LEMMA TargetIsOwner ==
    ASSUME Accepted(config), NEW call, Target(call) # Nil
    PROVE  /\ Target(call) \in DOMAIN config.apps
           /\ \A a \in DOMAIN config.apps :
                 ChannelOf[ChannelFor(config, call.channel, call.source)]
                     \in DOMAIN Channels(config.apps[a]) <=> a = Target(call)
<1> DEFINE name  == ChannelFor(config, call.channel, call.source)
           found == Owners(config, ChannelOf[name])
<1>1. Target(call) = ResolveChannel(config, name)
  BY DEF Target
<1>2. found # {} /\ Target(call) = CHOOSE a \in found : TRUE
  BY <1>1 DEF ResolveChannel
<1>3. Target(call) \in found
  BY <1>2
<1>4. \A a \in DOMAIN config.apps :
         a \in found <=> ChannelOf[name] \in DOMAIN Channels(config.apps[a])
  BY DEF Owners
<1>5. Target(call) \in DOMAIN config.apps
  BY <1>3 DEF Owners
<1>6. \A a, b \in DOMAIN config.apps :
         DOMAIN Channels(config.apps[a]) \cap DOMAIN Channels(config.apps[b]) # {} => a = b
  BY DEF Accepted, ValidRoutes
<1>7. \A a \in DOMAIN config.apps : a \in found <=> a = Target(call)
  BY <1>3, <1>4, <1>5, <1>6
<1> QED
  BY <1>4, <1>5, <1>7

(* The token of a provider is its own.                                     *)
LEMMA TokenIsOwn ==
    ASSUME Accepted(config), config \in RawConfigs, NEW token,
           NEW p \in Principals(token)
    PROVE  /\ p \in DOMAIN config.providers /\ p # Nil
           /\ config.providers[p].token = token
           /\ token # Setting(config.general)
           /\ \A q \in DOMAIN config.providers \ {p} : config.providers[q].token # token
<1>1. p \in DOMAIN config.providers /\ config.providers[p].token = token
  BY DEF Principals
<1>2. GeneralToken(config) = Setting(config.general)
  BY <1>1 DEF GeneralToken
<1>3. token # Setting(config.general)
  BY <1>1, <1>2 DEF Accepted, ValidTokens
<1>4. \A q \in DOMAIN config.providers : config.providers[q].token = token => q = p
  BY <1>1 DEF Accepted, ValidTokens
<1> QED
  BY <1>1, <1>3, <1>4, AccessAssumption

(* What the handler and the service ask of a provider is all it may need.  *)
LEMMA ProviderIsGranted ==
    ASSUME Accepted(config), config \in RawConfigs, NEW call, NEW p \in Principals(call.token),
           call.method \in LegacyMethods \cup AgentMethods,
           call.method = "legacySubscribe" => call.wants \subseteq {"commands"},
           Handler(p, call), InScope(p, call)
    PROVE  /\ ByProvider(p, call)
           /\ call.method \in Subscribing => call.wants \subseteq config.providers[p].grants
           /\ call.method \in LegacyMethods => "legacy" \in config.providers[p].grants
           /\ call.method \in DOMAIN GrantOf =>
                 GrantOf[call.method] \in config.providers[p].grants
<1> DEFINE grants == config.providers[p].grants
<1>1. p \in DOMAIN config.providers /\ p # Nil /\ ProviderGrants(config, p) = grants
  BY TokenIsOwn DEF ProviderGrants
<1>2. DOMAIN GrantOf = {"context", "upload", "followUp", "reaction"}
  BY DEF GrantOf
<1>3. CASE call.method = "legacySubscribe"
  <2>1. call.claims = p /\ "legacy" \in grants /\ CommandsAllowed(p, call)
    BY <1>1, <1>3 DEF Handler
  <2>2. call.wants \subseteq grants
    BY <1>1, <1>3, <2>1 DEF CommandsAllowed
  <2> QED
    BY <1>1, <1>2, <1>3, <2>1, <2>2, TokenIsOwn DEF ByProvider, InScope, ProviderAllowsApp,
       Subscribing, LegacyMethods
<1>4. CASE call.method = "legacyRespond"
  <2>1. "legacy" \in grants
    BY <1>1, <1>4 DEF Handler
  <2> QED
    BY <1>1, <1>2, <1>4, <2>1, TokenIsOwn DEF ByProvider, InScope, ProviderAllowsApp,
       Subscribing, LegacyMethods
<1>5. CASE call.method = "subscribe"
  <2>1. call.claims = p /\ call.wants \subseteq grants
    BY <1>1, <1>5 DEF Handler
  <2> QED
    BY <1>1, <1>2, <1>5, <2>1, TokenIsOwn DEF ByProvider, InScope, ProviderAllowsApp,
       Subscribing, LegacyMethods
<1>6. CASE call.method = "respond"
  <2>1. call.claims = p
    BY <1>1, <1>6 DEF Handler
  <2> QED
    BY <1>1, <1>2, <1>6, <2>1, TokenIsOwn DEF ByProvider, InScope, ProviderAllowsApp,
       Subscribing, LegacyMethods
<1>7. CASE call.method \in DOMAIN GrantOf
  <2>1. call.claims = p /\ GrantOf[call.method] \in grants
    BY <1>1, <1>2, <1>7 DEF Handler
  <2> QED
    BY <1>1, <1>2, <1>7, <2>1, TokenIsOwn DEF ByProvider, InScope, ProviderAllowsApp,
       Subscribing, LegacyMethods
<1> QED
  BY <1>3, <1>4, <1>5, <1>6, <1>7 DEF LegacyMethods, AgentMethods

LEMMA OutboundServed ==
    ASSUME Accepted(config), config \in RawConfigs, AccessTypeOK, ServeOutbound
    PROVE  AccessTypeOK' /\ ServedAsGranted'
<1>1. PICK call \in OutboundCalls :
         Answered(call, IF GeneralAuth(call) THEN Target(call) ELSE Nil, Nil)
  BY DEF ServeOutbound
<1> DEFINE app == IF GeneralAuth(call) THEN Target(call) ELSE Nil
<1>2. call.method \in Outbound /\ call.listener \in config.listeners
  BY DEF OutboundCalls
<1>3. /\ served' = [call |-> call, app |-> app, as |-> Nil]
      /\ UNCHANGED <<config, running>>
  BY <1>1 DEF Answered
<1>4. app # Nil => /\ ByOperator(call.token) \/ ByNeighbour(call)
                   /\ app \in DOMAIN config.apps
                   /\ \A a \in DOMAIN config.apps :
                         ChannelOf[ChannelFor(config, call.channel, call.source)]
                             \in DOMAIN Channels(config.apps[a]) <=> a = app
  BY <1>2, GeneralIsOperator, TargetIsOwner
<1> HIDE DEF app
<1>5. served'.call = call /\ served'.app = app /\ served'.as = Nil
  BY <1>3
<1>6. ServedAsGranted'
  BY <1>2, <1>3, <1>4, <1>5 DEF ServedAsGranted, ByOperator, ByNeighbour
<1>7. AccessTypeOK'
  BY <1>2, <1>3, <1>4, <1>5 DEF AccessTypeOK
<1> QED
  BY <1>6, <1>7

LEMMA CommandServed ==
    ASSUME LoadedIsAccepted, running = "running", AccessTypeOK, NEW call,
           call.listener \in config.listeners, call.app \in DOMAIN config.apps,
           call.method \in LegacyMethods \cup AgentMethods,
           call.method = "legacySubscribe" => call.wants \subseteq {"commands"},
           ServeCommand(call)
    PROVE  AccessTypeOK' /\ ServedAsGranted'
<1>1. Accepted(config) /\ config \in RawConfigs
  BY DEF LoadedIsAccepted
<1>2. CASE RequiresProvider(call.method) /\ Principals(call.token) = {}
  <2>1. Answered(call, Nil, Nil)
    BY <1>2 DEF ServeCommand
  <2> QED
    BY <2>1 DEF Answered, AccessTypeOK, ServedAsGranted
<1>3. ASSUME RequiresProvider(call.method), NEW p \in Principals(call.token),
             Answered(call, IF Handler(p, call) /\ InScope(p, call) THEN call.app ELSE Nil, p)
      PROVE  AccessTypeOK' /\ ServedAsGranted'
  <2> DEFINE app == IF Handler(p, call) /\ InScope(p, call) THEN call.app ELSE Nil
  <2>1. app \in DOMAIN config.apps \cup {Nil} /\ p \in DOMAIN config.providers /\ p # Nil
    BY <1>1, TokenIsOwn
  <2>2. app # Nil => /\ ByProvider(p, call)
                     /\ call.method \in Subscribing => call.wants \subseteq config.providers[p].grants
                     /\ call.method \in LegacyMethods => "legacy" \in config.providers[p].grants
                     /\ call.method \in DOMAIN GrantOf =>
                           GrantOf[call.method] \in config.providers[p].grants
    BY <1>1, ProviderIsGranted
  <2>3. served' = [call |-> call, app |-> app, as |-> p] /\ UNCHANGED <<config, running>>
    BY <1>3 DEF Answered
  <2> HIDE DEF app
  <2>4. served'.call = call /\ served'.app = app /\ served'.as = p
    BY <2>3
  <2>5. ServedAsGranted'
    BY <2>1, <2>2, <2>3, <2>4 DEF ServedAsGranted, ByProvider
  <2>6. AccessTypeOK'
    BY <2>1, <2>3, <2>4 DEF AccessTypeOK
  <2> QED
    BY <2>5, <2>6
<1>4. CASE ~RequiresProvider(call.method)
  <2> DEFINE app == IF GeneralAuth(call) THEN call.app ELSE Nil
  <2>1. call.method \in LegacyMethods /\ DOMAIN config.providers = {}
    BY <1>4 DEF RequiresProvider, Scoped
  <2>2. app # Nil => ByOperator(call.token) \/ ByNeighbour(call)
    BY <1>1, GeneralIsOperator
  <2>3. app \in DOMAIN config.apps \cup {Nil}
    OBVIOUS
  <2>4. served' = [call |-> call, app |-> app, as |-> Nil] /\ UNCHANGED <<config, running>>
    BY <1>4 DEF ServeCommand, Answered
  <2> HIDE DEF app
  <2>5. served'.call = call /\ served'.app = app /\ served'.as = Nil
    BY <2>4
  <2>6. ServedAsGranted'
    BY <2>1, <2>2, <2>4, <2>5 DEF ServedAsGranted, ByOperator, ByNeighbour
  <2>7. AccessTypeOK'
    BY <2>1, <2>3, <2>4, <2>5 DEF AccessTypeOK
  <2> QED
    BY <2>6, <2>7
<1> QED
  BY <1>2, <1>3, <1>4 DEF ServeCommand

LEMMA ProviderServed ==
    ASSUME LoadedIsAccepted, running = "running", AccessTypeOK, ServeProvider
    PROVE  AccessTypeOK' /\ ServedAsGranted'
<1>1. CASE \E call \in SubscribeCalls("subscribe", Wishes) : ServeCommand(call)
  <2>1. PICK call \in SubscribeCalls("subscribe", Wishes) : ServeCommand(call)
    BY <1>1
  <2>2. /\ call.method = "subscribe" /\ call.listener \in config.listeners
        /\ call.app \in DOMAIN config.apps
    BY DEF SubscribeCalls
  <2>3. call.method \in LegacyMethods \cup AgentMethods /\ call.method # "legacySubscribe"
    BY <2>2 DEF AgentMethods
  <2> QED
    BY <2>1, <2>2, <2>3, CommandServed
<1>2. CASE \E call \in SubscribeCalls("legacySubscribe", {"commands"}) : ServeCommand(call)
  <2>1. PICK call \in SubscribeCalls("legacySubscribe", {"commands"}) : ServeCommand(call)
    BY <1>2
  <2>2. /\ call.method = "legacySubscribe" /\ call.listener \in config.listeners
        /\ call.app \in DOMAIN config.apps /\ call.wants \subseteq {"commands"}
    BY DEF SubscribeCalls
  <2>3. call.method \in LegacyMethods \cup AgentMethods
    BY <2>2 DEF LegacyMethods
  <2> QED
    BY <2>1, <2>2, <2>3, CommandServed
<1>3. CASE \E call \in OtherCalls({"legacyRespond", "respond"} \cup DOMAIN GrantOf) :
              ServeCommand(call)
  <2>1. PICK call \in OtherCalls({"legacyRespond", "respond"} \cup DOMAIN GrantOf) :
           ServeCommand(call)
    BY <1>3
  <2>2. /\ call.method \in {"legacyRespond", "respond"} \cup DOMAIN GrantOf
        /\ call.listener \in config.listeners /\ call.app \in DOMAIN config.apps
    BY DEF OtherCalls
  <2>3. DOMAIN GrantOf = {"context", "upload", "followUp", "reaction"}
    BY DEF GrantOf
  <2>4. call.method \in LegacyMethods \cup AgentMethods /\ call.method # "legacySubscribe"
    BY <2>2, <2>3 DEF LegacyMethods, AgentMethods
  <2> QED
    BY <2>1, <2>2, <2>4, CommandServed
<1> QED
  BY <1>1, <1>2, <1>3 DEF ServeProvider

LEMMA HealthServed ==
    ASSUME AccessTypeOK, ServeHealth
    PROVE  AccessTypeOK' /\ ServedAsGranted'
<1>1. PICK call \in OtherCalls({"health"}) : Answered(call, call.app, Nil)
  BY DEF ServeHealth
<1>2. call.method = "health" /\ call.app \in DOMAIN config.apps
  BY DEF OtherCalls
<1>3. /\ served' = [call |-> call, app |-> call.app, as |-> Nil]
      /\ UNCHANGED <<config, running>>
  BY <1>1 DEF Answered
<1>4. served'.call = call /\ served'.app = call.app /\ served'.as = Nil
  BY <1>3
<1> QED
  BY <1>2, <1>3, <1>4 DEF AccessTypeOK, ServedAsGranted

LEMMA AccessNextInv == AccessInv /\ [AccessNext]_accessVars => AccessInv'
<1> SUFFICES ASSUME AccessInv, [AccessNext]_accessVars PROVE AccessInv'
  OBVIOUS
<1>1. CASE Load
  <2>1. /\ running' = IF Accepted(config) THEN "running" ELSE "refused"
        /\ UNCHANGED <<config, served>>
    BY <1>1 DEF Load
  <2>2. LoadedIsAccepted'
    BY <2>1 DEF AccessInv, LoadedIsAccepted
  <2> QED
    BY <2>1, <2>2 DEF AccessInv, AccessTypeOK, ServedAsGranted, ByOperator, ByNeighbour, ByProvider
<1>2. CASE Listening /\ (ServeHealth \/ ServeOutbound \/ ServeProvider)
  <2>1. UNCHANGED <<config, running>>
    BY <1>2 DEF ServeHealth, ServeOutbound, ServeProvider, ServeCommand, Answered
  <2>2. LoadedIsAccepted'
    BY <2>1 DEF AccessInv, LoadedIsAccepted
  <2>3. Accepted(config) /\ config \in RawConfigs /\ running = "running"
    BY <1>2 DEF AccessInv, LoadedIsAccepted, Listening
  <2>4. AccessTypeOK' /\ ServedAsGranted'
    BY <1>2, <2>3, HealthServed, OutboundServed, ProviderServed DEF AccessInv
  <2> QED
    BY <2>2, <2>4 DEF AccessInv
<1>3. CASE Settle
  BY <1>3 DEF Settle, AccessInv, LoadedIsAccepted, AccessTypeOK, ServedAsGranted
<1>4. CASE UNCHANGED accessVars
  BY <1>4 DEF accessVars, AccessInv, LoadedIsAccepted, AccessTypeOK, ServedAsGranted,
              ByOperator, ByNeighbour, ByProvider
<1> QED
  BY <1>1, <1>2, <1>3, <1>4 DEF AccessNext

(* Whatever configuration LoadFromEnv accepts, the interceptors, handlers  *)
(* and routes let a call through only from the operator, from this machine *)
(* where no provider is told from another, or from the one provider of its *)
(* token within its grants and apps; and a name reaches the one app that   *)
(* has it.                                                                 *)
THEOREM GrantsAreKept == AccessSpec => []ServedAsGranted
<1>1. AccessInit => AccessInv
  BY DEF AccessInit, AccessInv, LoadedIsAccepted, AccessTypeOK, ServedAsGranted
<1>2. AccessInv => ServedAsGranted
  BY DEF AccessInv
<1> QED
  BY <1>1, <1>2, AccessNextInv, PTL DEF AccessSpec

(* The daemon serves no call it knows neither the app nor the caller of.   *)
THEOREM AccessTypes == AccessSpec => []AccessTypeOK
<1>1. AccessInit => AccessInv
  BY DEF AccessInit, AccessInv, LoadedIsAccepted, AccessTypeOK, ServedAsGranted
<1>2. AccessInv => AccessTypeOK
  BY DEF AccessInv
<1> QED
  BY <1>1, <1>2, AccessNextInv, PTL DEF AccessSpec

=============================================================================
