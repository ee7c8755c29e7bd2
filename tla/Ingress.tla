-------------------------------- MODULE Ingress --------------------------------
(***************************************************************************)
(* Inbound routing: DispatchCommand hands a Feishu message either to the   *)
(* legacy command broker or to the agent broker, and the route registry    *)
(* remembers which messages were taken so that a redelivery -- the same    *)
(* event again, or the same message under another event id -- is dropped.  *)
(*                                                                         *)
(* dispatchInboundRoute and lookupAndPinAgentDelivery hold the routes      *)
(* mutex throughout, so each is one step; subscribing and unsubscribing    *)
(* touch one broker only and fall before or after it.  Feishu may present  *)
(* any event any number of times.                                          *)
(***************************************************************************)
EXTENDS Clock, Integers, FiniteSets

CONSTANTS
    Messages,       \* Feishu messages
    Deliveries,     \* delivery ids, one per Feishu event
    Event,          \* id -> [message, app, conversation, command, agentOnly, owner]
    Subscriptions,  \* streams: [path, provider, commands, unmatched, apps]
    NoOne,          \* no provider, and no app
    Capacity,       \* commandSubscriptionBuffer, agentSubscriptionBuffer
    TTL,            \* the dedupe TTL of routes and both brokers
    PinFor,         \* messageUUIDDedupeWindow + cfg.SendTimeout
    MaxTime         \* bound: the clock stops here

Paths         == {"legacy", "agent"}
Apps          == {Event[d].app : d \in Deliveries}
Conversations == {Event[d].conversation : d \in Deliveries}
Providers     == {s.provider : s \in Subscriptions}
Of(path)      == {s \in Subscriptions : s.path = path}

ASSUME IngressAssumption ==
    /\ Deliveries \cap Messages = {}       \* the registry keeps two maps
    /\ \A d \in Deliveries :
          /\ Event[d].message \in Messages
          /\ Event[d].agentOnly \in BOOLEAN
          /\ Event[d].owner # NoOne => Event[d].agentOnly
    /\ \A s \in Subscriptions :
          /\ s.path \in Paths
          /\ s.unmatched \in BOOLEAN
          /\ s.apps \subseteq Apps
    /\ NoOne \notin Providers \cup Apps
    /\ Capacity \in Nat \ {0}
    /\ TTL \in Nat /\ PinFor \in Nat /\ PinFor <= TTL      \* config.Load
    /\ MaxTime \in Nat \ {0}

VARIABLES
    routes,         \* inboundRouteRegistry: delivery ids and messages -> expiry
    legacy,         \* commandBroker.deliveries: id -> [to, expiresAt]
    agent,          \* agentBroker.deliveries: id -> [to, expiresAt]
    seen,           \* agentBroker.seenMessages: message -> expiry
    conversation,   \* agentBroker.conversations: id -> [app, expiresAt]
    open,           \* the subscriptions that exist
    queued,         \* events in the channel of each
    taken           \* history: how a message was last taken, and when it lapses

vars == <<now, routes, legacy, agent, seen, conversation, open, queued, taken>>

(* Every map prunes the entries whose time is over before it is read.      *)
Live(expiry) == expiry # 0 /\ now <= expiry

Later(a, b) == IF a < b THEN b ELSE a

NoDelivery == [to |-> {}, expiresAt |-> 0]
NotTaken   == [path |-> "none", to |-> {}, under |-> NoOne, until |-> 0]

Init ==
    /\ now = 1
    /\ routes = [x \in Deliveries \cup Messages |-> 0]
    /\ legacy = [d \in Deliveries |-> NoDelivery]
    /\ agent = [d \in Deliveries |-> NoDelivery]
    /\ seen = [m \in Messages |-> 0]
    /\ conversation = [k \in Conversations |-> [app |-> NoOne, expiresAt |-> 0]]
    /\ open = {}
    /\ queued = [s \in Subscriptions |-> 0]
    /\ taken = [m \in Messages |-> NotTaken]

Subscribe(s) ==
    /\ s \notin open
    /\ open' = open \cup {s}
    /\ queued' = [queued EXCEPT ![s] = 0]
    /\ UNCHANGED <<now, routes, legacy, agent, seen, conversation, taken>>

Unsubscribe(s) ==
    /\ s \in open
    /\ open' = open \ {s}
    /\ queued' = [queued EXCEPT ![s] = 0]
    /\ UNCHANGED <<now, routes, legacy, agent, seen, conversation, taken>>

(* The stream's RPC hands an event to its provider.                        *)
Consume(s) ==
    /\ s \in open
    /\ queued[s] > 0
    /\ queued' = [queued EXCEPT ![s] = @ - 1]
    /\ UNCHANGED <<now, routes, legacy, agent, seen, conversation, open, taken>>

-----------------------------------------------------------------------------
Allows(s, d) == Event[d].app \in s.apps

(* Mutation of HasRoom: one event more than the buffer holds.              *)
HasRoomForOneMore(s) == queued[s] <= Capacity

HasRoom(s) == queued[s] < Capacity

Matches(s, d) == Event[d].command \in s.commands

LegacyCandidates(d) == {s \in Of("legacy") \cap open : Allows(s, d) /\ Matches(s, d)}

(* Exact subscribers win over unmatched ones -- whether or not they have   *)
(* room -- and the reply to an owned message goes to its owner only.       *)
AgentCandidates(d) ==
    LET eligible == {s \in Of("agent") \cap open :
                        /\ Allows(s, d)
                        /\ Event[d].owner \in {NoOne, s.provider}}
        exact    == {s \in eligible : Matches(s, d)}
    IN  IF exact # {} THEN exact ELSE {s \in eligible : s.unmatched}

(* One subscription per provider takes the event: the first the map walk   *)
(* meets whose channel has room.                                           *)
Takers(candidates) ==
    LET ready == {s \in candidates : HasRoom(s)} IN
    {chosen \in SUBSET ready :
        \A s \in ready : Cardinality({t \in chosen : t.provider = s.provider}) = 1}

To(chosen) == {s.provider : s \in chosen}

Enqueue(chosen) ==
    queued' = [s \in Subscriptions |-> IF s \in chosen THEN queued[s] + 1 ELSE queued[s]]

(* Mutation of Remember: only the delivery id is recorded.                 *)
RememberDelivery(d) == routes' = [routes EXCEPT ![d] = now + TTL]

(* Whatever handled the event, the registry records id and message.        *)
Remember(d) ==
    routes' = [routes EXCEPT ![d] = now + TTL, ![Event[d].message] = now + TTL]

Routed(d) == Live(routes[d]) \/ Live(routes[Event[d].message])

Take(d, path, chosen) ==
    taken' = [taken EXCEPT ![Event[d].message] =
                [path |-> path, to |-> To(chosen), under |-> d, until |-> now + TTL]]

DispatchLegacy(d, chosen) ==
    /\ ~Routed(d)
    /\ ~Event[d].agentOnly
    /\ ~Live(legacy[d].expiresAt)
    /\ chosen \in Takers(LegacyCandidates(d))
    /\ chosen # {}
    /\ legacy' = [legacy EXCEPT ![d] = [to |-> To(chosen), expiresAt |-> now + TTL]]
    /\ Enqueue(chosen)
    /\ Remember(d)
    /\ Take(d, "legacy", chosen)
    /\ UNCHANGED <<now, agent, seen, conversation, open>>

(* The legacy broker passes: it has no delivery of this id and nobody who  *)
(* would take it.                                                          *)
LegacyPasses(d) ==
    \/ Event[d].agentOnly
    \/ /\ ~Live(legacy[d].expiresAt)
       /\ Takers(LegacyCandidates(d)) = {{}}

(* Mutation of AgentKnows: the broker looks at delivery ids alone.         *)
AgentKnowsDelivery(d) == Live(agent[d].expiresAt)

AgentKnows(d) == Live(agent[d].expiresAt) \/ Live(seen[Event[d].message])

(* Mutation of ConversationConflict: the app of a conversation is ignored. *)
NoConversationConflict(d) == FALSE

ConversationConflict(d) ==
    LET k == conversation[Event[d].conversation] IN
    Live(k.expiresAt) /\ k.app # Event[d].app

DispatchAgent(d, chosen) ==
    LET e == Event[d] IN
    /\ ~Routed(d)
    /\ LegacyPasses(d)
    /\ ~AgentKnows(d)
    /\ ~ConversationConflict(d)
    /\ chosen \in Takers(AgentCandidates(d))
    /\ chosen # {}
    /\ agent' = [agent EXCEPT ![d] = [to |-> To(chosen), expiresAt |-> now + TTL]]
    /\ seen' = [seen EXCEPT ![e.message] = now + TTL]
    /\ conversation' = [conversation EXCEPT ![e.conversation] =
                          [app |-> e.app, expiresAt |-> now + TTL]]
    /\ Enqueue(chosen)
    /\ Remember(d)
    /\ Take(d, "agent", chosen)
    /\ UNCHANGED <<now, legacy, open>>

KnownAlready(d) ==
    IF LegacyPasses(d)
    THEN AgentKnows(d) \/ ConversationConflict(d)
    ELSE Live(legacy[d].expiresAt)

(* A broker answers "handled" for a delivery it has or a conversation it   *)
(* must not serve: nobody receives the event, and the registry records it. *)
DispatchHandled(d) ==
    /\ ~Routed(d)
    /\ KnownAlready(d)
    /\ Remember(d)
    /\ UNCHANGED <<now, legacy, agent, seen, conversation, open, queued, taken>>

(* Mutation of PinBroker: the pin replaces an expiry that is later.        *)
PinBrokerShort(expiry) == now + PinFor

(* Start pins the delivery and its message in the agent broker ...         *)
PinBroker(expiry) == Later(expiry, now + PinFor)

(* ... and in the registry, there without looking at what it replaces.     *)
PinRoutes(d) ==
    routes' = [routes EXCEPT ![d] = now + PinFor, ![Event[d].message] = now + PinFor]

Start(d) ==
    /\ Live(agent[d].expiresAt)
    /\ agent' = [agent EXCEPT ![d].expiresAt = PinBroker(@)]
    /\ seen' = [seen EXCEPT ![Event[d].message] = PinBroker(@)]
    /\ PinRoutes(d)
    /\ UNCHANGED <<now, legacy, conversation, open, queued, taken>>

(* A follow-up or a card action of the conversation keeps its route alive. *)
Refresh(k) ==
    /\ Live(conversation[k].expiresAt)
    /\ conversation' = [conversation EXCEPT ![k].expiresAt = now + TTL]
    /\ UNCHANGED <<now, routes, legacy, agent, seen, open, queued, taken>>

IngressTick ==
    /\ Tick(MaxTime)
    /\ UNCHANGED <<routes, legacy, agent, seen, conversation, open, queued, taken>>

Next ==
    \/ \E s \in Subscriptions : Subscribe(s) \/ Unsubscribe(s) \/ Consume(s)
    \/ \E d \in Deliveries :
          \/ \E chosen \in SUBSET Of("legacy") : DispatchLegacy(d, chosen)
          \/ \E chosen \in SUBSET Of("agent") : DispatchAgent(d, chosen)
          \/ DispatchHandled(d)
          \/ Start(d)
    \/ \E k \in Conversations : Refresh(k)
    \/ IngressTick

Spec == Init /\ [][Next]_vars

-----------------------------------------------------------------------------
Times == 0 .. MaxTime + TTL

(* Every variable has its type, and no channel holds more than it can.     *)
TypeOK ==
    /\ now \in 1 .. MaxTime
    /\ routes \in [Deliveries \cup Messages -> Times]
    /\ legacy \in [Deliveries -> [to : SUBSET Providers, expiresAt : Times]]
    /\ agent \in [Deliveries -> [to : SUBSET Providers, expiresAt : Times]]
    /\ seen \in [Messages -> Times]
    /\ conversation \in [Conversations -> [app : Apps \cup {NoOne}, expiresAt : Times]]
    /\ open \subseteq Subscriptions
    /\ queued \in [Subscriptions -> 0 .. Capacity]
    /\ taken \in [Messages -> [path : Paths \cup {"none"}, to : SUBSET Providers,
                               under : Deliveries \cup {NoOne}, until : Times]]

Lasting(m) == taken[m].until # 0 /\ now <= taken[m].until

TakenAgain(m, path) ==
    /\ taken'[m] # taken[m]
    /\ taken'[m].path = path

Untouched(m) == \A d \in Deliveries : Event[d].message = m => agent[d] = NoDelivery

(* A message that legacy consumers took, and no agent before them, is not  *)
(* routed again for the dedupe lifetime, to anyone, whoever subscribes or  *)
(* leaves meanwhile and under whatever event id Feishu presents it.        *)
LegacyRouteSticks ==
    [][\A m \in Messages :
          Lasting(m) /\ taken[m].path = "legacy" /\ Untouched(m) =>
              ~TakenAgain(m, "legacy") /\ ~TakenAgain(m, "agent")]_vars

(* No agent receives a message twice within the dedupe lifetime, however   *)
(* often its delivery is started and pinned.                               *)
AgentTakesOnce ==
    [][\A m \in Messages :
          Lasting(m) /\ taken[m].path = "agent" => ~TakenAgain(m, "agent")]_vars

(* A provider that received an agent event can start a response to it for  *)
(* the whole lifetime, also when the event came again under another id and *)
(* whatever was pruned meanwhile: the delivery is found and names the      *)
(* provider.                                                               *)
ReceiverCanStart ==
    \A m \in Messages :
        Lasting(m) /\ taken[m].path = "agent" =>
            LET delivery == agent[taken[m].under] IN
            Live(delivery.expiresAt) /\ taken[m].to \subseteq delivery.to

(* The messages of one conversation that agents hold came through one app, *)
(* so that a conversation handle can never answer through another app.     *)
OneAppPerConversation ==
    \A m, n \in Messages :
        /\ Lasting(m) /\ taken[m].path = "agent"
        /\ Lasting(n) /\ taken[n].path = "agent"
        => LET e == Event[taken[m].under]
               f == Event[taken[n].under]
           IN  e.conversation = f.conversation => e.app = f.app

(* The route of a message is sticky for the dedupe lifetime: "A Feishu     *)
(* retry never re-arbitrates between legacy and agent paths or after       *)
(* subscriber churn" (docs/ipc.md).                                        *)
RouteSticks ==
    [][\A m \in Messages :
          Lasting(m) => ~TakenAgain(m, "legacy") /\ ~TakenAgain(m, "agent")]_vars

=============================================================================
