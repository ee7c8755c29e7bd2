----------------------------- MODULE CardEvents -----------------------------
(***************************************************************************)
(* Clicks on the buttons of an agent's card, and reactions to it.  Both    *)
(* reach the daemon as events of the card's app and go to the agent that   *)
(* wrote the card, on the oldest of its streams that asks for them: a      *)
(* click finds the author among the responses in memory, a reaction in the *)
(* store of owners.  Feishu may present an event more than once.           *)
(***************************************************************************)
EXTENDS Naturals, SequencesExt, Clock

CONSTANTS
    Cards,          \* messages, those agents post and others
    CardAgents,     \* providers
    Author,         \* card -> its agent, or None if a person wrote it
    AppOf,          \* card -> the app that posted it
    Buttons,        \* card -> the <<action_id, payload>> the agent put on it
    CardStreams,    \* subscriptions: [agent, kinds, apps]
    AgentApps,      \* agent -> apps the configuration allows it
    Events,         \* [kind, id, app, card, button]
    QueueSize,      \* agentSubscriptionBuffer
    SeenFor,        \* the dedupe TTL
    CardEventsUntil,\* bound: the clock stops here
    None

ASSUME CardAssumption ==
    {QueueSize, SeenFor, CardEventsUntil} \subseteq Nat /\ CardEventsUntil >= 1

VARIABLES
    posted,     \* cards people can see
    responses,  \* card -> until when its response is in memory, 0 if it is not
    owned,      \* cards whose author is in the store
    opened,     \* streams, the oldest first
    waiting,    \* stream -> events in its channel
    passed,     \* seenActions and seenReactions: until when it is a duplicate
    brought,    \* history: <<event, agent, when>> of what was put in a channel
    reply       \* the last event and what Feishu was told

cardVars == <<now, posted, responses, owned, opened, waiting, passed, brought, reply>>

Key(e) == <<e.kind, e.app, e.id>>
Keys == {Key(e) : e \in Events}
Lasts(until) == until # 0 /\ now <= until

CardInit ==
    /\ now = 1
    /\ posted = {c \in Cards : Author[c] = None}
    /\ responses = [c \in Cards |-> 0]
    /\ owned = {} /\ opened = <<>>
    /\ waiting = [s \in CardStreams |-> 0]
    /\ passed = [k \in Keys |-> 0]
    /\ brought = {} /\ reply = None

(* A response: the card is in the chat, then in memory, then in the store, *)
(* unless that fails.                                                      *)
ShowCard(c) ==
    /\ c \notin posted
    /\ posted' = posted \cup {c}
    /\ UNCHANGED <<now, responses, owned, opened, waiting, passed, brought, reply>>

KeepResponse(c) ==
    /\ c \in posted /\ responses[c] = 0 /\ Author[c] # None
    /\ responses' = [responses EXCEPT ![c] = now + SeenFor]
    /\ UNCHANGED <<now, posted, owned, opened, waiting, passed, brought, reply>>

KeepOwner(c) ==
    /\ responses[c] # 0 /\ c \notin owned
    /\ owned' = owned \cup {c}
    /\ UNCHANGED <<now, posted, responses, opened, waiting, passed, brought, reply>>

Listen(s) ==
    /\ s \notin ToSet(opened)
    /\ opened' = Append(opened, s)
    /\ waiting' = [waiting EXCEPT ![s] = 0]
    /\ UNCHANGED <<now, posted, responses, owned, passed, brought, reply>>

Hang(s) ==
    /\ \E i \in DOMAIN opened : opened[i] = s /\ opened' = RemoveAt(opened, i)
    /\ UNCHANGED <<now, posted, responses, owned, waiting, passed, brought, reply>>

Read(s) ==
    /\ s \in ToSet(opened) /\ waiting[s] > 0
    /\ waiting' = [waiting EXCEPT ![s] = @ - 1]
    /\ UNCHANGED <<now, posted, responses, owned, opened, passed, brought, reply>>

-----------------------------------------------------------------------------
(* The streams, by their place in `opened', that may take an event.        *)
Targets(agent, e) ==
    {i \in DOMAIN opened :
        opened[i].agent = agent /\ e.kind \in opened[i].kinds /\ e.app \in opened[i].apps}

Oldest(i, targets) == i \in targets /\ \A j \in targets : i <= j

Told(e, what) == reply' = [event |-> e, told |-> what]

(* The event is in the channel, and is a duplicate from then on.           *)
Enters(target, e) ==
    /\ waiting' = [waiting EXCEPT ![target] = @ + 1]
    /\ passed' = [passed EXCEPT ![Key(e)] = now + SeenFor]
    /\ brought' = brought \cup {<<e, target.agent, now>>}
    /\ Told(e, "ok")

(* Mutation of Bring: the event counts as seen before it is in a channel.  *)
SeenFirst(agent, e) ==
    \E i \in DOMAIN opened :
        /\ Oldest(i, Targets(agent, e))
        /\ IF waiting[opened[i]] < QueueSize
           THEN Enters(opened[i], e)
           ELSE /\ passed' = [passed EXCEPT ![Key(e)] = now + SeenFor]
                /\ Told(e, "retry") /\ UNCHANGED <<waiting, brought>>

(* Mutation of Bring: a full channel is not noticed.                       *)
Overfull(agent, e) ==
    \E i \in DOMAIN opened : Oldest(i, Targets(agent, e)) /\ Enters(opened[i], e)

(* The oldest stream takes it, or nobody does.                             *)
Bring(agent, e) ==
    \E i \in DOMAIN opened :
        /\ Oldest(i, Targets(agent, e))
        /\ IF waiting[opened[i]] < QueueSize
           THEN Enters(opened[i], e)
           ELSE Told(e, "retry") /\ UNCHANGED <<waiting, passed, brought>>

Drop(e, what) == Told(e, what) /\ UNCHANGED <<waiting, passed, brought>>

Seen(e) == Lasts(passed[Key(e)])

(* DispatchAgentCardAction: a click is brought with the payload the agent  *)
(* wrote, and nothing else passes; Feishu shows what is told.              *)
Click(e) ==
    /\ e.kind = "action" /\ e.card \in posted
    /\ IF Seen(e) THEN Drop(e, "ok")
       ELSE IF e.app # AppOf[e.card] \/ ~Lasts(responses[e.card])
               \/ e.button \notin Buttons[e.card] THEN Drop(e, "unknown")
       ELSE IF Targets(Author[e.card], e) = {} THEN Drop(e, "retry")
       ELSE Bring(Author[e.card], e)
    /\ UNCHANGED <<now, posted, responses, owned, opened>>

(* DispatchAgentMessageReaction: without an owner, or one that listens,    *)
(* there is nothing to do; if the store cannot be read Feishu tries again. *)
React(e) ==
    /\ e.kind = "reaction" /\ e.card \in posted
    /\ \/ Drop(e, "retry")
       \/ IF e.app # AppOf[e.card] \/ e.card \notin owned
                \/ e.app \notin AgentApps[Author[e.card]] THEN Drop(e, "ok")
          ELSE IF Seen(e) \/ Targets(Author[e.card], e) = {} THEN Drop(e, "ok")
          ELSE Bring(Author[e.card], e)
    /\ UNCHANGED <<now, posted, responses, owned, opened>>

CardTick ==
    /\ Tick(CardEventsUntil)
    /\ UNCHANGED <<posted, responses, owned, opened, waiting, passed, brought, reply>>

CardNext ==
    \/ \E c \in Cards : ShowCard(c) \/ KeepResponse(c) \/ KeepOwner(c)
    \/ \E s \in CardStreams : Listen(s) \/ Hang(s) \/ Read(s)
    \/ \E e \in Events : Click(e) \/ React(e)
    \/ CardTick

CardSpec == CardInit /\ [][CardNext]_cardVars

-----------------------------------------------------------------------------
CardTypeOK ==
    /\ now \in 1..CardEventsUntil
    /\ posted \subseteq Cards /\ owned \subseteq posted
    /\ responses \in [Cards -> 0..CardEventsUntil + SeenFor]
    /\ IsInjective(opened) /\ ToSet(opened) \subseteq CardStreams
    /\ waiting \in [CardStreams -> 0..QueueSize]
    /\ passed \in [Keys -> 0..CardEventsUntil + SeenFor]

(* An event goes to the agent that wrote the card and to no other, through *)
(* the app of the card; a click is on a button the agent put there.        *)
(* Feishu is told that a click arrived only if it did, and within the      *)
(* dedupe TTL no event arrives twice -- however it is repeated, whatever   *)
(* streams come and go, and wherever the response that posted the card is. *)
EventsReachAuthor ==
    /\ \A b \in brought :
          LET e == b[1] IN
          /\ b[2] = Author[e.card] /\ e.app = AppOf[e.card]
          /\ e.kind = "action" => e.button \in Buttons[e.card]
    /\ \A b, c \in brought :
          Key(b[1]) = Key(c[1]) /\ b # c =>
              b[3] > c[3] + SeenFor \/ c[3] > b[3] + SeenFor
    /\ reply # None /\ reply.told = "ok" /\ reply.event.kind = "action" =>
          \E b \in brought : Key(b[1]) = Key(reply.event)

=============================================================================
