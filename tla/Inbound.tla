------------------------------- MODULE Inbound -------------------------------
(***************************************************************************)
(* Messages on their way in.  Every app has its receiver, and a group with *)
(* several bots in it presents each message to all of them.  A receiver    *)
(* takes a message of a direct chat, one that mentions its bot, or a reply *)
(* (CommandFromEvent); DispatchCommand then resolves who wrote the parent  *)
(* of a reply and decides who may see the message.  What the brokers do    *)
(* with it from there is the subject of Ingress.                           *)
(***************************************************************************)
EXTENDS FiniteSets, Naturals, Sequences

CONSTANTS
    Bots,           \* the apps, and their bots
    Chats,          \* Direct among them
    Direct,
    Agents,         \* providers
    BotName,        \* bot -> the name it has in Feishu
    StrongIds,      \* bots whose app knows their id from the configuration
    KnownNames,     \* app -> the names its configuration gives its bot
    Aliases,        \* app -> chat -> how many aliases the app has for it
    OpenGroups,     \* apps that allow groups without an alias
    MayUse,         \* agent -> the apps it is allowed
    InboundMessages,\* what people may write: [chat, kind, mentions, parent, words]
    Nobody

ASSUME InboundAssumption ==
    /\ Direct \in Chats /\ StrongIds \subseteq Bots /\ OpenGroups \subseteq Bots
    /\ \A a \in Bots : Aliases[a][Direct] = 0

VARIABLES
    cards,      \* cards of agents in chats: <<bot, agent, chat>>
    known,      \* those whose owner has been recorded
    handed      \* what is handed on: [app, message, to], or Nobody

inboundVars == <<cards, known, handed>>

(* A message has a parent: a card, or Nobody; `words' is what it says      *)
(* besides the mentions: nothing, a slash, or something.                   *)
Group(m) == m.chat # Direct

InboundInit == cards = {} /\ known = {} /\ handed = Nobody

(* An agent answers in a chat; its ownership is recorded a moment later,   *)
(* and forgotten when it expires.                                          *)
PostCard(a, p, chat) ==
    /\ cards' = cards \cup {<<a, p, chat>>}
    /\ UNCHANGED <<known, handed>>

RecordOwner(card) ==
    /\ card \in cards \ known
    /\ known' = known \cup {card}
    /\ UNCHANGED <<cards, handed>>

ForgetOwner(card) ==
    /\ card \in known
    /\ known' = known \ {card}
    /\ UNCHANGED <<cards, handed>>

-----------------------------------------------------------------------------
(* A mention is of a bot, or of Nobody: a person.  A configured id decides *)
(* alone; without one a bot goes by its name.                              *)
(* Mutation of MatchesBotMention: a name is enough, whatever the id.       *)
NameEnough(a, b) ==
    b \in Bots /\ (BotName[b] \in KnownNames[a] \/ (a \in StrongIds /\ b = a))

MatchesBotMention(a, b) ==
    IF a \in StrongIds THEN b = a ELSE b \in Bots /\ BotName[b] \in KnownNames[a]

Matching(a, m) == {b \in m.mentions : MatchesBotMention(a, b)}

(* The mentions of the bot go; the others stay and count as text.          *)
Prompt(a, m) ==
    IF m.mentions \ Matching(a, m) # {} THEN "words" ELSE m.words

UnmentionedReply(a, m) == Group(m) /\ Matching(a, m) = {} /\ m.parent # Nobody

(* A chat with two aliases of an app has none as far as it is concerned.   *)
HasAlias(a, m) == Aliases[a][m.chat] = 1

Understood(a, m) ==
    /\ m.kind \in {"text", "post"}
    /\ Group(m) => HasAlias(a, m) \/ a \in OpenGroups
    /\ Group(m) => Matching(a, m) # {} \/ UnmentionedReply(a, m)
    /\ Prompt(a, m) = "words"

(* resolveAgentReplyOwner: the agent that wrote the parent, if this app    *)
(* posted it and the agent may use the app.                                *)
ReplyOwner(a, m) ==
    IF m.parent \in known /\ m.parent[1] = a /\ a \in MayUse[m.parent[2]]
    THEN m.parent[2] ELSE Nobody

(* Mutation of AgentOnly: a reply to an agent is like any other mention.   *)
AgentOnlyByChat(a, m) == ~Group(m) \/ ~HasAlias(a, m)

(* Direct messages, open groups and replies to agents are not for the      *)
(* consumers of commands.                                                  *)
AgentOnly(a, m) == ~Group(m) \/ ~HasAlias(a, m) \/ ReplyOwner(a, m) # Nobody

HandedTo(a, m) ==
    [agents |-> IF ReplyOwner(a, m) # Nobody THEN {ReplyOwner(a, m)} ELSE Agents,
     legacy |-> ~AgentOnly(a, m)]

(* The event of a message reaches the receiver of an app.  One that it     *)
(* does not take, and a reply to nobody's card, go no further.             *)
Receive(a, m) ==
    /\ Understood(a, m)
    /\ UnmentionedReply(a, m) => ReplyOwner(a, m) # Nobody
    /\ m.parent # Nobody => m.parent \in cards /\ m.parent[3] = m.chat
    /\ handed' = [app |-> a, message |-> m, to |-> HandedTo(a, m)]
    /\ UNCHANGED <<cards, known>>

(* The brokers take it from there.                                         *)
Route == handed # Nobody /\ handed' = Nobody /\ UNCHANGED <<cards, known>>

InboundNext ==
    \/ \E a \in Bots, p \in Agents, chat \in Chats : PostCard(a, p, chat)
    \/ \E card \in cards : RecordOwner(card) \/ ForgetOwner(card)
    \/ handed = Nobody /\ \E a \in Bots, m \in InboundMessages : Receive(a, m)
    \/ Route

InboundSpec == InboundInit /\ [][InboundNext]_inboundVars

-----------------------------------------------------------------------------
InboundTypeOK ==
    /\ known \subseteq cards /\ cards \subseteq Bots \X Agents \X Chats
    /\ handed # Nobody => handed.app \in Bots /\ handed.message \in InboundMessages

(* Who a message of a group is addressed to, as its writer sees it: the    *)
(* bots it mentions and the one that wrote what it replies to.             *)
Addressed(m) ==
    (m.mentions \cap Bots) \cup (IF m.parent = Nobody THEN {} ELSE {m.parent[1]})

(* A message of a group is handed on by the bots it is addressed to and no *)
(* other, unless a bot known by name shares its name; what is said to an   *)
(* agent's card without naming the bot is for that agent alone; and the    *)
(* consumers of commands see neither direct messages nor groups without an *)
(* alias.  The bots of a group all receive it, and each app decides alone: *)
(* receiver.go and service/command.go.                                     *)
OnlyAddressed ==
    handed # Nobody =>
        LET h == handed
            m == handed.message
        IN  /\ Group(m) => \/ h.app \in Addressed(m)
                           \/ /\ h.app \notin StrongIds
                              /\ \E b \in m.mentions \cap Bots : BotName[b] = BotName[h.app]
            /\ Group(m) /\ m.mentions \cap Bots = {} => h.to.agents = {m.parent[2]} /\ ~h.to.legacy
            /\ h.to.legacy => Group(m) /\ Aliases[h.app][m.chat] = 1

=============================================================================
