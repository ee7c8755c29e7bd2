-------------------------------- MODULE MCEdge --------------------------------
(***************************************************************************)
(* Instances of the parts between the daemon and the outside -- access to  *)
(* its services, what receivers take in, where it is routed, events on     *)
(* cards, the context of a topic -- in one run.  The parts share no state  *)
(* but the clock, so every behaviour explores one of them, chosen at the   *)
(* start, while the others rest: each is checked as it is in its own       *)
(* specification.                                                          *)
(***************************************************************************)
EXTENDS Access, Inbound, MCIngress, CardEvents, AttachedContext

VARIABLE part

-----------------------------------------------------------------------------
(* Access: two apps, two providers, and what may be wrong, or different,   *)
(* with the configuration of either, one thing at a time.                  *)
CONSTANTS main, other, provP, provQ, genTok, tokP, tokQ, raw, alias, second, id1, id2, svc

InFile(x) == [env |-> Nil, file |-> x]
InEnv(x)  == [env |-> x, file |-> Nil]
Without   == [n \in {} |-> Nil]

App(id, names) ==
    [id |-> id, secret |-> TRUE, file |-> names, env |-> Without,
     commands |-> TRUE, scripts |-> {}]

Everything == {"legacy", "commands", "unmatched", "cardActions", "reactionEvents",
               "attachedContext", "imageUpload", "followUps", "reactions"}

Base ==
    [apps |-> main :> App(id1, raw :> "c1") @@ other :> App(id2, second :> "c2"),
     default |-> InEnv(alias), services |-> svc :> second,
     listeners |-> {"httpUnix", "grpcUnix"}, loopback |-> TRUE, allowLAN |-> FALSE,
     general |-> InEnv(genTok),
     providers |-> provP :> [token |-> tokP, apps |-> {main}, grants |-> Everything]
                @@ provQ :> [token |-> tokQ, apps |-> Nil, grants |-> {"legacy"}],
     stateDir |-> TRUE, dedupeTTL |-> [env |-> 0, file |-> 0], sendTimeout |-> 1]

AllListeners == {"httpUnix", "httpTCP", "grpcUnix", "grpcTCP"}

MCRawConfigs ==
    {[Base EXCEPT !.providers = ps, !.listeners = ls] :
        ps \in {Base.providers, Without}, ls \in SUBSET AllListeners}
    \cup {[Base EXCEPT !.general = g, !.listeners = ls] :
        g \in {InEnv(Nil), InFile(tokP)}, ls \in {{"grpcUnix"}, {"grpcTCP", "httpUnix"}}}
    \cup {[Base EXCEPT !.providers[provQ].token = t] : t \in {tokP, genTok, Nil}}
    \cup {[Base EXCEPT !.providers[provP].grants = g, !.providers[provP].apps = apps] :
        g \in {{}, {"legacy"}} \cup {Everything \ {x} : x \in Everything},
        apps \in {{}, {main, other}, {main}, Nil}}
    \cup {[Base EXCEPT !.apps = main :> App(id, names) @@ other :> App(id2, second :> "c2")] :
        id \in {id1, id2, Nil},
        names \in {raw :> "c1" @@ second :> "c3", raw :> "c1" @@ alias :> "c3", Without}}
    \cup {[Base EXCEPT !.dedupeTTL.env = n, !.stateDir = b] : n \in {1, 5}, b \in BOOLEAN}
    \cup {[Base EXCEPT !.default = d, !.services = v] :
        d \in {InEnv(Nil), InEnv(raw), [env |-> second, file |-> raw]},
        v \in {svc :> raw, Without}}
    \cup {[Base EXCEPT !.loopback = FALSE, !.allowLAN = b, !.listeners = ls] :
        b \in BOOLEAN, ls \in {{"httpTCP"}, {"grpcTCP"}}}

MCChannelOf == raw :> alias @@ alias :> alias @@ second :> second

-----------------------------------------------------------------------------
(* Inbound: two bots of one name, of which one is known by its id; a group *)
(* with an alias of the first, one with two of the first and one of the    *)
(* second; an agent that may use both apps and one that may not.           *)
CONSTANTS bot1, bot2, group1, group2, agent1, agent2

MCBotName    == [b \in Bots |-> "robot"]
MCKnownNames == [b \in Bots |-> {"robot"}]
MCAliases ==
    bot1 :> (group1 :> 1 @@ group2 :> 2 @@ Direct :> 0) @@
    bot2 :> (group1 :> 1 @@ group2 :> 0 @@ Direct :> 0)
MCMayUse == agent1 :> Bots @@ agent2 :> {bot1}

MCInboundMessages ==
    [chat : Chats, kind : {"text", "image"}, mentions : SUBSET (Bots \cup {Nobody}),
     parent : {Nobody} \cup (Bots \X Agents \X {group1}), words : {"words", "none"}]

-----------------------------------------------------------------------------
(* CardEvents: a card with one button, and a person's message; streams of  *)
(* its author, the wider one opened by another call, and of another agent; *)
(* a click, a click on no button, a reaction, and one through another app. *)
CONSTANTS card, message, anna, ben

MCAuthor  == card :> anna @@ message :> None
MCAppOf   == card :> app1 @@ message :> app1
MCButtons == card :> {"yes"} @@ message :> {}

CardStream(who, kinds, apps) == [agent |-> who, kinds |-> kinds, apps |-> apps]

MCCardStreams ==
    {CardStream(anna, {"action", "reaction"}, {app1}),
     CardStream(anna, {"action"}, {app1, app2}),
     CardStream(ben, {"action", "reaction"}, {app1})}

MCAgentApps == [who \in CardAgents |-> {app1}]

CardEvent(kind, id, app, on, button) ==
    [kind |-> kind, id |-> id, app |-> app, card |-> on, button |-> button]

MCEvents ==
    {CardEvent("action", 1, app1, card, "yes"), CardEvent("action", 2, app1, card, "no"),
     CardEvent("reaction", 1, app1, card, "none"), CardEvent("reaction", 1, app2, card, "none"),
     CardEvent("reaction", 2, app1, message, "none")}

-----------------------------------------------------------------------------
(* AttachedContext: short topics, one longer than the limit on messages,   *)
(* one longer than the scan limit, and topics with every kind of content   *)
(* and every limit on files.                                               *)
Plain    == [text |-> 1, images |-> <<>>, videos |-> <<>>, alone |-> FALSE,
             other |-> FALSE, garbled |-> FALSE, late |-> FALSE]
Image(n) == [bytes |-> n, supported |-> TRUE]
Video(n) == [bytes |-> n, supported |-> TRUE, ms |-> 1]

Picture  == [Plain EXCEPT !.text = 0, !.images = <<Image(2)>>]
Post2    == [Plain EXCEPT !.images = <<Image(1), Image(2)>>, !.videos = <<Video(2)>>]
Clip     == [Plain EXCEPT !.text = 0, !.videos = <<Video(1)>>, !.alone = TRUE]
Sticker  == [Plain EXCEPT !.other = TRUE]
Garbled  == [Plain EXCEPT !.garbled = TRUE]

BadImages == [Picture EXCEPT !.images = <<Image(4), [Image(1) EXCEPT !.supported = FALSE]>>]
LongClip  == [Clip EXCEPT !.videos[1].ms = 9]
OddClip   == [Clip EXCEPT !.videos[1].supported = FALSE]
BigClip   == [Clip EXCEPT !.videos[1].bytes = 9]

MCTopics ==
    {<<Plain, Plain, Plain>>, <<Plain, Plain, Plain, Plain>>,
     <<Plain, Plain, Plain, Plain, Plain, Plain>>,
     <<Clip, Post2, Picture>>, <<Clip, Sticker, Garbled>>,
     <<BadImages, LongClip, OddClip, BigClip>>}

MCAdditions == {Plain, [Plain EXCEPT !.late = TRUE]}

-----------------------------------------------------------------------------
Others(own) ==
    /\ own # "access" => UNCHANGED accessVars
    /\ own # "inbound" => UNCHANGED inboundVars
    /\ own # "routing" => UNCHANGED <<routes, legacy, agent, seen, conversation, open,
                                      queued, taken>>
    /\ own # "cards" => UNCHANGED <<posted, responses, owned, opened, waiting, passed,
                                    brought, reply>>
    /\ own \in {"access", "inbound", "context"} => UNCHANGED now
    /\ own # "context" => UNCHANGED contextVars
    /\ UNCHANGED part

(* The parts at rest have one state each.                                  *)
EdgeInit ==
    /\ part \in {"access", "inbound", "routing", "cards", "context"}
    /\ AccessInit /\ (part # "access" => config = Base)
    /\ InboundInit /\ Init /\ CardInit
    /\ ContextInit /\ (part # "context" => topic = <<Plain, Plain, Plain>> /\ trigger = 1)

EdgeNext ==
    \/ part = "access" /\ AccessNext /\ Others(part)
    \/ part = "inbound" /\ InboundNext /\ Others(part)
    \/ part = "routing" /\ Next /\ Others(part)
    \/ part = "cards" /\ CardNext /\ Others(part)
    \/ part = "context" /\ ContextNext /\ Others(part)

edgeVars == <<part, accessVars, inboundVars, vars, cardVars, contextVars>>

EdgeSpec == EdgeInit /\ [][EdgeNext]_edgeVars

(* The type of every variable of the part explored.                        *)
EdgeTypeOK ==
    /\ part = "access" => AccessTypeOK
    /\ part = "inbound" => InboundTypeOK
    /\ part = "routing" => TypeOK
    /\ part = "cards" => CardTypeOK
    /\ part = "context" => ContextTypeOK

-----------------------------------------------------------------------------
(* What is explored: two cards and two deliveries of events at most, and   *)
(* one recalled message, in the short topics.                              *)
Explored ==
    /\ Cardinality(cards) <= 2
    /\ Cardinality(brought) <= 2
    /\ Cardinality(recalled) <= 1
    /\ Len(topic) > 3 => recalled = {}
    /\ Len(topic) \in {4, 5} => topic[1] # Plain \/ topic[4] = Plain

=============================================================================
