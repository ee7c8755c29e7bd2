-------------------------------- MODULE Access --------------------------------
(***************************************************************************)
(* Who may do what.  The daemon loads a configuration or stops; then it    *)
(* answers calls on its listeners.  A gRPC call passes the interceptors of *)
(* its listener, the authorization of its handler and the scope checks of  *)
(* the service; an HTTP call passes the check of its route.                *)
(*                                                                         *)
(* The actions follow the checks one by one; the property says from the    *)
(* configuration alone which calls ought to get through, and to what.      *)
(***************************************************************************)
EXTENDS Configuration

CONSTANTS
    RawConfigs,     \* the configurations the daemon may find
    Bearers,        \* tokens a caller may present, Nil among them
    Claims,         \* provider names a caller may claim
    Sources,        \* sources of notifications
    Idle            \* no call has been answered yet

(* No listener is of another kind, and no provider has no name.            *)
ASSUME AccessAssumption ==
    \A raw \in RawConfigs :
        /\ raw.listeners \subseteq {"httpUnix", "httpTCP", "grpcUnix", "grpcTCP"}
        /\ Nil \notin DOMAIN raw.providers

VARIABLES
    config,     \* the configuration
    running,    \* "loading", "refused", "running"
    served      \* the last call, the app it reached and as which provider

accessVars == <<config, running, served>>

(* The grant a handler asks for, besides the identity of the provider.     *)
GrantOf ==
    [context |-> "attachedContext", upload |-> "imageUpload",
     followUp |-> "followUps", reaction |-> "reactions"]

(* Start, Update, Finish and Replace ask for the identity alone.           *)
AgentMethods  == {"subscribe", "respond"} \cup DOMAIN GrantOf
LegacyMethods == {"legacySubscribe", "legacyRespond"}
Subscribing   == {"subscribe", "legacySubscribe"}
Outbound      == {"notify", "message"}

(* What a subscription may ask for.                                        *)
Wishes == {"commands", "unmatched", "cardActions", "reactionEvents"}

Scoped  == DOMAIN config.providers # {}
General == GeneralToken(config)

(* Calls on a listener.  `holder' is the provider that was given the       *)
(* delivery, the response or the conversation the call is about.           *)
OutboundCalls ==
    [listener : config.listeners, method : Outbound, token : Bearers,
     channel : Names \cup {Nil}, source : Sources]

SubscribeCalls(method, wishes) ==
    [listener : config.listeners, method : {method}, token : Bearers, claims : Claims,
     wants : SUBSET wishes, app : DOMAIN config.apps]

OtherCalls(methods) ==
    [listener : config.listeners, method : methods, token : Bearers, claims : Claims,
     app : DOMAIN config.apps, holder : Claims]

-----------------------------------------------------------------------------
(* The providers a token may be taken for.  authenticate goes through all  *)
(* of them and keeps the last that matches, in no particular order.        *)
Principals(token) ==
    {p \in DOMAIN config.providers : token # Nil /\ config.providers[p].token = token}

Authorized(token) == General # Nil /\ token = General

(* Mutation of RequiresProvider: the legacy stream is never scoped.        *)
OnlyAgentMethods(method) == method \in AgentMethods

RequiresProvider(method) ==
    method \in AgentMethods \/ (Scoped /\ method \in LegacyMethods)

(* Mutation of GeneralAuth: a Unix socket is trusted, scoped or not.       *)
OnTCPOnly(call) ==
    call.listener # "grpcTCP" \/ Authorized(call.token)

(* The general token, for what is neither health nor a provider's: asked   *)
(* on TCP, and on the Unix sockets as soon as providers are configured.    *)
GeneralAuth(call) ==
    (call.listener \notin {"grpcTCP", "httpTCP"} /\ ~Scoped) \/ Authorized(call.token)

CommandsAllowed(p, call) ==
    "commands" \in call.wants => "commands" \in ProviderGrants(config, p)

(* The authorization in the handlers, for the provider p of the token; Nil *)
(* when the legacy methods are not scoped.                                 *)
Handler(p, call) ==
    CASE call.method = "legacySubscribe" ->
            p # Nil => /\ call.claims = p
                       /\ "legacy" \in ProviderGrants(config, p)
                       /\ CommandsAllowed(p, call)
      [] call.method = "legacyRespond" -> p # Nil => "legacy" \in ProviderGrants(config, p)
      [] call.method = "subscribe" ->
            call.claims = p /\ call.wants \subseteq ProviderGrants(config, p)
      [] call.method = "respond" -> call.claims = p
      [] OTHER -> call.claims = p /\ GrantOf[call.method] \in ProviderGrants(config, p)

(* Mutation of InScope: only the holder is looked at.                      *)
AnyApp(p, call) == p = Nil \/ call.method \in Subscribing \/ call.holder = p

(* The service: the app, and the holder of what the call is about.         *)
InScope(p, call) ==
    p # Nil => /\ ProviderAllowsApp(config, p, call.app)
               /\ call.method \in Subscribing \/ call.holder = p

(* SendNotification looks a name up as it is written; SendMessage and the  *)
(* routes normalize it first.                                              *)
Target(call) ==
    LET name == ChannelFor(config, call.channel, call.source)
    IN  IF name = Nil \/ (call.method = "notify" /\ ChannelOf[name] # name) THEN Nil
        ELSE ResolveChannel(config, name)

-----------------------------------------------------------------------------
AccessInit ==
    /\ config \in RawConfigs
    /\ running = "loading"
    /\ served = Idle

(* LoadFromEnv: the daemon starts with the configuration or not at all.    *)
Load ==
    /\ running = "loading"
    /\ running' = IF Accepted(config) THEN "running" ELSE "refused"
    /\ UNCHANGED <<config, served>>

Answered(call, app, p) ==
    /\ served' = [call |-> call, app |-> app, as |-> p]
    /\ UNCHANGED <<config, running>>

(* Health asks for nothing, on any listener.                               *)
ServeHealth ==
    \E call \in OtherCalls({"health"}) : Answered(call, call.app, Nil)

(* SendNotification and SendMessage, over HTTP or gRPC.                    *)
ServeOutbound ==
    \E call \in OutboundCalls :
        Answered(call, IF GeneralAuth(call) THEN Target(call) ELSE Nil, Nil)

(* The command service, gRPC only: as a provider, or with what any other   *)
(* caller has to show.                                                     *)
ServeCommand(call) ==
    /\ call.listener \in {"grpcUnix", "grpcTCP"}
    /\ \/ /\ RequiresProvider(call.method) /\ Principals(call.token) = {}
          /\ Answered(call, Nil, Nil)
       \/ /\ RequiresProvider(call.method)
          /\ \E p \in Principals(call.token) :
                Answered(call, IF Handler(p, call) /\ InScope(p, call)
                               THEN call.app ELSE Nil, p)
       \/ /\ ~RequiresProvider(call.method)
          /\ Answered(call, IF GeneralAuth(call) THEN call.app ELSE Nil, Nil)

ServeProvider ==
    \/ \E call \in SubscribeCalls("subscribe", Wishes) : ServeCommand(call)
    \/ \E call \in SubscribeCalls("legacySubscribe", {"commands"}) : ServeCommand(call)
    \/ \E call \in OtherCalls({"legacyRespond", "respond"} \cup DOMAIN GrantOf) :
          ServeCommand(call)

(* The checks keep nothing, and calls may as well come one by one.         *)
Settle == served # Idle /\ served' = Idle /\ UNCHANGED <<config, running>>

Listening == running = "running" /\ served = Idle

AccessNext ==
    \/ Load
    \/ Listening /\ ServeHealth
    \/ Listening /\ ServeOutbound
    \/ Listening /\ ServeProvider
    \/ Settle

AccessSpec == AccessInit /\ [][AccessNext]_accessVars

-----------------------------------------------------------------------------
AccessTypeOK ==
    /\ running \in {"loading", "refused", "running"}
    /\ served = Idle \/ /\ served.call.method \in {"health"} \cup Outbound \cup LegacyMethods \cup AgentMethods
                        /\ served.app \in DOMAIN config.apps \cup {Nil}
                        /\ served.as \in DOMAIN config.providers \cup {Nil}

(* Whoever has the operator's token, and nobody who has a provider's.      *)
ByOperator(token) ==
    /\ token # Nil /\ token = Setting(config.general)
    /\ \A p \in DOMAIN config.providers : config.providers[p].token # token

(* Someone on this machine, as long as nobody is told from anybody else.   *)
ByNeighbour(call) ==
    call.listener \in {"httpUnix", "grpcUnix"} /\ DOMAIN config.providers = {}

(* The one provider with this token, about its own business, in its apps.  *)
ByProvider(p, call) ==
    LET mine == config.providers[p]
    IN  /\ mine.token = call.token
        /\ mine.token # Setting(config.general)
        /\ \A q \in DOMAIN config.providers \ {p} : config.providers[q].token # call.token
        /\ mine.apps = Nil \/ call.app \in mine.apps
        /\ call.method = "legacyRespond" \/ call.claims = p
        /\ call.method \in Subscribing \/ call.holder = p

(* Whatever the configuration, a call that gets through is from who may    *)
(* make it, and reaches what it may: a notification goes to the only app   *)
(* that has the channel, and is the operator's, or local where no provider *)
(* is told from another; a call of a provider bears a token that is no     *)
(* other provider's and not the operator's, and the grants it needs.  The  *)
(* interceptors and handlers of grpcapi/auth.go, the routes of the HTTP    *)
(* server, and what LoadFromEnv refuses make this true together only.      *)
ServedAsGranted ==
    served # Idle /\ served.app # Nil =>
        LET call == served.call
            p    == served.as
        IN  \/ call.method = "health"
            \/ /\ call.method \in Outbound
               /\ ByOperator(call.token) \/ ByNeighbour(call)
               /\ \A a \in DOMAIN config.apps :
                     ChannelOf[ChannelFor(config, call.channel, call.source)]
                         \in DOMAIN Channels(config.apps[a]) <=> a = served.app
            \/ /\ call.method \in LegacyMethods /\ DOMAIN config.providers = {}
               /\ ByOperator(call.token) \/ ByNeighbour(call)
            \/ /\ p # Nil /\ ByProvider(p, call)
               /\ call.method \in Subscribing => call.wants \subseteq config.providers[p].grants
               /\ call.method \in LegacyMethods => "legacy" \in config.providers[p].grants
               /\ call.method \in DOMAIN GrantOf =>
                     GrantOf[call.method] \in config.providers[p].grants

=============================================================================
