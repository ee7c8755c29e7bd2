---------------------------- MODULE Configuration ----------------------------
(***************************************************************************)
(* What config.LoadFromEnv accepts, and the questions the daemon puts to   *)
(* the configuration it has loaded.  A setting is the pair of what the     *)
(* environment and the configuration file say; Nil is a setting left out.  *)
(* Names come with the form they are normalized to: case, spaces,          *)
(* underscores and slashes are no more than that here.                     *)
(***************************************************************************)
EXTENDS Naturals, FiniteSets, TLC

CONSTANTS
    Nil,
    DefaultApp,     \* the alias of the app of the top-level settings
    Names,          \* channel names as they are written
    ChannelOf,      \* name -> the channel alias it is normalized to
    DefaultTTL,     \* of the dedupe store and the deliveries
    RetryWindow     \* one hour: how long a provider may retry

ASSUME ConfigurationAssumption ==
    /\ DefaultTTL \in Nat /\ RetryWindow \in Nat
    /\ ChannelOf \in [Names -> Names]
    /\ \A n \in Names : ChannelOf[ChannelOf[n]] = ChannelOf[n]

-----------------------------------------------------------------------------
(* The environment wins over the file, and a number that is not positive   *)
(* is as good as none.                                                     *)
Setting(s) == IF s.env # Nil THEN s.env ELSE s.file

Duration(s, default) ==
    IF s.env > 0 THEN s.env ELSE IF s.file > 0 THEN s.file ELSE default

(* The channels of an app, by their aliases.  Two names of one alias are   *)
(* refused, unless the environment overrides the file.                     *)
Normalized(channels) ==
    [alias \in {ChannelOf[n] : n \in DOMAIN channels} |->
        channels[CHOOSE n \in DOMAIN channels : ChannelOf[n] = alias]]

NoClash(channels) ==
    \A m, n \in DOMAIN channels : ChannelOf[m] = ChannelOf[n] => m = n

Channels(app) == Normalized(app.env) @@ Normalized(app.file)

(* The apps, with the one the top-level settings describe.  That one needs *)
(* both credentials, and without them it may have no other setting.        *)
LegacyComplete(raw) ==
    DefaultApp \in DOMAIN raw.apps =>
        raw.apps[DefaultApp].id # Nil /\ raw.apps[DefaultApp].secret

ValidScripts(app) ==
    app.scripts # {} => app.commands /\ app.scripts \subseteq DOMAIN Channels(app)

ValidApps(raw) ==
    /\ DOMAIN raw.apps # {}
    /\ \A a \in DOMAIN raw.apps :
          LET app == raw.apps[a]
          IN  /\ app.id # Nil /\ app.secret
              /\ NoClash(app.file)
              /\ DOMAIN Channels(app) # {} \/ app.commands
              /\ ValidScripts(app)
    /\ \A a, b \in DOMAIN raw.apps : raw.apps[a].id = raw.apps[b].id => a = b

(* Mutation of ValidRoutes: an alias of two apps goes to one of them.      *)
AnyRoutes(raw) == TRUE

(* An alias names one chat of one app.                                     *)
ValidRoutes(raw) ==
    \A a, b \in DOMAIN raw.apps :
        DOMAIN Channels(raw.apps[a]) \cap DOMAIN Channels(raw.apps[b]) # {} => a = b

RoutedNames(raw) == UNION {DOMAIN Channels(raw.apps[a]) : a \in DOMAIN raw.apps}

ValidDefaults(raw) ==
    /\ Setting(raw.default) # Nil => Setting(raw.default) \in RoutedNames(raw)
    /\ \A source \in DOMAIN raw.services : raw.services[source] \in RoutedNames(raw)

-----------------------------------------------------------------------------
(* Listeners: HTTP may be opened to the network on request, plaintext gRPC *)
(* may not, and every TCP listener needs the general token.                *)
OnTCP(raw) == raw.listeners \cap {"httpTCP", "grpcTCP"} # {}

ValidListeners(raw) ==
    /\ raw.listeners # {}
    /\ "httpTCP" \in raw.listeners => raw.loopback \/ raw.allowLAN
    /\ "grpcTCP" \in raw.listeners => raw.loopback
    /\ OnTCP(raw) => Setting(raw.general) # Nil

(* The general token is read only where something asks for it.             *)
GeneralToken(raw) ==
    IF OnTCP(raw) \/ DOMAIN raw.providers # {} THEN Setting(raw.general) ELSE Nil

(* Mutation of ValidTokens: each provider is looked at by itself.          *)
TokensPresent(raw) == \A p \in DOMAIN raw.providers : raw.providers[p].token # Nil

ValidTokens(raw) ==
    /\ \A p \in DOMAIN raw.providers :
          raw.providers[p].token \notin {Nil, GeneralToken(raw)}
    /\ \A p, q \in DOMAIN raw.providers :
          raw.providers[p].token = raw.providers[q].token => p = q

(* An omitted list of apps (Nil) allows them all.                          *)
ValidProviders(raw) ==
    /\ \A p \in DOMAIN raw.providers :
          LET provider == raw.providers[p]
          IN  /\ provider.apps # Nil => provider.apps \subseteq DOMAIN raw.apps
              /\ "reactionEvents" \in provider.grants => raw.stateDir
    /\ DOMAIN raw.providers # {} =>
          Duration(raw.dedupeTTL, DefaultTTL) >= RetryWindow + raw.sendTimeout

Accepted(raw) ==
    /\ LegacyComplete(raw)
    /\ ValidApps(raw)
    /\ ValidRoutes(raw)
    /\ ValidListeners(raw)
    /\ ValidDefaults(raw)
    /\ ValidProviders(raw)
    /\ ValidTokens(raw)

-----------------------------------------------------------------------------
(* The questions.                                                          *)
Owners(raw, alias) ==
    {a \in DOMAIN raw.apps : alias \in DOMAIN Channels(raw.apps[a])}

(* ResolveChannel: the app that has the channel, or Nil.                   *)
ResolveChannel(raw, name) ==
    IF Owners(raw, ChannelOf[name]) = {} THEN Nil
    ELSE CHOOSE a \in Owners(raw, ChannelOf[name]) : TRUE

(* The channel of a message that names none.                               *)
ChannelFor(raw, name, source) ==
    IF name # Nil THEN name
    ELSE IF source \in DOMAIN raw.services THEN raw.services[source]
    ELSE Setting(raw.default)

(* Providers that are not configured are in-process or unscoped: allowed.  *)
ProviderAllowsApp(raw, p, a) ==
    p \in DOMAIN raw.providers /\ raw.providers[p].apps # Nil => a \in raw.providers[p].apps

ProviderGrants(raw, p) ==
    IF p \in DOMAIN raw.providers THEN raw.providers[p].grants ELSE {}

=============================================================================
