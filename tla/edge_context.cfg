SPECIFICATION EdgeSpec
CONSTANTS
    Nil = Nil
    main = main
    other = other
    DefaultApp = main
    provP = provP
    provQ = provQ
    genTok = genTok
    tokP = tokP
    tokQ = tokQ
    raw = raw
    alias = alias
    second = second
    id1 = id1
    id2 = id2
    svc = svc
    Names = {raw, alias, second}
    ChannelOf <- MCChannelOf
    DefaultTTL = 2
    RetryWindow = 1
    RawConfigs <- MCRawConfigs
    Bearers = {Nil, genTok, tokP, tokQ}
    Claims = {provP, provQ}
    Sources = {svc}
    Idle = Idle
    bot1 = bot1
    bot2 = bot2
    group1 = group1
    group2 = group2
    agent1 = agent1
    agent2 = agent2
    Direct = Direct
    Nobody = Nobody
    Bots = {bot1, bot2}
    Chats = {group1, group2, Direct}
    Agents = {agent1, agent2}
    BotName <- MCBotName
    StrongIds = {bot1}
    KnownNames <- MCKnownNames
    Aliases <- MCAliases
    OpenGroups = {bot2}
    MayUse <- MCMayUse
    InboundMessages <- MCInboundMessages
    m1 = m1
    m2 = m2
    d1 = d1
    again = again
    d2 = d2
    app1 = app1
    app2 = app2
    chat = chat
    script = script
    expert = expert
    general = general
    report = report
    NoOne = NoOne
    Messages = {m1, m2}
    Deliveries = {d1, again, d2}
    Event <- MCEvent
    Subscriptions <- MCSubscriptions
    Capacity = 1
    TTL = 2
    PinFor = 1
    MaxTime = 5
    card = card
    message = message
    anna = anna
    ben = ben
    None = None
    Cards = {card, message}
    CardAgents = {anna, ben}
    Author <- MCAuthor
    AppOf <- MCAppOf
    Buttons <- MCButtons
    CardStreams <- MCCardStreams
    AgentApps <- MCAgentApps
    Events <- MCEvents
    QueueSize = 1
    SeenFor = 1
    CardEventsUntil = 4
    Topics <- MCTopics
    Additions <- MCAdditions
    MaxTopic = 4
    PageSize = 4
    MaxBoundaryScan = 5
    MaxMessages = 2
    MaxTextBytes = 2
    MaxImages = 2
    MaxImageBytes = 3
    MaxTotalImageBytes = 3
    MaxVideos = 2
    MaxVideoBytes = 3
    MaxTotalVideoBytes = 3
    MaxVideoDuration = 2
    PlaceholderBytes = 1
    ChunkBytes = 1
CONSTRAINT Explored
INVARIANT LimitsSaySo
CHECK_DEADLOCK FALSE
