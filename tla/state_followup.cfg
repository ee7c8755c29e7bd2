SPECIFICATION StateSpec
CONSTANTS
    Authored = {m1, m2}
    OwnerTTL = 1
    Room = 1
    OwnershipUntil = 3
    Calls = {c1, c2}
    p1 = p1
    p2 = p2
    Agents = {p1, p2}
    FollowUpOps = {o}
    note = note
    report = report
    Contents = {note, report}
    PartsOf <- MCPartsOf
    ImageOps = {i, j}
    Images = {pic}
    Nothing = Nothing
    x2 = x2
    ConversationApps = {x1, x2}
    GrantTTL = 3
    FollowUpTimeout = 1
    UUIDMemory = 2
    MaxImages = 1
    MaxHandles = 2
    ConversationUntil = 5
    Senders = {s1, s2}
    NoticeKeys = {k}
    Commands = {d}
    Texts = {x, y}
    NoText = NoText
    DedupeTTL = 2
    NoticeTimeout = 3
    NoticesUntil = 6
    MostMessages = 3
    Attempts = 3
    StepCount = 1
    ReactionOps = {r}
    Emojis = {e1, e2}
    MaxStarts = 2
    MaxUpdates = 2
    MaxUnderway = 1
    Apps = {a1, a2}
    HTTPListeners = {h}
    GRPCListeners = {g}
    ReadyApps = {r1}
    Probes = {b1, b2}
    ReadyFor = 3
    UnreadyFor = 1
    ReadyTimeout = 1
    ReadinessUntil = 7
SYMMETRY StateSymmetry
CONSTRAINT Explored
PROPERTY FollowUpPostsOnce
CHECK_DEADLOCK FALSE
