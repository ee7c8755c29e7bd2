SPECIFICATION LiveSpec
CONSTANTS
    o1 = o1
    o2 = o2
    OperationIds = {o1, o2}
    short = short
    long = long
    Empty = Empty
    None = None
    Texts <- MCTexts
    Weight <- MCWeight
    Started <- MCStarted
    Requests <- MCRequests
    MaxExpected = 2
    CardBudget = 3
    MaxSequence = 12
    ReuseReleased = FALSE
    c1 = c1
    Callers = {c1}
    own = own
    other = other
    draft = draft
    revised = revised
    first = first
    second = second
    StartRequests <- MCStartRequests
    NoRequest = NoRequest
    SendTimeout = 1
    Window = 3
    TTL = 4
    MaxTime = 6
    MaxResponses = 2
    MaxCoTs = 0
    Apps = {a1}
    HTTPListeners = {h}
    GRPCListeners = {g}
PROPERTIES
    PendingResolves
    ClaimResolves
    ShutdownCompletes
CHECK_DEADLOCK FALSE
