SPECIFICATION AgentSpec
CONSTANTS
    o1 = o1
    o2 = o2
    o3 = o3
    OperationIds = {o1, o2, o3}
    short = short
    long = long
    Empty = Empty
    None = None
    Texts <- MCTexts
    Weight <- MCWeight
    Started <- MCStarted
    Requests <- MCRequests
    MaxExpected = 3
    CardBudget = 3
    MaxSequence = 12
    ReuseReleased = FALSE
    c1 = c1
    c2 = c2
    Callers = {c1, c2}
    own = own
    other = other
    draft = draft
    revised = revised
    first = first
    second = second
    StartRequests <- MCStartRequests
    NoRequest = NoRequest
    SendTimeout = 1
    Window = 3
    TTL = 4
    MaxTime = 7
    MaxResponses = 2
    MaxCoTs = 1
SYMMETRY AgentSymmetry
INVARIANTS
    TypeOK
    PendingIsCurrent
    SnapshotAgrees
    NextCallAcceptable
    LateCallsAreInDoubt
    StreamingClosesLast
    StartTypeOK
    ClaimCoversSends
    PrunedNoEarlier
    OwnersMatch
PROPERTIES
    CommitShowsRequest
    DoubtEndsAtFeishu
    ImplementsLog
    ClosedIsFinal
    ImplementsSingleAnswer
CHECK_DEADLOCK FALSE
