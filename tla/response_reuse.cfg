SPECIFICATION Spec
CONSTANTS
    o1 = o1
    o2 = o2
    o3 = o3
    OperationIds = {o1, o2, o3}
    short = short
    long = long
    Empty = Empty
    None = None
    Texts <- MCTexts
    Weight <- MCWeight
    Started <- MCStarted
    Requests <- MCRequests
    MaxExpected = 3
    CardBudget = 3
    MaxSequence = 12
    ReuseReleased = TRUE
PROPERTY CommitShowsRequest
CHECK_DEADLOCK FALSE
