SPECIFICATION StartSpec
CONSTANTS
    c1 = c1
    c2 = c2
    Callers = {c1, c2}
    own = own
    other = other
    draft = draft
    revised = revised
    first = first
    second = second
    StartRequests <- MCStartRequests
    NoRequest = NoRequest
    SendTimeout = 1
    Window = 3
    TTL = 4
    MaxTime = 6
    MaxResponses = 1
    MaxCoTs = 2
INVARIANT OneCoT
CHECK_DEADLOCK FALSE
