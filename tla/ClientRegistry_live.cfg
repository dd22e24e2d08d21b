SPECIFICATION Spec
CONSTANTS
    Conn = {c1}
    Proxy = {p1}
    Request = {r1}
    c1 = c1
    p1 = p1
    r1 = r1
    Expiring = {r1}
    NoConn = NoConn
    NoProxy = NoProxy
    NoRequest = NoRequest
    MaxSession = 2
    MaxLoss = 2
    PromptRoute = TRUE
\* Once the sessions and the requests are used up nothing is left to do.
CHECK_DEADLOCK FALSE
INVARIANT NoDanglingRequest
PROPERTIES LifeSpec LeftoversGo OverdueGoes CloseEnds
