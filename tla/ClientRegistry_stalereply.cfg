SPECIFICATION Spec
CONSTANTS
    Conn = {c1}
    Proxy = {p1}
    Request = {r1, r2}
    c1 = c1
    p1 = p1
    r1 = r1
    r2 = r2
    Expiring = {}
    NoConn = NoConn
    NoProxy = NoProxy
    NoRequest = NoRequest
    MaxSession = 2
    MaxLoss = 0
    PromptRoute = TRUE
SYMMETRY Symmetry
\* Once the sessions and the requests are used up nothing is left to do.
CHECK_DEADLOCK FALSE
INVARIANT ReplyReachesRequester
