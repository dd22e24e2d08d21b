SPECIFICATION Spec
CONSTANTS
    Conn = {c1}
    Proxy = {p1, p2}
    Request = {r1, r2}
    c1 = c1
    p1 = p1
    p2 = p2
    r1 = r1
    r2 = r2
    Expiring = {r1}
    NoConn = NoConn
    NoProxy = NoProxy
    NoRequest = NoRequest
    MaxSession = 1
    MaxLoss = 0
    PromptRoute = FALSE
SYMMETRY Symmetry
\* Once the sessions and the requests are used up nothing is left to do.
CHECK_DEADLOCK FALSE
INVARIANTS TypeOK DropAfterRequest
