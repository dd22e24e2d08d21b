SPECIFICATION Spec
CONSTANTS
    Client = {c1}
    Rest = {x1, x2}
    Pending = {}
    c1 = c1
    x1 = x1
    x2 = x2
    NoThread = NoThread
    NoRid = NoRid
    CreateFails = TRUE
\* When every worker is done, or the proxy is gone for good, nothing is left to do.
CHECK_DEADLOCK FALSE
PROPERTIES RequestsAreSent KillEndsOrIsHeldUp
