SPECIFICATION Spec
CONSTANTS
    Client = {c1}
    Rest = {}
    Pending = {q1}
    c1 = c1
    q1 = q1
    NoThread = NoThread
    NoRid = NoRid
    CreateFails = FALSE
\* When every worker is done, or the proxy is gone for good, nothing is left to do.
CHECK_DEADLOCK FALSE
PROPERTY KillCompletes
