SPECIFICATION Spec
CONSTANTS
    Client = {c1, c2}
    Rest = {x1}
    Pending = {}
    c1 = c1
    c2 = c2
    x1 = x1
    NoThread = NoThread
    NoRid = NoRid
    CreateFails = TRUE
SYMMETRY Symmetry
\* When every worker is done, or the proxy is gone for good, nothing is left to do.
CHECK_DEADLOCK FALSE
INVARIANTS TypeOK FreedUnused AllButOneUnsent
PROPERTY DropComesLast
