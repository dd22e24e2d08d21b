SPECIFICATION Spec
CONSTANTS
    Name = {p}
    p = p
    None = None
    MaxIncarnation = 4
    Stopping = FALSE
    LateStart = TRUE
\* When the last process of every name is dead, nothing is left to do.
CHECK_DEADLOCK FALSE
INVARIANTS TypeOK ContextOutlivesThread OneIncarnation TerminatorSparesLiving
PROPERTY LifeSpec
