SPECIFICATION Spec
CONSTANTS
    Name = {p}
    p = p
    None = None
    MaxIncarnation = 2
    Stopping = TRUE
    LateStart = FALSE
\* When the last process of every name is dead, nothing is left to do.
CHECK_DEADLOCK FALSE
PROPERTIES KillEndsOrCycle ZombieGoes StopEndsOrCycle DeadIsDropped
