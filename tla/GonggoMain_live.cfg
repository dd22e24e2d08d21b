SPECIFICATION Spec
CONSTANTS
    None = None
    MaxProcess = 2
    MaxStop = 1
    MaxTrouble = 1
    MaxProxy = 1
    Connecting = TRUE
\* When every process has been launched and has ended, nothing is left to do.
CHECK_DEADLOCK FALSE
INVARIANT ResourcesOutliveUsers
PROPERTIES  StartEnds
