SPECIFICATION Spec
CONSTANTS
    None = None
    MaxProcess = 3
    MaxStop = 1
    MaxTrouble = 1
    MaxProxy = 0
    Connecting = FALSE
\* When every process has been launched and has ended, nothing is left to do.
CHECK_DEADLOCK FALSE
INVARIANTS TypeOK OneInstance PidFileKept AliveTellsTruth
