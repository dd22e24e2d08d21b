SPECIFICATION Spec
CONSTANTS
    Requests = {r1}
    Clients = {c1}
    Sizes = {1, 2}
    Overdue = 2
    Back = 3
    Hour = 1
    MaxTime = 5
    MaxGiven = 4
    MaxFault = 2
INVARIANTS NumbersInOrder DumpInOrder
PROPERTIES EveryResponseStored DumpComplete YoungIsKept OldGoes LogSpec
\* Time and responses are bounded, and then nothing is left to do.
CHECK_DEADLOCK FALSE
