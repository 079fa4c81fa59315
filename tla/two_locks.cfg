SPECIFICATION Spec
CHECK_DEADLOCK FALSE
CONSTANTS
    a = a  b = b
    Hosts <- TwoHosts
    LockChoices <- TwoMutexes
    Chunk = 1
    MaxOps = 2
    Faults <- NoFaults
INVARIANTS
    SerializedCallsAreWhole
