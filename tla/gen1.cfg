SPECIFICATION FairSpec
CHECK_DEADLOCK FALSE
CONSTANTS
    a = a  b = b
    Hosts <- TwoHosts
    LockChoices <- EitherWay
    Chunk = 2
    MaxOps = 3
    Faults <- AllFaults
INVARIANTS
    ResultsAreOfTheCall
    UndisturbedOperationsSucceed
PROPERTIES
    OperationsEnd
