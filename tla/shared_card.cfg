SPECIFICATION Spec
CONSTANTS
    p = p  q = q  a = a  b = b  right = right  wrong = wrong
    Hosts <- TwoHosts
    Pins <- BothPins
    RightPin = right
    KeyRefs <- OneKey
    Chunks <- TwoChunks
    MaxOps = 4
    Faults <- AllFaults
SYMMETRY Symmetric
INVARIANTS
    CountersAreFresh
    ResultsAreOfTheCall
    UndisturbedOperationsSucceed
    OperationsAreBounded
