SPECIFICATION Spec
CONSTANTS
    Cards <- SomeCards
    NoId = ""
    NoKey = ""
    MaxObjs = 4
    Faults = {TRUE, FALSE}
INVARIANTS
    HandlesArePositions
    UndisturbedBindIsComplete
    ObjectsAreOfTheCard
