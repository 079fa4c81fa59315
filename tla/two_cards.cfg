SPECIFICATION Spec
CONSTANTS
    t1 = t1  t2 = t2  r1 = r1  r2 = r2
    old = old  new = new  new2 = new2  right = right  wrong = wrong
    NoCard = NoCard  NoPin = NoPin
    Threads <- OneThread
    Readers <- TwoReaders
    Cards <- TwoGen2
    Gen2Cards <- TwoGen2
    Handles <- TwoSessions
    Pins <- BothPins
    MaxSlots = 8
    MaxRetries = 2
    Operations <- SignOnly
    Faults <- SomeFaults
    PinChanges = FALSE
INVARIANTS
    CachedPinFitsKeys
PROPERTIES
    CustodyKept
SYMMETRY CardsAndPins
