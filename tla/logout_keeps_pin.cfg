SPECIFICATION Spec
CONSTANTS
    t1 = t1  t2 = t2  r1 = r1  r2 = r2
    old = old  new = new  new2 = new2  right = right  wrong = wrong
    NoCard = NoCard  NoPin = NoPin
    Threads <- OneThread
    Readers <- TwoReaders
    Cards <- OneGen2
    Gen2Cards <- OneGen2
    Handles <- OneSession
    Pins <- BothPins
    MaxSlots = 8
    MaxRetries = 2
    Operations <- SignAndDecrypt
    Faults <- NoFaults
    PinChanges = FALSE
PROPERTIES
    LogoutClearsCaches
