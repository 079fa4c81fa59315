SPECIFICATION OneAtATime
CONSTANTS
    s1 = s1  s2 = s2
    Sessions <- TwoSessions
    Token <- KeyPairAndCert
    Templates <- SomeTemplates
    MaxObjs = 3
    Objs <- CardObjects
    Requests <- SomeRequests
    Sizes = {0, 1, 2, 3}
    Unavailable = 9
INVARIANTS
    DeliveredInOrder
    OthersLoginShowsNothing
    AnswersAreComplete
    ReadTemplatesFind
