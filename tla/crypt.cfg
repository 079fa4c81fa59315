SPECIFICATION OneAtATime
CONSTANTS
    k1 = k1  k2 = k2  x = x  y = y
    None = None
    Directions <- Both
    Keys <- TwoKeys
    Mechanisms <- AllMechanisms
    Bytes <- TwoBytes
    Block = 2
    Plaintext <- ByFirst
    ModulusLen <- SmallModulus
    HashLen = 1
    Hash <- ToyHash
    ByteXor <- BitXor
    Label <- ToyLabel
    SomeByte <- FourBytes
    Messages <- SomeMessages
    Foreign <- SomeForeign
INVARIANTS
    IdleHoldsNothing
    ResultsAnswerTheFirstCall
    PaddedMessagesComeBack
    OnlyPaddedBlocksAreRead
    SignaturesVerify
PROPERTIES
    AnnouncedLengthSuffices
