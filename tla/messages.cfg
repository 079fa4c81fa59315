SPECIFICATION Spec
CONSTANTS
    k1 = k1  m1 = m1  m2 = m2  x = x  y = y
    None = None
    Keys <- OneKey
    Mechanisms <- OneMechanism
    Bytes <- TwoBytes
    Capacity = 2
    MaxMessage = 2
PROPERTIES
    SignIsStream
    VerifyIsStream
    DigestIsStream
