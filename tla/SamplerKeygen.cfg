SPECIFICATION FairSpec
CONSTANTS
    Modulus = 256
    ByteBits = 2
    WordBytes = 2
    n = 9
    weight = 4
    Candidates = 64
CHECK_DEADLOCK FALSE
INVARIANTS
    TypeOK
    WeightExact
    EqualChances
PROPERTIES
    Terminates
