SPECIFICATION Spec
CONSTANTS
    Modulus = 16
    ByteBits = 2
    WordBytes = 2
    n = 6
    weight = 4
CHECK_DEADLOCK FALSE
INVARIANTS
    TypeOK
    WeightExact
    NoSupportFavoured
PROPERTIES
