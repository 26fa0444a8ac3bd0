SPECIFICATION MCSpec
CONSTANTS
    Modulus = 65536
    ParamSets <- Sets
CHECK_DEADLOCK FALSE
INVARIANTS
    DegreesExact
    KeyEquation
    NearestSymbol
    BoundedDistance
