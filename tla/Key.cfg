SPECIFICATION FairSpec
CONSTANTS
    g1 = g1
    g2 = g2
    g3 = g3
    Goroutine = {g1, g2, g3}
    Operation = {"Decapsulate", "Bytes", "Encapsulate", "Destroy"}
INVARIANTS
    TypeOK
    NoTornResult
    RefusedAfterDestroy
    PublicKeySurvives
    AllOrNothing
    NoDataRace
    NoLeakedLock
PROPERTIES
    EveryCallReturns
    ImplementsDestroyableKey
