SPECIFICATION Spec
CONSTANTS
    Modulus = 16
    ByteBits = 2
    WordBytes = 2
    vecSize = 2
    SecondWeight = 2
    Width = 4
    Chunk = 2
    n = 10
    MaxSize = 5
    Sizes <- AllSizes
INVARIANTS
    ComparisonsAreExact
    LengthChangesKeepPrefix
    BytesRoundTrip
    KaratsubaIsProduct
    PolyMulIsModular
    WorkspaceSuffices
