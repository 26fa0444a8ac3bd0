SPECIFICATION Spec
CONSTANTS
    n = 11
    n1 = 3
    n2 = 3
    delta = 1
    Pad = 1
    Message = {0, 1}
    Symbol = {0, 1}
    SymbolWord <- ThreeBits
    rsEncode <- Repeat
    rsDecode <- Majority
    k1 = k1
    k2 = k2
    salt1 = salt1
    salt2 = salt2
    Seed = {k1, k2}
    Salt = {salt1, salt2}
    KeyStreams <- TwoKeyStreams
    PublicVectors <- TwoVectors
    Streams <- FewStreams
    Flips = {0, 8, 11}
    MaxReloads = 1
    MaxDecaps = 2
SYMMETRY Symmetric
CHECK_DEADLOCK FALSE
INVARIANTS
    TypeOK
    GenerationSucceeds
    Agreement
    NoFalseAgreement
    Binding
    ReloadsAnswerAlike
