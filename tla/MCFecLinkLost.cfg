CONSTANTS
    a = a
    b = b
    None = None
    Objects = {a, b}
    Profiles <- AllProfiles
    RSMax = 3
    MaxSymbols = 3
    MaxData = 2
    MaxParity = 1
    ASSEMBLER_CACHE_SIZE = 1
    SENT_CACHE_SIZE = 1
    MaxLosses = 1
    MaxResidencies = 2
SPECIFICATION Spec
INVARIANTS
    LostOnlyIfNotRecovered
CHECK_DEADLOCK FALSE
