CONSTANTS
    a = a
    b = b
    None = None
    Objects = {a, b}
    Profiles <- AllProfiles
    RSMax = 2
    MaxSymbols = 3
    MaxData = 2
    MaxParity = 1
    ASSEMBLER_CACHE_SIZE = 2
    SENT_CACHE_SIZE = 2
    MaxLosses = 1
    MaxResidencies = 2
SPECIFICATION FairSpec
INVARIANTS
    UniqueFrame
    DeliveredIntact
PROPERTY
    EventuallyDelivered
CHECK_DEADLOCK FALSE
