CONSTANTS
    a = a
    b = b
    None = None
    Objects = {a, b}
    Profiles <- AllProfiles
    RSMax = 3
    MaxSymbols = 3
    MaxData = 2
    MaxParity = 1
    ASSEMBLER_CACHE_SIZE = 1
    SENT_CACHE_SIZE = 1
    MaxLosses = 1
    MaxResidencies = 2
SYMMETRY ObjectSymmetry
SPECIFICATION Spec
INVARIANTS
    TypeOK
    DeliveredIntact
    DeliveredOncePerResidency
    NoSilentDrop
    NoStuckFrame
    RetransmissionBounded
PROPERTY
    ImplementsService
CHECK_DEADLOCK FALSE
