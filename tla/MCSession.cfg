CONSTANTS
    t1 = t1
    t2 = t2
    t3 = t3
    c1 = c1
    c2 = c2
    Unnamed = Unnamed
    NoTrack = NoTrack
    Tracks = {t1, t3, Unnamed}
    Clients = {c1, c2}
    GoodToken = {c1}
    ServerTracks <- ListS
    ClientTracks <- ListU
    UnnamedAlias = 4
    TableSize = 3
    MaxQueue = 1
    MaxObjects = 1
SPECIFICATION FairSpec
INVARIANTS
    TypeOK
    AcceptedOnlyAuthorized
    AuthAgreement
    AliasAgreement
    ObjectsResolve
PROPERTY
    EventuallyMeshed
CHECK_DEADLOCK FALSE
