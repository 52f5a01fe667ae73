CONSTANTS
    t1 = t1
    t2 = t2
    t3 = t3
    c1 = c1
    c2 = c2
    Unnamed = Unnamed
    NoTrack = NoTrack
    Tracks = {t1, t2, t3}
    Clients = {c1}
    GoodToken = {c1}
    ServerTracks <- ListA
    ClientTracks <- ListB
    UnnamedAlias = 4
    TableSize = 3
    MaxQueue = 2
    MaxObjects = 1
SPECIFICATION Spec
INVARIANT
    PublishedToSubscribers
CHECK_DEADLOCK FALSE
