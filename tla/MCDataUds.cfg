CONSTANTS
    k1 = k1
    k2 = k2
    t1 = t1
    t2 = t2
    NoSock = NoSock
    Garbled = Garbled
    Socks = {k1, k2}
    Tracks = {t1, t2}
    SockTrack <- OneHelper
    MAX_UDS_CLIENTS = 1
    Parts = 3
    Room = 3
    MaxUp = 2
    MaxDown = 2
SPECIFICATION FairSpec
INVARIANTS
    TypeOK
    UpstreamInOrder
    SlotsMatchDescriptors
PROPERTY
    SlotReclaimed
CHECK_DEADLOCK FALSE
