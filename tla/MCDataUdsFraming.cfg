CONSTANTS
    k1 = k1
    k2 = k2
    t1 = t1
    t2 = t2
    NoSock = NoSock
    Garbled = Garbled
    Socks = {k1}
    Tracks = {t1, t2}
    SockTrack <- OneHelper
    MAX_UDS_CLIENTS = 1
    Parts = 3
    Room = 3
    MaxUp = 1
    MaxDown = 3
SPECIFICATION Spec
INVARIANT
    DownstreamFramed
CHECK_DEADLOCK FALSE
