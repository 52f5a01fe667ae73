CONSTANTS
    h1 = h1
    h2 = h2
    t1 = t1
    t2 = t2
    c1 = c1
    c2 = c2
    NoTrack = NoTrack
    Garbled = Garbled
    Helpers = {h1, h2}
    HelperTrack <- OwnTrack
    HelperReliable = {}
    Conns = {c1}
    ReliablePeers = {}
    OwnTracks = {t1}
    ReliableHere = FALSE
    GroupPackets = 3
    GroupBytes = 10
    HoldTime = 3
    LoopTimes = {3, 4}
    Sizes = {1}
    MaxPackets = 4
SPECIFICATION Spec
INVARIANTS
    ForwardedOnOwnTrack
CHECK_DEADLOCK FALSE
