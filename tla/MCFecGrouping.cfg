CONSTANTS
    h1 = h1
    h2 = h2
    t1 = t1
    t2 = t2
    c1 = c1
    c2 = c2
    NoTrack = NoTrack
    Garbled = Garbled
    Helpers = {h1, h2}
    HelperTrack <- OneTrack
    HelperReliable = {h2}
    Conns = {c1, c2}
    ReliablePeers = {c2}
    OwnTracks = {t1}
    ReliableHere = FALSE
    GroupPackets = 3
    GroupBytes = 10
    HoldTime = 3
    LoopTimes = {3}
    Sizes = {1, 4}
    MaxPackets = 3
SPECIFICATION Spec
INVARIANTS
    TypeOK
    Conservation
    HeldOneRound
    GroupWithinLimits
    ForwardedWhole
    ObjectIdsFresh
CHECK_DEADLOCK FALSE
