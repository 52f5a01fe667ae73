CONSTANTS
    eth0 = eth0
    eth1 = eth1
    a1 = a1
    a2 = a2
    a6 = a6
    Closed = Closed
    Ifaces = {eth0, eth1}
    Addr <- Addrs
    V4 = {a1, a2}
    Table <- OneUp
    BindHosts <- BindOne
    HostByte <- Sides
    PipeRoom = 1
    TRANSPORT_MAX_PATHS = 2
    MaxChanges = 3
    MaxFaults = 1
SPECIFICATION FairSpec
INVARIANTS
    TypeOK
    LinksMatchSockets
    SendsOnOpenSocket
    Mirrored
PROPERTY
    LinksFollow
CHECK_DEADLOCK FALSE
