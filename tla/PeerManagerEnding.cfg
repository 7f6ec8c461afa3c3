SPECIFICATION Spec
CONSTANTS
    None = None
    Main = Main
    a1 = a1
    self = self
    h1 = h1
    h2 = h2
    host = host
    Addr = {a1, self}
    Self = self
    Outbound <- MCOutbound
    Handler = {h1, h2}
    Caller <- MCCaller
    Configuration <- MCEnding
    HostOf <- MCHostOf
    AnnouncedBy <- MCAnnouncedBy
    Local = {}
    MaxRank = 2
    MaxTime = 3
    MAX_OUTBOUND_PEER_CONNECTIONS = 1
    MAX_INBOUND_PEER_CONNECTIONS_FROM_SAME_HOST = 1
    InboundLimit = 1
    AddrCapacity = 1
CHECK_DEADLOCK FALSE
PROPERTIES
    ShutdownEnds
    ExplicitIsRetried
