CONSTANTS
    z1 = z1
    z2 = z2
    p1 = p1
    p2 = p2
    None = None
    Sid = {1, 2}
    Zone = {z1, z2}
    Map = {1}
    Player = {p1}
    LogicalZone <- ChannelLogical
    GameplayZone <- TemplateZone
    Serves <- ChannelServes
    MaxSerial = 2
    MaxConnection = 2
    MaxRequest = 3
    MaxAttempt = 1
SPECIFICATION FairSpec
CHECK_DEADLOCK FALSE
INVARIANTS
    EnterInOnePlace
PROPERTIES
    RouteNotReplaced
    SentEnterEnds
    UnroutedZonesReconnect
