CONSTANTS
    z1 = z1
    z2 = z2
    p1 = p1
    p2 = p2
    None = None
    Sid = {1}
    Zone = {z1}
    Map = {1}
    Player = {p1}
    LogicalZone <- ChannelLogical
    GameplayZone <- TemplateZone
    Serves <- ChannelServes
    MaxSerial = 1
    MaxConnection = 1
    MaxRequest = 1
    MaxAttempt = 1
SPECIFICATION FairSpec
CHECK_DEADLOCK FALSE
PROPERTIES
    EnterEnds
