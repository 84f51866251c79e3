CONSTANTS
    z1 = z1
    z2 = z2
    p1 = p1
    p2 = p2
    None = None
    Sid = {1}
    Zone = {z1}
    Map = {1, 2}
    Player = {p1, p2}
    LogicalZone <- ChannelLogical
    GameplayZone <- TemplateZone
    Serves <- ChannelServes
    MaxSerial = 1
    MaxConnection = 1
    MaxRequest = 3
    MaxAttempt = 1
SPECIFICATION Spec
CHECK_DEADLOCK FALSE
PROPERTIES
    NoTransferDisplaced
