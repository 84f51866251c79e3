CONSTANTS
    z1 = z1
    z2 = z2
    p1 = p1
    p2 = p2
    None = None
    Sid = {1, 2}
    Zone = {z1, z2}
    Map = {1}
    Player = {p1, p2}
    LogicalZone <- ChannelLogical
    GameplayZone <- TemplateZone
    Serves <- ChannelServes
    MaxSerial = 2
    MaxConnection = 2
    MaxRequest = 2
    MaxAttempt = 1
SPECIFICATION Spec
SYMMETRY ChannelSymmetry
CHECK_DEADLOCK FALSE
INVARIANTS
    EnterAwaitsItsZone
