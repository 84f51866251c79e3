CONSTANTS
    s1 = s1
    s2 = s2
    a1 = a1
    a2 = a2
    c1 = c1
    c2 = c2
    None = None
    Sid = {s1}
    Account = {a1}
    Char = {c1}
    Owns <- OneAccount
    MaxSerial = 2
    MaxConnection = 2
    MaxToken = 1
    MaxRequest = 1
    MaxPacket = 1
    Sends = {"Enter", "Logout", "Reconnect"}
SPECIFICATION Spec
CHECK_DEADLOCK FALSE
INVARIANT PacketActsForItsSession
