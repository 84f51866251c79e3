CONSTANTS
    s1 = s1
    s2 = s2
    a1 = a1
    a2 = a2
    c1 = c1
    c2 = c2
    None = None
    Sid = {s1, s2}
    Account = {a1}
    Char = {c1, c2}
    Owns <- SharedAccount
    MaxSerial = 2
    MaxConnection = 2
    MaxToken = 2
    MaxRequest = 2
    MaxPacket = 1
    Sends = {"Enter", "Logout", "Reconnect"}
SPECIFICATION Spec
SYMMETRY SlotSymmetry
CHECK_DEADLOCK FALSE
INVARIANTS Authoritative EnteringIsReserved
PROPERTIES StaleCloseHarmless ImplementsRegistry
