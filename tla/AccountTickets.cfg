CONSTANTS
    s1 = s1
    s2 = s2
    w1 = w1
    w2 = w2
    a1 = a1
    l1 = l1
    Sid = {s1, s2}
    World = {w1, w2}
    Account = {a1}
    LoginSession = {l1}
    AccountOf <- OneSession
    Token = {t1}
    Coordinator = {k1}
    None = None
    MaxSerial = 1
SPECIFICATION FairSpec
CHECK_DEADLOCK FALSE
INVARIANTS
    RouteIndexExact
    ConsumedHasRoute
PROPERTIES
    ImplementsAuthority
    TicketSettles
