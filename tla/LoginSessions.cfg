CONSTANTS
    s1 = s1
    s2 = s2
    a1 = a1
    c1 = c1
    Sid = {s1, s2}
    Account = {a1}
    Char = {c1}
    OwnerOf <- OneOwner
    None = None
    MaxSerial <- SlotLimit
    MaxRequest = 4
SPECIFICATION FairSpec
INVARIANTS
    TypeOK
    SessionsIndexed
    EnteredIsForgotten
    TokenHeldOnce
PROPERTY
    LoginAnswered
