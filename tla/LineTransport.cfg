CONSTANTS
    BodyOf <- FourBodies
    Lossy <- LossyLast
    HeaderSize = 4
    Word = 65536
    MaxPacket = 65536
    MaxMsgs = 2
    MaxBytes = 150
    Delay = 1000
    MaxDelay = 1500
    MaxSerial = 2
SPECIFICATION FairSpec
CHECK_DEADLOCK FALSE
INVARIANTS
    TypeOK
    OneWriter
    NoGap
    OneConnection
PROPERTIES
    Reconnects
    WrittenOrClosed
