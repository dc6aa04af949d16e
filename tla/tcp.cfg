SPECIFICATION TcpSpec
CONSTANTS
    MaxBytes = 2
    Mss = 2
    NetCap = 2
    MaxIsn = 1
CHECK_DEADLOCK FALSE
INVARIANTS
    TcpTypeOK
    StreamDelivered
    EndsAsMeant
