CONSTANTS
    a = a
    b = b
    DeviceID = {a, b}
    NULL = NULL
    Peer <- Paired
    Conns <- OneReconnects
    MaxFrames <- OneFromB
    ChanCap = 2
    SendBufferSize = 1
SPECIFICATION Spec
INVARIANTS
    TypeOK
    NoSpuriousOffline
    ServedClientIsCurrent
    HubStatusAccurate
CHECK_DEADLOCK FALSE
