CONSTANTS
    a = a
    b = b
    DeviceID = {a, b}
    NULL = NULL
    Peer <- Paired
    Conns <- OneEach
    MaxFrames <- TwoFromB
    ChanCap = 1
    SendBufferSize = 1
SPECIFICATION Spec

    
PROPERTIES
    NoHandlerStuck
    ClosedTornDown
CHECK_DEADLOCK FALSE
