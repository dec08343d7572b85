CONSTANTS
    Peer = {x, y}
    StaticKey = {k1, k2}
    NULL = NULL
    Torn = Torn
    MaxStarts = 3
    MaxFailures = 2
SPECIFICATION Spec
INVARIANTS
    TypeOK
    
    OneKeyPerPeer
PROPERTY
    PinsStay
CHECK_DEADLOCK FALSE
