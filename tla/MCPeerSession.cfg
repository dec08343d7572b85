CONSTANTS
    a = a
    b = b
    Device = {a, b}
    NULL = NULL
    Smaller = a
    Acceptor = b
    Pins <- MaybeMispinned
    Announcements <- MaybeMistold
    MaxSends <- TwoFromB
    MaxHeld = 2
    MaxLosses = 1
    MaxRestarts = 1
SPECIFICATION Spec
INVARIANTS
    TypeOK
    PairedIsUsable
    DeliveredMeansVerified

    
    
    
CHECK_DEADLOCK FALSE
