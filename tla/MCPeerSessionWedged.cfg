CONSTANTS
    NULL = NULL
    a = a
    b = b
    Device = {a, b}
    Smaller = a
    Acceptor = b
    Pins <- Unpinned
    Announcements <- Truthful
    MaxSends <- NoneSent
    MaxHeld = 0
    MaxLosses = 1
    MaxRestarts = 0
SPECIFICATION Spec
PROPERTY RecoversFromLoss
CHECK_DEADLOCK FALSE
