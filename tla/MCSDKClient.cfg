CONSTANTS
    Request = request
    NULL = NULL
    MaxRequests = 1
    MaxAccepts = 1
    SendsCap = 1
    MaxDials = 1
    MaxPings = 1
SPECIFICATION Spec
INVARIANTS
    TypeOK
    RoomForResult
    WaiterKept
PROPERTIES
    CloseEndsReader
    CloseReleases
CHECK_DEADLOCK FALSE
