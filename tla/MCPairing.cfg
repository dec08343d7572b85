CONSTANTS
    a = a
    b = b
    c3 = c3
    DeviceID = {a, b, c3}
    Online = {a, b, c3}
    NULL = NULL
    Code = {k1}
    MaxGrants = 2
    Conns <- OneReconnects
    Ops = {"pair", "unpair", "disconnect", "expire"}
    Overlap = {"pair"}
    ForeignKeys = TRUE
SPECIFICATION Spec
INVARIANTS
    
    CodesSingleUse
CHECK_DEADLOCK FALSE
