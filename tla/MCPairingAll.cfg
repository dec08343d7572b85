CONSTANTS
    a = a
    b = b
    c3 = c3
    DeviceID = {a, b}
    Online = {a, b}
    NULL = NULL
    Code = {k1}
    MaxGrants = 1
    Conns <- OneReconnects
    Ops = {"pair", "unpair", "disconnect", "link", "delete"}
    Overlap = {"connect", "disconnect", "pair", "unpair", "delete"}
    ForeignKeys = FALSE
SPECIFICATION Spec
INVARIANTS
    TypeOK
    
    
SYMMETRY SymmetricCodes
CHECK_DEADLOCK FALSE
