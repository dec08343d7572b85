CONSTANTS
    DeviceID = {d1, d2, d3, d4}
    StaticKey = {k1, k2}
    NULL = NULL
    ForeignKeys = TRUE
SPECIFICATION Spec
SYMMETRY Symmetry
INVARIANTS
    TypeOK
    LinksSymmetric
    
    PairedNeverExpires
PROPERTIES
    KeyIsLocked
    RefinesPairs
