CONSTANTS
    Process = {p1, p2, p3}
    MaxCrashes = 2
SPECIFICATION Spec
INVARIANTS
    TypeOK
    OpenIsComplete
    BackfilledOnce
    
SYMMETRY Symmetry
