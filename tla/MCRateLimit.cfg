CONSTANTS
    Request = {r1, r2}
    NULL = NULL
    MaxTokens = 2
    Window = 2
    MaxBuckets = 2
    MaxTime = 9
SPECIFICATION Spec
INVARIANTS
    TypeOK
    TwoWindowsAtMost
PROPERTY
    RefusalJustified
CHECK_DEADLOCK FALSE
