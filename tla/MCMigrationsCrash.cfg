CONSTANTS
    Process = {p1}
    MaxCrashes = 1
SPECIFICATION Spec
PROPERTY
    RestartOpens
