SPECIFICATION Spec
CONSTANTS
    Pid = {p1}
    None = None
    Version = {1, 2}
    MaxTime = 2
    Modes <- HardMode
PROPERTIES
    UpToDateIsFresh
