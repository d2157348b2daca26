SPECIFICATION Spec
CONSTANTS
    Pid = {p1, p2}
    None = None
    Version = {1, 2}
    MaxTime = 3
    Modes <- QuietModes
INVARIANTS
    ArtifactWhole
    BuiltIsFresh
    ManifestTruthful
PROPERTIES
    UpToDateIsFresh
    FailurePreserves
