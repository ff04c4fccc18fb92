SPECIFICATION Spec
CONSTANTS
    Runs = {p1, p2}
    Writers = {api}
    Files = {f1}
    Settings = {"encrypted", "remote", "isolated"}
    MaxBundles = 2
    MaxSnapshots = 3
    MaxMishaps = 1
INVARIANTS
    SnapshotsRestorable
    NothingLost
    StoppedIsResumed
PROPERTIES
    WindowEnds
CHECK_DEADLOCK FALSE
