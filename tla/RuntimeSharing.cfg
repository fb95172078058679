SPECIFICATION Spec
CONSTANTS
    Procs = {p1, p2, p3}
    Dirs = {d1}
    NoDir = NoDir
    NoProc = NoProc
    Times = {0, 1}
    MaxAge = 1
    ScanLimit = 1
SYMMETRY Symmetry
INVARIANTS
    ArtifactStaysRecorded
    NoLeakWithoutCrash
    CleanupErases
PROPERTIES
    LiveDirectoryPrivate
    ImplementsStore
