SPECIFICATION Spec
CONSTANTS
    Launchers = {l1, l2}
    Nobody = Nobody
    User = User
    ScanLimit = 2
SYMMETRY Symmetry
INVARIANTS EchoRestored HostHasJar ArtifactRecorded
PROPERTIES LiveFilesPrivate UserFilesKept
