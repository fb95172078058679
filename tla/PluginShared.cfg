SPECIFICATION Spec
CONSTANTS
    Procs = {p1, p2}
    Names = {n1}
    Copies = {k1, k2, k3}
    Inodes = {i1, i2, i3}
    NoInode = NoInode
    NoCopy = NoCopy
    User = User
    ScanLimit = 2
    Reuse = TRUE
    UserWaits = FALSE
SYMMETRY Symmetry
INVARIANTS PublishedIsRecorded CleanupErases LeftoversRecorded
PROPERTIES UserFilesKept
