SPECIFICATION Spec
CONSTANTS
    Procs = {p1, p2, p3}
    Names = {n1}
    Copies = {k1, k2}
    Inodes = {i1, i2}
    NoInode = NoInode
    NoCopy = NoCopy
    User = User
    ScanLimit = 2
    Reuse = FALSE
    UserWaits = TRUE
SYMMETRY Symmetry
PROPERTIES LiveJarsKept
