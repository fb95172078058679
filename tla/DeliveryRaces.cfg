SPECIFICATION Spec
CONSTANTS
    Nonces = {n1, n2}
    Keys = {k1}
    Trusted = {k1}
    Contents <- TwoVersions
    a = a
    b = b
    SessionTtl = 1
    GatewaySkew = 1
    ClientSkew = 1
    Timeout = 1
    Offsets <- Synchronous
    MaxTime = 3
    Nothing = Nothing
SYMMETRY Symmetry
INVARIANTS
    DeliveredIsSigned
    GrantIsShort
