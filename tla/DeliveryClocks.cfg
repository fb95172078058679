SPECIFICATION Spec
CONSTANTS
    Nonces = {n1}
    Keys = {k1, k2}
    Trusted = {k1}
    Contents <- GrowAndShrink
    a = a
    b = b
    SessionTtl = 2
    GatewaySkew = 1
    ClientSkew = 1
    Timeout = 2
    Offsets <- AheadOrBehind
    MaxTime = 5
    Nothing = Nothing
INVARIANTS
    WindowsAgree
PROPERTIES
    AcquireReturns
