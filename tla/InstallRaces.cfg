SPECIFICATION BridgeSpec
CONSTANTS
    j1 = j1
    j2 = j2
    j3 = j3
    Jvms <- ThreeJvms
    Host = j1
    Threads = {t1, t2}
INVARIANTS LoadedIsVerified SomeoneInstalls CallsLeaveNothing CurlInitializedOnce ApplicationHasJar
PROPERTIES CallsReturn
