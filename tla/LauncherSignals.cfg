SPECIFICATION Spec
CONSTANT MaxSignals = 3
INVARIANTS EchoRestored ReturnsClean HostKeepsJar
PROPERTY LauncherEnds
