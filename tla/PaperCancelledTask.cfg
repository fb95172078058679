SPECIFICATION Spec
INVARIANT ReleasedOnShutdown
