SPECIFICATION Spec
INVARIANTS ReleasedOnce HeldWhileEnabled ReleasedUnlessUnrun WipedUnlessDropped
PROPERTY AcquireSettles
