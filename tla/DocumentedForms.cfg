\* Every call of the method table that context.h documents.
CONSTANT VolumeLoaded = TRUE
SPECIFICATION Spec
INVARIANT AllDocumentedCallsAreServed
CHECK_DEADLOCK FALSE
