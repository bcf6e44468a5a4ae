\* Every method of the table, every combination of argument values.
CONSTANT VolumeLoaded = TRUE
SPECIFICATION Spec
INVARIANTS
    TypeOK
    DocumentedCallsAreServed
    OnlyConvertibleCallsAreServed
    EarlyCallsLeaveNothing
    TwinsAgree
\* A call is over when its handler has left.
CHECK_DEADLOCK FALSE
