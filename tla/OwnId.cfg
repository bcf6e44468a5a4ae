\* Every owner uses the number it was given, and nobody any other.
CONSTANTS
    Limit = 3
    SizeRange = 12
    Id = {}
SPECIFICATION Spec
INVARIANT OwnIdRemovesOwn
CHECK_DEADLOCK FALSE
