\* Four subscriptions, numbers below and beyond the table, a size_t of twelve values.
CONSTANTS
    Limit = 4
    SizeRange = 12
    Id <- Ids
SPECIFICATION Spec
INVARIANTS
    TypeOK
    NoHoles
    OrderKept
    IdNeverBelow
PROPERTY ImplementsSubscriptionList
\* The program may end.
CHECK_DEADLOCK FALSE
