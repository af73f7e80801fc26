CONSTANTS
    Providers = {p1, p2}
    MaxMessages = 2
SPECIFICATION FairSpec
CHECK_DEADLOCK FALSE
INVARIANTS
    OrderKept
    NothingStranded
PROPERTY
    AcceptedIsHandedOver
