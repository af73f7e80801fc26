CONSTANTS
    alice = alice
    news = news
    MaxConnections = 2
    Addresses = {a1, a2}
    Names = {alice}
    Channels = {news}
    Subscriptions = {{news}}
    NThreads = 2
    ThreadOf <- MCOneThread
    NListeners = 2
    MaxSends = 1
SPECIFICATION FairSpec
CHECK_DEADLOCK FALSE
INVARIANTS
    NoTwoAlike
    OfOneMind
    StatIsExact
PROPERTIES
    KeepsContract
    RefusedIsClosed
    ClosedIsTold
