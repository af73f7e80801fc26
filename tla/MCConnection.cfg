CONSTANTS
    Secure = TRUE
    Threaded = TRUE
    PolicyData = TRUE
    PingText = TRUE
    PingInterval = 200
    InactiveTimeout = 1000
    Clock = {0, 50, 150, 500}
    InputBounded = FALSE
    Transports = {"http", "ws_close", "ws_noclose", "ws_invalid"}
    Kinds = {"data", "empty", "bad"}
    MaxMessages = 2
SPECIFICATION FairSpec
CHECK_DEADLOCK FALSE
INVARIANTS
    ConnectedOnlyWhileOpen
    NotificationsBalanced
    AlwaysWatched
    OneWriteAtATime
    NothingLostWhileOpen
    WireWellFormed
PROPERTIES
    ClosedIsFinal
    StalledPeerIsDropped
    ClosedIsReleased
