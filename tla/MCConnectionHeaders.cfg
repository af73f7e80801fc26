CONSTANTS
    Secure = FALSE
    Threaded = FALSE
    PolicyData = FALSE
    PingText = FALSE
    PingInterval = 0
    InactiveTimeout = 1000
    Clock = {1000}
    InputBounded = FALSE
    Transports = {"http"}
    Kinds = {"data"}
    MaxMessages = 1
SPECIFICATION Spec
CHECK_DEADLOCK FALSE
INVARIANT
    HeadersFindSocketOpen
