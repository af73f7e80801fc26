SPECIFICATION Spec
CHECK_DEADLOCK FALSE
CONSTANTS
    Width <- MCWidth
    Lower <- MCLower
    Escaped <- MCEscaped
    Digit <- MCDigit
    MaxRequestSize = 250
    SmallMsgMaxSize = 2
    Creators = {"f"}
    Refused <- MCRefused
    Requests <- MCRequests
    Responses <- MCResponses
    Messages <- MCMessages
    Subscribers = {s1}
    Channels <- MCChannels
    Filtering = TRUE
    Secure = FALSE
    PolicyData = TRUE
    MaxPrinted = 2
INVARIANTS
    RequestUnderstood
    CompleteIsRecognised
    HandshakeAnswersTheKey
    MessagesArriveWhole
    FilterSeesTheLatest
    ChannelsInUse
