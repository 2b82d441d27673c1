SPECIFICATION FairSpec
CONSTANTS
    Requests <- SomeRequests
    MaxRequests = 2
    LineBuf = 26
    SplitEol = FALSE
    WsUpgrade = TRUE
    Handshakes <- SomeHandshakes
    Messages <- SomeMessages
    MaxMessages = 2
    FrameBuf = 6
    TextBuf = 10
    Header = 2
    MaxIn = 10
    Chunk = 3
    MaskLen = 2
    Key3 = 2
INVARIANTS
    
    ResponsesFramed
    
PROPERTIES
    Answered
CHECK_DEADLOCK FALSE
