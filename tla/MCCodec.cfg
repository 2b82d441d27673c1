SPECIFICATION Spec
CONSTANTS
    Objects <- AllObjects
    LenMod = 128
    LargeLimit = 112
    ClientLimit = 63
    SendBufSize = 100
    MaxSendBufSize = 200
    Spare = 16
    Page = 64
INVARIANTS
    
    ClientReads
    StorageCovers
CHECK_DEADLOCK FALSE
