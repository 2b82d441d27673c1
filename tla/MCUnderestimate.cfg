SPECIFICATION Spec
CONSTANTS
    Objects <- Singles
    LenMod = 128
    LargeLimit = 112
    ClientLimit = 63
    SendBufSize = 100
    MaxSendBufSize = 200
    Spare = 16
    Page = 64
INVARIANTS
    StorageCovers
CHECK_DEADLOCK FALSE
