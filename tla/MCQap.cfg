SPECIFICATION Spec
CONSTANTS
    Configs <- SomeConfigs
    Commands <- SomeCommands
    MaxRequests = 4
    MaxConns = 3
    MaxFd = 4
    DetachedOpens = FALSE
INVARIANTS
    
    OnlyAsPermitted
    InStep
CHECK_DEADLOCK FALSE
