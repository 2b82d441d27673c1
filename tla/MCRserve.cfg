SPECIFICATION FairSpec
CONSTANTS
    Sockets <- TwoServers
    QapSocket = {3}
    MaxServers = 2
    MaxSrvs = 3
    Pid = {p1, p2}
    Control = TRUE
    BodyLen = {1, 2, 3}
    MaxCtrlData = 3
    PipeBuf = 1
    PipeCap = 2
    Embedded = FALSE
    MaxCmds = 2
INVARIANTS
    TypeOK
    NoInheritedListener
    ChildListMatchesPipes
    PerformedAsSent
PROPERTIES
    StopsWhenAsked
    CommandPerformed
    ZombiesReaped
CHECK_DEADLOCK FALSE
