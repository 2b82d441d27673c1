SPECIFICATION FairSpec
CONSTANTS
    UUID = {u1}
    Supervisor = {w1}
    Client = {c1}
    Pid = {p1, p2, p3, p4}
    None = None
    NoPid = NoPid
    NumRoutees = 1
    MaxMsgs = 2
    ClientKinds = {"SyntaxCheckRequest", "ExecuteRRequest"}
    MaxTimeouts = 0
    Races = {}
    MaxChildRetries = 1
    MaxSupRetries = 1
    autoDeleteTempFiles = TRUE
    Faults = {"RCrash"}
PROPERTIES
    RequestServed
CHECK_DEADLOCK FALSE
