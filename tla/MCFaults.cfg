SPECIFICATION Spec
CONSTANTS
    UUID = {u1, u2}
    Supervisor = {w1}
    Client = {c1}
    Pid = {p1, p2, p3}
    None = None
    NoPid = NoPid
    NumRoutees = 1
    MaxMsgs = 2
    ClientKinds = {"RAssign", "SyntaxCheckRequest", "ExecuteRRequest", "OtherRRequest"}
    MaxTimeouts = 0
    Races = {}
    MaxChildRetries = 1
    MaxSupRetries = 1
    autoDeleteTempFiles = TRUE
    Faults = {"RserveDown", "RCrash", "CheckedException"}
SYMMETRY Symmetry
INVARIANTS
    TypeOK
    NoOrphanR
    PidTracked
    AnsweredOnce
    UploadsDeleted
PROPERTIES
    NoRequestLost
CHECK_DEADLOCK FALSE
