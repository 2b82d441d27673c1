SPECIFICATION Spec
CONSTANTS
    UUID = {u1, u2}
    Supervisor = {w1, w2}
    Client = {c1}
    Pid = {p1, p2, p3}
    None = None
    NoPid = NoPid
    NumRoutees = 1
    MaxMsgs = 2
    ClientKinds = {"SyntaxCheckRequest", "ExecuteRRequest"}
    MaxTimeouts = 2
    Races = {"lookup", "write"}
    MaxChildRetries = 1
    MaxSupRetries = 1
    autoDeleteTempFiles = FALSE
    Faults = {}
SYMMETRY Symmetry
INVARIANTS
    NoOrphanR
    PidTracked
    AnsweredOnce
    OneSessionPerWorker
PROPERTIES
    NoRequestLost
CHECK_DEADLOCK FALSE
