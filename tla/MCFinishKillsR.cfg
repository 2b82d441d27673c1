SPECIFICATION Spec
CONSTANTS
    UUID = {u1}
    Supervisor = {w1}
    Client = {c1}
    Pid = {p1, p2, p3}
    None = None
    NoPid = NoPid
    NumRoutees = 1
    MaxMsgs = 3
    ClientKinds = {"SyntaxCheckRequest"}
    MaxTimeouts = 0
    Races = {}
    MaxChildRetries = 1
    MaxSupRetries = 1
    autoDeleteTempFiles = TRUE
    Faults = {}
PROPERTIES
    FinishKillsR
CHECK_DEADLOCK FALSE
