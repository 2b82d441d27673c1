SPECIFICATION MasterSpec
CONSTANTS
    UUID = {u1, u2, u3}
    Supervisor = {w1, w2, w3, w4}
    Client = {c1}
    None = None
    NumRoutees = 2
    MaxMsgs = 4
    ClientKinds = {"ExecuteRRequest"}
    MaxTimeouts = 1
    Races = {}
SYMMETRY Symmetry
INVARIANTS
    MasterTypeOK
    OneSessionPerWorker
    BoundToRouter
    WatchedWhileBound
    TimedWhileBound
    FreeCountExact
    CleanHandover
PROPERTIES
    ImplementsPool
CHECK_DEADLOCK FALSE
