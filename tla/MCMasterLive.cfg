SPECIFICATION FairMasterSpec
CONSTANTS
    UUID = {u1, u2}
    Supervisor = {w1, w2}
    Client = {c1}
    None = None
    NumRoutees = 1
    MaxMsgs = 3
    ClientKinds = {"ExecuteRRequest"}
    MaxTimeouts = 3
    Races = {"lookup"}
PROPERTIES
    SessionReleased
CHECK_DEADLOCK FALSE
