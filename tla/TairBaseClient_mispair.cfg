SPECIFICATION Spec
CONSTANTS
    Reqs = {r1, r2}
    Auth = Auth
    Name = Name
    AutoReconnect = TRUE
    UsePassword = FALSE
    Interval = 0
    Contexts = {"thread"}
    InitWait = "success"
    BadServer = FALSE
    MaxConnects = 1
INVARIANTS ResponseMatches
CHECK_DEADLOCK FALSE
