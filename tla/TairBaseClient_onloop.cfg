SPECIFICATION Spec
CONSTANTS
    Reqs = {r1, r2, r3, r4}
    Auth = Auth
    Name = Name
    AutoReconnect = TRUE
    UsePassword = FALSE
    Interval = 0
    Contexts = {"loop"}
    InitWait = "no"
    BadServer = TRUE
    MaxConnects = 3
INVARIANTS TypeOK ResponseMatches InLockstep
SYMMETRY ReqSymmetry
CHECK_DEADLOCK FALSE
