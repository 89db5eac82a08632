SPECIFICATION Spec
CONSTANTS
    Reqs = {r1, r2, r3}
    Auth = Auth
    Name = Name
    AutoReconnect = TRUE
    UsePassword = TRUE
    Interval = 1
    Contexts = {"thread", "loop", "callback"}
    InitWait = "no"
    BadServer = TRUE
    MaxConnects = 2
INVARIANTS EveryReplyExpected WaitingIsHeld LeftoversComeFirst
PROPERTIES AnsweredOnce
SYMMETRY ReqSymmetry
CHECK_DEADLOCK FALSE
