SPECIFICATION LiveSpec
CONSTANTS
    Reqs = {r1, r2}
    Auth = Auth
    Name = Name
    AutoReconnect = TRUE
    UsePassword = FALSE
    Interval = 0
    Contexts = {"loop"}
    InitWait = "no"
    BadServer = FALSE
    MaxConnects = 2
PROPERTIES EveryCommandAnswered ConnectResolves ReconnectsByItself
CHECK_DEADLOCK FALSE
