SPECIFICATION FairSpec
CONSTANTS
    Main = Main
    Others = {o1, o2, o3}
    LoopThread = LoopThread
    Nobody = Nobody
INVARIANTS LoopOutlivesStop
PROPERTIES StartReturns StopEndsThread
CHECK_DEADLOCK FALSE
