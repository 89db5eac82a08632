SPECIFICATION FairSpec
CONSTANTS
    Main = Main
    Others = {}
    LoopThread = LoopThread
    Nobody = Nobody
PROPERTIES JoinAfterStopReturns
CHECK_DEADLOCK FALSE
