SPECIFICATION FairSpec
CONSTANTS
    Loops = {l1}
    Callers = {c1, c2}
    Stoppers = {c1}
    Tasks = {p1, p2, b1}
    Bound = {b1}
    StopFn = StopFn
    NoLoop = NoLoop
    PipeCapacity = 1
PROPERTIES TaskRuns StopTerminates RunsInOrder
CHECK_DEADLOCK FALSE
