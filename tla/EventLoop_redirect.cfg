SPECIFICATION Spec
CONSTANTS
    Loops = {l1, l2}
    Callers = {}
    Stoppers = {l1, l2}
    Tasks = {p1, b1}
    Bound = {b1}
    StopFn = StopFn
    NoLoop = NoLoop
    PipeCapacity = 1
INVARIANTS TypeOK NoLostWakeUp StopKeepsEarlierTasks NoPendingTaskMeansNone BoundKeptOnce
CHECK_DEADLOCK FALSE
