SPECIFICATION Spec
CONSTANTS
    Putters = {"p1", "p2"}
    Workers = {"w1", "w2"}
    TasksEach = 2
    MaxQueueSize = 1
    Spinners = {"s1", "s2"}
    Forcers = {"f1"}
    TasksPer = 2
    ForcedTasks = 1
    Capacity = 1
    CoPutters = {"c1", "c2"}
    CoTasksEach = 2
    MaxQueue = 2
    MaxCoroutine = 1
    MaxYields = 2
    MAX_THREAD_POOL_SIZE = 2
    MaxPoolCalls = 5
    NPorts = 1
    Fds = {5, 6}
    IOLoops = {"io1", "io2"}
    MaxServerCalls = 6
    MaxBytes = 3
    MaxDepth = 2
    high_water_mark_ = 2
INVARIANTS
    ExecutorsAreSafe
    ServerSideIsSafe
    OutputIsWhole
PROPERTIES
    ExecutorsFinish
    ServerSideFinishes
CHECK_DEADLOCK FALSE
