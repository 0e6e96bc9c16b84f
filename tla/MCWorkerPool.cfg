SPECIFICATION MCSpec
CONSTANTS
    Tasks = {1, 2, 3}
    NoTask = NoTask
    WorkerCount = 1
    MaxQueueDepth = 1
    MaxHandles = 5
    MaxDeaths = 1
CHECK_DEADLOCK FALSE
INVARIANT SlotsConserved
INVARIANT WorkConserving
INVARIANT TasksAccounted
PROPERTY EventuallyAnswered
PROPERTY ShutdownReturns
