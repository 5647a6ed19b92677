SPECIFICATION MemorySpec
CONSTANTS
    Queues = {"a", "b", "c", "d"}
    MaxLiveGpuQueues = 3
    C = 2
    DataCapacity = 26
    DataAlignment = 4
    RingSubmissions = {1, 2, 3}
    DataSizes = {1, 3, 4, 5, 9}
INVARIANT PartitionsKept
INVARIANT RingExact
INVARIANT ArenaExact
CHECK_DEADLOCK FALSE
