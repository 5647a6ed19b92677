SPECIFICATION Spec
CONSTANTS
    Ops = {1, 2, 3}
    Tensors = {"k"}
    Queues = {"q1", "q2"}
    OwnersOf <- SharedOwners
    RangeOf <- SharedRange
    QueueOf <- TwoQueues
    Copies = {3}
    HoldsRange = {1}
INVARIANT StorageSafe
INVARIANT LeaseExclusive
INVARIANT NothingLeaks
CHECK_DEADLOCK FALSE
