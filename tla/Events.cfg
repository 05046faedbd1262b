SPECIFICATION Spec
CONSTANTS
    a1 = a1
    a2 = a2
    b1 = b1
    pa = pa
    pb = pb
    s1 = s1
    Event = {a1, a2, b1}
    Prior <- MCPrior
    Partition = {pa, pb}
    PartitionOf <- MCPartitionOf
    Relay = {r1}
    BatchSize = 2
    Subscription = {s1}
    Wants <- MCWants
    Worker = {w1, w2}
    MaxAttempts = 2
    ClaimBatch = 2
    MaxFaults = 1
INVARIANTS
    TypeOK
    NothingLost
    PublishedInOrder
    DeadMeansTried
PROPERTIES
    ImplementsNotifications
    EventuallySettled
CHECK_DEADLOCK FALSE
