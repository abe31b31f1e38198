SPECIFICATION Spec
CONSTANTS
    data = data
    small = small
    read = read
    long = long
    ack = ack
    N = 3
    Kinds <- MCKinds
    Class <- MCClass
    Sends <- LongSends
    VcFlits <- MCVcFlits
    EjectFlits = 3
    PriorityBound = 1
    MaxPackets = 3
INVARIANTS
    NeverStuck
CHECK_DEADLOCK FALSE
