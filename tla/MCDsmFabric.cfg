SPECIFICATION Spec
CONSTANTS
    data = data
    small = small
    read = read
    long = long
    ack = ack
    N = 3
    Kinds <- MCKinds
    Class <- MCClass
    Sends <- MCSends
    VcFlits <- MCVcFlits
    EjectFlits = 3
    PriorityBound = 1
    MaxPackets = 4
INVARIANTS
    AccountsExact
    DataInOrder
    NeverStuck
CHECK_DEADLOCK FALSE
