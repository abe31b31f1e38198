SPECIFICATION Spec
CONSTANTS
    c1 = c1
    c2 = c2
    w1 = w1
    w2 = w2
    Slots = {c1, c2}
    Warps = {w1, w2}
    SlotOf <- OwnSlot
    CopyKinds = {"cp"}
    Work = {1, 3}
    Rate = 2
    IssueInterval = 1
    TailLatency = 1
    Latency <- Latencies
    Interval <- Intervals
    QueueDepth = 2
    Sizes = {1, 2}
    Setups <- AllSetups
INVARIANTS
    CompletionsCover
    NothingStale
    RangesDisjoint
PROPERTIES
    EveryControlEnds
CHECK_DEADLOCK FALSE
