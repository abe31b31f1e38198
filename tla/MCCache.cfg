SPECIFICATION Spec
CONSTANTS
    blk_a = blk_a
    blk_b = blk_b
    blk_c = blk_c
    NumLines = 2
    Blocks <- ThreeBlocks
    NoLine = NoLine
    Sectors = {1, 2}
    Home <- OneSet
    Requests <- Mix
    Policies <- Shipped
    MshrEntries = 2
    MaxMerged = 2
    MissQueueSize = 2
    MaxRequests = 4
CHECK_DEADLOCK FALSE
INVARIANTS
    MissesTracked
PROPERTIES
    DirtyWrittenBack
    EveryRequestServed
