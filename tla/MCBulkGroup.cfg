SPECIFICATION Spec
CONSTANTS
    w1 = w1
    w2 = w2
    c1 = c1
    c2 = c2
    t1 = t1
    t2 = t2
    t3 = t3
    Warps <- MCWarps
    Ctas <- MCCtas
    CtaOf <- MCCtaOf
    Tx <- MCTx
    MaxGroup = 3
INVARIANTS
    LedgerConsistent
    CompletionFindsEntry
    FrontierExact
    NoLostWakeup
PROPERTIES
    WaitEndsComplete
    ImplementsSpec
    EveryWaitEnds
