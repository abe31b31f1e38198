SPECIFICATION Spec
CONSTANTS
    c1 = c1
    l1 = l1
    l2 = l2
    Slots = {c1}
    WarpsPerCta = 2
    Lanes = {l1, l2}
    MaxInflight = 2
    MaxTx = 3
    MaxMarks = 2
    Setups <- AllSetups
INVARIANTS
    LedgerExact
    ArrivalsExact
PROPERTIES
    WaitEnds
    EveryWaitReturns
CHECK_DEADLOCK FALSE
