SPECIFICATION Spec
CONSTANTS
    c1 = c1
    c2 = c2
    b1 = b1
    b2 = b2
    Slots = {c1, c2}
    WarpsPerCta = 3
    Bars = {b1, b2}
    NoBar = NoBar
    WholeCta = WholeCta
    Groups = {1, 2, 3}
    Free = Free
    Kernels <- AllKernels
INVARIANTS
    BarrierSeparates
    ReleasesJustified
    ClusterSeparates
PROPERTIES
    EveryCtaFinishes
CHECK_DEADLOCK FALSE
