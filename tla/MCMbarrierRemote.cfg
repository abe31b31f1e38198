SPECIFICATION Spec
CONSTANTS
    s1 = s1
    s2 = s2
    w1 = w1
    w2 = w2
    b1 = b1
    b2 = b2
    Sms <- TwoSms
    Warps <- TwoWarps
    Bars <- OneBar
    Home <- HomeTwo
    LocalWaiters <- FirstWarp
    RemoteWaiters <- SecondWarp
    TryWaitLatency = 2
    PredicateLatency = 1
    WakeupLatency = 1
    ArriveLatency = 1
    ExtraHold = 1
    Hints = {3}
    MaxCount = 2
    MaxTx = 1
    MaxPhase = 2
    MaxChan = 2
INVARIANTS
    RemoteWaitOnce
PROPERTIES
    EveryTryWaitReturns
