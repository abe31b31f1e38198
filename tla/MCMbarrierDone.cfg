SPECIFICATION Spec
CONSTANTS
    s1 = s1
    s2 = s2
    w1 = w1
    w2 = w2
    b1 = b1
    b2 = b2
    Sms <- TwoSms
    Warps <- TwoWarps
    Bars <- TwoBars
    Home <- HomeBoth
    LocalWaiters <- SecondWarp
    RemoteWaiters <- SecondWarp
    TryWaitLatency = 2
    PredicateLatency = 0
    WakeupLatency = 1
    ArriveLatency = 1
    ExtraHold = 1
    Hints = {3}
    MaxCount = 1
    MaxTx = 1
    MaxPhase = 2
    MaxChan = 3
INVARIANTS
    ResumesWithAnswer
