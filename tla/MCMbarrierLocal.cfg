SPECIFICATION Spec
CONSTANTS
    s1 = s1
    s2 = s2
    w1 = w1
    w2 = w2
    b1 = b1
    b2 = b2
    Sms <- OneSm
    Warps <- TwoWarps
    Bars <- TwoBars
    Home <- HomeOne
    LocalWaiters <- FirstWarp
    RemoteWaiters = {}
    TryWaitLatency = 2
    PredicateLatency = 0
    WakeupLatency = 1
    ArriveLatency = 1
    ExtraHold = 1
    Hints = {0, 3}
    MaxCount = 1
    MaxTx = 1
    MaxPhase = 2
    MaxChan = 1
INVARIANTS
    RegistrationsExact
    NeverOversleeps
    AnswersJustified
    ParkingExact
