SPECIFICATION Spec
CONSTANTS
    s1 = s1
    s2 = s2
    Sms <- TwoSms
    Links <- OneWay
    Classes = {"store", "tma", "load", "atom", "arrive", "waitreg"}
    Bytes <- MCBytes
    MaxGrant = 2
    Window = 2
    AckThreshold = 2
    AckTimeout = 2
    ReqDepth = 2
    RspDepth = 1
    MaxTx = 3
    MaxGen = 1
INVARIANTS
    AckDebtExact
    TxHandledOnce
PROPERTIES
    StoresCompleteApplied
CHECK_DEADLOCK FALSE
