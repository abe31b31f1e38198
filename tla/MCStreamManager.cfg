SPECIFICATION Spec
CONSTANTS
    h1 = h1
    h2 = h2
    s1 = s1
    s2 = s2
    d1 = d1
    e1 = e1
    Hosts = {h1, h2}
    Streams = {s1, s2}
    DevStreams = {d1}
    Events = {e1}
    Programs <- Sound
    Zero = Zero
    Sim = Sim
    None = None
    MaxRunning = 2
    LaunchLatency = 1
    ChildBurst = 2
    MaxOps = 4
INVARIANTS
    FinishedIsFront
    ZeroIsBarrier
    NoDangling
PROPERTIES
    ReturnsComplete
    WaitFollowsRecord
    EveryCallReturns
