SPECIFICATION ProgressSpec
CONSTANTS
    Node = {n1, n2}
    NoNode = NoNode
    Cmd = {c1, c2}
    LeaseTermFloor = 1
    CacheTTL = 2
    FailureTTL = 1
    ReadTimeout = 1
    ReadsFail = TRUE
    MaxTime = 2
    MaxEpoch = 1
    Arrivals = 5
    Limit = 3
    MaxSubscribes = 2
    ID = {i1, i2}
    Latency = 2
    MaxPause = 1
    Window = 3
    Cap = 1
    MaxClock = 6
    MaxCopies = 2
    MaxFenceRetries = 1
    MaxSends = 6
    MaxDrains = 1
    MaxControllerStops = 1
    MaxLost = 1
    MaxForgets = 1
    Starter = {a, b}
    Stopper = {a}
    MaxRuns = 2
    MaxFailovers = 1
    s1 = s1
    s2 = s2
    m1 = m1
    m2 = m2
    old = old
    shared = shared
    Call <- MCCall
    Receipts <- MCReceipts
    Duplicates = {}
    SlowRegister = {}
    NoID = NoID
    NoRole = NoRole
    Steward = {s1, s2}
    Jobs <- MCJobs
    SendsFail <- MCSendsFail
    Migrant = {m1, m2}
    Shared = shared
    Legacy = {old}
    Starts <- MCStarts
    MaxWorkers = 1
    MaxPushes = 1
    MaxRestarts = 0
CHECK_DEADLOCK FALSE
INVARIANTS
    ServicesTypeOK
    HandedOverInOrder
     
    RefusalWins 
    StopIsComplete
PROPERTIES
    PublishersReturn
    HeldAreHandled RetriesEnd CallsReturn  WorkersReturn
