SPECIFICATION DispatchSpec
CONSTANTS
    s1 = s1
    s2 = s2
    s3 = s3
    r1 = r1
    r2 = r2
    r3 = r3
    m1 = m1
    shared = shared
    old = old
    Call <- MCCall
    Receipts <- MCReceipts
    Duplicates <- MCDuplicates
    SlowRegister = {}
    NoID = NoID
    NoRole = NoRole
    Steward = {s1, s2, s3}
    Jobs <- MCJobs
    SendsFail <- MCSendsFail
    Request = {r1, r2, r3}
    Matched <- MCMatched
    Rollbacks = {r3}
    UnsafeRecords <- MCUnsafe
    Migrant = {m1}
    Shared = shared
    Legacy = {old}
    Starts <- MCStarts
    MaxWorkers = 1
    MaxPushes = 4
    MaxRestarts = 1
CHECK_DEADLOCK FALSE
INVARIANTS
    OneVerdict
     AdvanceOnlyOnSuccess RolledBackMeansUndone WaveKeepsQuorum
    OutcomeIsTrue
    AckIsProof SlotsAreExact
PROPERTIES
    SettledOnce
