SPECIFICATION BatchSpec
CONSTANTS
    s1 = s1
    s2 = s2
    NoID = NoID
    NoRole = NoRole
    Steward = {s1, s2}
    Jobs <- MCJobs
    Call <- MCCall
    Receipts <- MCCall
    Duplicates = {}
    SlowRegister = {}
    SendsFail = {}
CHECK_DEADLOCK FALSE
INVARIANTS
    FailedStepHasFailure
