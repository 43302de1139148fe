SPECIFICATION JobSpec
CONSTANTS
    Node = {n1, n2}
    NoNode = NoNode
    LeaseTTL = 3
    RenewalInterval = 1
    MaxRenewalLatency = 1
    MaxStall = 1
    Releasing = FALSE
    MaxTime = 5
    MaxToken = 2
    MaxLate = 0
    MaxWake = 1
    MaxAcquire = 5
SYMMETRY Symmetry
INVARIANTS
    NoDuplicateRun
