SPECIFICATION JobSpec
CONSTANTS
    Node = {n1, n2}
    NoNode = NoNode
    LeaseTTL = 3
    RenewalInterval = 1
    MaxRenewalLatency = 1
    MaxStall = 1
    Releasing = FALSE
    MaxTime = 4
    MaxToken = 2
    MaxLate = 1
    MaxWake = 1
    MaxAcquire = 1
SYMMETRY Symmetry
INVARIANTS
    JobTypeOK
    NoDuplicateRun
    CycleOwnsItsCalls
PROPERTIES
    CycleKeepsToken
