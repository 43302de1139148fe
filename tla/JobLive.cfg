SPECIFICATION FairJobSpec
CONSTANTS
    Node = {n1, n2}
    NoNode = NoNode
    LeaseTTL = 2
    RenewalInterval = 1
    MaxRenewalLatency = 0
    MaxStall = 0
    Releasing = FALSE
    MaxTime = 3
    MaxToken = 2
    MaxLate = 0
    MaxWake = 1
    MaxAcquire = 1
PROPERTIES
    LostAuthorityCancels
    CycleCompletes
