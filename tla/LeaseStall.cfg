SPECIFICATION LeaseSpec
CONSTANTS
    Node = {n1, n2}
    NoNode = NoNode
    LeaseTTL = 3
    RenewalInterval = 1
    MaxRenewalLatency = 1
    MaxStall = 4
    Releasing = FALSE
    MaxTime = 5
    MaxToken = 2
    MaxLate = 1
SYMMETRY Symmetry
INVARIANTS
    AtMostOneAuthority
