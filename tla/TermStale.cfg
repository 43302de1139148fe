SPECIFICATION TermSpec
CONSTANTS
    Node = {n1, n2}
    NoNode = NoNode
    Cmd = {c1, c2, c3}
    LeaseTermFloor = 1
    CacheTTL = 2
    FailureTTL = 1
    ReadTimeout = 1
    ReadsFail = FALSE
    MaxTime = 4
    MaxEpoch = 2
SYMMETRY Symmetry
PROPERTY StampsAreRecent
