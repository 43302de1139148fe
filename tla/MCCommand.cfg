SPECIFICATION CommandSpec
CONSTANTS
    Node = {n1, n2}
    NoNode = NoNode
    Cmd = {c1, c2, c3}
    LeaseTermFloor = 1
    CacheTTL = 2
    FailureTTL = 1
    ReadTimeout = 1
    ReadsFail = TRUE
    MaxTime = 4
    MaxEpoch = 2
    MaxTerm = 3
    Legacy = {0, 1}
    RereadFails = FALSE
SYMMETRY Symmetry
INVARIANTS
    CurrentTermAdmitted  AdmissionsFollowTerms MarkIsAuthenticated
    ReservationsMatch
PROPERTIES
    CachedStampsAreRecent ImplementsSource FileNeverRegresses
