CONSTANTS
    Cmd = {c1, c2, c3}
    MaxTerm = 2
    Legacy = {0, 1}
    RereadFails = TRUE
SPECIFICATION FenceSpec
SYMMETRY Symmetry
PROPERTY FileNeverRegresses
