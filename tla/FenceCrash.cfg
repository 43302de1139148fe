CONSTANTS
    Cmd = {c1, c2, c3}
    MaxTerm = 2
    Legacy = {0, 1}
    RereadFails = FALSE
SPECIFICATION FenceSpec
SYMMETRY Symmetry
INVARIANT AcceptedTermsSurvive
