SPECIFICATION StudioSpec
CONSTANTS
    Jobs = {j1}
    Uploads = {t1}
    Paths = {p1}
    None = None
    Polls = {q1, q2}
    Posts = {r1}
    PageKind = "video"
    Patient = TRUE
SYMMETRY StudioSymmetry
INVARIANT
    TimerIsShown
