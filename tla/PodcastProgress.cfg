SPECIFICATION StudioSpec
CONSTANTS
    Jobs = {j1}
    Uploads = {t1}
    Paths = {p1}
    None = None
    Polls = {q1}
    Posts = {r1}
    PageKind = "podcast"
    Patient = TRUE
SYMMETRY StudioSymmetry
INVARIANT
    ProgressIsFollowed
