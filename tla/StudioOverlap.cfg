SPECIFICATION StudioSpec
CONSTANTS
    Jobs = {j1}
    Uploads = {t1, t2}
    Paths = {p1}
    None = None
    Polls = {q1, q2}
    Posts = {r1}
    PageKind = "video"
    Patient = FALSE
SYMMETRY StudioSymmetry
INVARIANTS
    StudioTypeOK
    ProgressIsFollowed
    LinkOnScreenIsWhole
