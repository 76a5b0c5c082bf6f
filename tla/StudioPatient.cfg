SPECIFICATION StudioSpec
CONSTANTS
    Jobs = {j1, j2}
    Uploads = {t1}
    Paths = {p1}
    None = None
    Polls = {q1}
    Posts = {r1}
    PageKind = "podcast"
    Patient = TRUE
SYMMETRY StudioSymmetry
INVARIANT
    LinkIsUndisturbed
PROPERTY
    PageIsPolite
