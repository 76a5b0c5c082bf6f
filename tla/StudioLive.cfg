SPECIFICATION FairStudioSpec
CONSTANTS
    Jobs = {j1}
    Uploads = {t1}
    Paths = {p1}
    None = None
    Polls = {q1}
    Posts = {r1, r2}
    PageKind = "video"
    Patient = FALSE
INVARIANT
    TimerIsShown
PROPERTY
    WaitIsAnswered
