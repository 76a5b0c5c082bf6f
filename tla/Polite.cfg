SPECIFICATION PoliteSpec
CONSTANTS
    Jobs = {j1, j2}
    Uploads = {t1, t2}
    Paths = {p1, p2}
    None = None
SYMMETRY Symmetry
INVARIANTS
    ServerStaysUp
    PreviewIsBacked
    PublishedIsWhole
PROPERTY
    PublishedIsFinal
    KeepsPromise
