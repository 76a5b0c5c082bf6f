SPECIFICATION FairSpec
CONSTANTS
    Jobs = {j1}
    Uploads = {t1, t2}
    Paths = {p1}
    None = None
INVARIANTS
    TypeOK
    BusyHasWorker
    LinksAreStored
    PublishedIsCleared
PROPERTIES
    GoneStaysGone
    Settles
