SPECIFICATION FairSpec
CONSTANTS
    NThreads = 3
    Graphs <- MCGraphs
    Counts = 2
    MaxGraphs = 2
    PausedAnyTime = FALSE
INVARIANTS
    TypeOK
    InputsReady
    Src1Ready
    ChunkIsMine
    WorkersAreOut
    ReturnedGraphIsWhole
PROPERTY
    CallsEnd
