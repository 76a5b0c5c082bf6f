SPECIFICATION Spec
CONSTANTS
    Alignment = 2
    MaxChunkSize = 6
    MaxChunks = 2
    MaxFreeBlocks = 2
    Endless = 40
    Buffers = 2
    Graphs <- MCGraphs
    Again <- MCAgain
    MaxGraphs = 2
    MaxFailures = 2
INVARIANTS
    TypeOK
    BytesAreCounted
    LastChunkSuffices
    ValuesSurvive
    CrashNeedsRefusal
