SPECIFICATION Spec
CONSTANTS
    TABLES <- MCTables
    RawKeys <- MCRaw
    Keys <- MCKeys
    NoKey = "none"
    Norm <- MCNorm
    Schemas <- OwnSchemas
    Sources <- MCSources
    BATCH_SIZE = 1
    POCKETBASE_PAGE_SIZE = 1
    MaxRuns = 2
    MaxFaults = 0
    MaxEdits = 0
INVARIANT
    KeysAreKept
