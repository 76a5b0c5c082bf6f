SPECIFICATION FairSpec
CONSTANTS
    TABLES <- MCTables
    RawKeys <- MCRaw
    Keys <- MCKeys
    NoKey = "none"
    Norm <- MCNorm
    Schemas <- MCSchemas
    Sources <- MCSources
    BATCH_SIZE = 1
    POCKETBASE_PAGE_SIZE = 1
    MaxRuns = 2
    MaxFaults = 2
    MaxEdits = 1
INVARIANTS
    TypeOK
    ParentsFirst
    LinksAreRight
    KeyOrLink
    MigratedWhole
PROPERTIES
    TwinsComeOfDoubt
    RunEnds
