SPECIFICATION FairSpec
CONSTANTS
    Params <- MCParams
    Starts = {1}
    Ends = {1, 7}
    MaxDecoders = 2
    MaxTs = 3
    MaxInitialTs = 1
    DeltaMin = 1
    NearEnd = 3
    EntropyLen = 3
    TextCtx = 16
    InitTokens = 3
    TokenBeg = 50
    MaxCalls = 2
INVARIANTS
    SegmentsInOrder
    ContextFits
PROPERTY
    CallReturns
