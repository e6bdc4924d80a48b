\* A seeder and a node that asks twice, two chunks, one fault of any kind; and
\* two threads that use the bandwidth governor.
SPECIFICATION MCSpec
CONSTANTS
    s = s
    t = t
    c1 = c1
    u = u
    v = v
    c2 = c2
    Nodes <- TwoNodes
    Holders <- SeederOnly
    Chunks <- TwoChunks
    Rates <- SomeRates
    MaxWants <- Wants
    MaxNet = 0
    MaxFaults = 1
    Callers <- TwoCallers
    Speeds <- SomeSpeeds
    Sizes = {1}
    Window = 2
    MaxNow = 3
    MaxCalls <- Calls
INVARIANTS
    TypeOK
    KnownSeedersAsked
    GovernorTypeOK
    OneBucketPerPeer
PROPERTIES
    CompletedFileIsThere
    AnswersAreGenuine
    SaturationIsExact
    WantedFilesArrive
CHECK_DEADLOCK FALSE
