SPECIFICATION Spec
CONSTANTS
    p1 = p1  p2 = p2  d1 = d1  d2 = d2  r1 = r1  r2 = r2
    \* search
    Listings = {l1, l2}
    Seeded = {l1}
    Workers <- MCActors
    None = None
    Idents <- MCIdents
    Kinds <- MCKinds
    MaxVersion = 1
    MaxIndex = 2
    MaxEvents = 3
    CallsMayFail = TRUE
    CallsMayBeLost = TRUE
    MayRestart = TRUE
    RebuildsOverlap = FALSE
    \* ingestion
    Docs = {d1, d2}
    Sources <- MCSources
    SourceOf <- MCSourceOf
    SeedDocs = {d1}
    Blanks <- MCBlanks
    Replicas <- MCReplicas
    Runs <- MCActors
    NoRun = None
    Options <- MCOptions
    MaxContent = 1
    RunsMayFail = TRUE
    RunsMayDie = TRUE
    \* chat
    Slots <- MCActors
    MemorySpan = 4
    SummaryEvery = 4
    MaxMessages = 20
    MaxOverlap = 6
    MaxStatements = 2
    StoreMayFail = TRUE
    ClientsMayLeave = TRUE
    \* accounts
    MaxUsers = 3
    Handlers <- MCActors
    Roles <- MCRoles
    MaxRequests = 4
    QueriesMayFail = TRUE
    \* agent
    Markets <- MCMarkets
    Wishes <- MCWishes
    MaxTurns = 2
    MaxPlanned = 2
    CallsMayBreak = TRUE
    \* query
    Homes <- MCHomes
    Papers <- MCPapers
    Queries <- MCQueries
    PriceInterval = 2
    YearLength = 2
    Callers <- MCActors
    MaxWrites = 1
    MaxAsks = 2
    CacheMayFail = TRUE
    IndexMayFail = TRUE
    \* catalogue
    Developers <- MCActors
    Areas = {a1}
    Compounds = {c1}
    Units = {h1}
    Clerks <- MCActors
    Blank = None
    Patches <- MCPatches
    MaxEdits = 3
    EditsMayFail = TRUE
SYMMETRY Symmetry
CONSTRAINT FewChanges
INVARIANTS
    TypesOK
    WhatSucceededIsStored
    SignedInAsStored
    ToolsAreHonest
    AnswersAddUp CachedIsCurrent
    CatalogueHolds
PROPERTIES
    NeverVanishes ReindexHeals
    CorpusMovesForward
    ThreadRemembers
    RemovedStaysRemoved LinksWorkOnce
CHECK_DEADLOCK FALSE
