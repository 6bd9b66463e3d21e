SPECIFICATION MarketSpec
CONSTANTS
    p1 = p1  p2 = p2  f1 = f1  f2 = f2
    \* leads
    Leads = {l1}
    Properties = {h}
    Users = {a1}
    Handlers <- MCPair
    None = None
    Null = Null
    Asked <- Shortcuts
    RoleChanges = TRUE
    MayFail = TRUE
    \* limits
    MaxHits = 3
    Limit = 1
    Window = 3
    MaxTime = 4
    MaxDelay = 1
    RedisMayFail = TRUE
    \* finance
    Prices = {1, 2, 7, 18, 60, 100, 301}
    Percents = {0, 10, 50, 99}
    Rates = {0, 1, 3, 9}
    Terms = {1, 2, 3, 4}
    Parts = 10
    \* web
    Props <- MCProps
    People <- MCPair
    NoOne = None
    Calls <- MCPair
    MaxActions = 3
    CallsBreak = TRUE
    \* queries
    Watched = {"saved-searches", "search"}
    Visitors <- MCPair
    Stranger = None
    MaxChanges = 2
    AnswersBreak = TRUE
    \* chat
    MaxQuestions = 2
    MaxClicks = 3
    Pieces = 1
    StreamsBreak = TRUE
    \* page
    Types = {"apartment", "villa"}
    PagesFound <- MCFound
    Addresses <- MCAddresses
    MaxActs = 4
    \* retrieval
    d1 = d1  d2 = d2  d3 = d3
    Loaded <- MCLoaded
    Missing = Missing
    Facts <- MCFacts
    Queried <- MCQuestions
    Words <- MCWords
    BatchSize = 2
    Concurrency = 2
    MaxTries = 2
    TopK = 2
    TopN = 2
    Damping = 60
    MaxVersions <- MCVersions
    MaxSearches = 1
    ProvidersFail = TRUE
SYMMETRY Symmetry
INVARIANTS
    MarketTypesOK
    ContactKnown
    PrincipalIsRepaid LastPaymentIsClose
    FavouritesSettle
    FreshIsTrue
    ChatHolds
    PageAgrees
    RetrievalHolds
    VectorsFollowTexts
PROPERTIES
    
    LegalMoves
    RefreshKeepsPerson
    DraftLosesNothing
CHECK_DEADLOCK FALSE
