SPECIFICATION PartsSpec
CONSTANTS
    Clients = {c1, c2, c3}
    Attempts = {a1, a2}
    Free = 1
    BaseDelay = 1
    MaxDelay = 2
    Forget = 2
    MaxClients = 2
    AlertAfter = 2
    Cooldown = 1
    MaxExponent = 1
    MaxHeld = 2
    Nobody = Nobody
    Trays = {t1}
    Hubs = {h1, h2}
    NoHub = NoHub
    ChoiceIds = {0, 1}
    Name <- TheTag
    Chars = {"<", "/", ">", "t", "x", " "}
    NameChars = {"t", "x"}
    Chunks <- SomeChunks
    MaxChunks = 3
    TokenValues = {k1, k2}
    NoToken = NoToken
    PageOrigins = {o1}
    NoOrigin = NoOrigin
    Visits = {"pc", "mobile"}
    DeviceOf <- OneOfEach
    Views = {"v"}
    NoView = "none"
    DayTicks = 2
    SentKinds = {"session_start", "view", "session_end"}
    IdleGap = 1
    MaxInterval = 2
    MaxAge = 3
    MaxRows = 3
    MaxBatch = 2
    MaxEvents = 4
    MaxClock = 4
    RatchetCases <- SomeCases
    MaxDebt = 2
    MaxOther = 1
    SizeLimit = 1
    RepoPaths = {"board", "chat", "icon", "sheet", "module", "script", "toml"}
    MapFile = "toml"
    Router = "script"
    TestModule = "module"
    SharedSheet = "sheet"
    AddedPaths = {"chat"}
    MapOf <- SomeMaps
    SheetRules = {"rb", "rc", "rw"}
    SelectorsOf <- SomeSelectors
    Wide = "wide"
    MaxChanges = 2
    InstallRuns = {i1, i2}
    Archives = 2
    Shards = {"s1", "s2", "s3"}
    FirstShard = "s1"
    MaxInstalls = 3
INVARIANTS
    LockoutTypeOK
    AlertsAccounted
    TrayTypeOK
    RestartIsReal
    QuitLeavesNoHub
    StreamAsWhole
    HeldBackLittle
    AnswersReadable
    OneBoundary
    SettingsSurvive
    ReportFollowsRules
    RetentionTakesOldest
    NothingGrowsUnseen
    NarrowRunCovers
    NarrowsByReviewedMap
    NoArchiveLeft
    PresentIsWhole
PROPERTIES
    WaitStands
    NeverLockedForGood
CHECK_DEADLOCK FALSE
