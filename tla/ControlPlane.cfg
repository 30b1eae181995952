CONSTANTS
    Parts = {"ingest", "policed", "pool", "pair", "submit", "market", "catalog", "starter", "call", "calls", "staff", "keys", "agents", "templates", "deps", "install", "mcp", "granting", "outside", "teams", "tasks", "letters", "restarts", "convert", "stream", "library", "colons", "folders", "chunks", "store", "journals", "post", "supply", "talk", "minds", "groups"}
    e1 = e1
    r1 = r1
    p1 = p1
    p2 = p2
    k1 = k1
    k2 = k2
    w1 = w1
    w2 = w2
    u1 = u1
    s1 = s1
    s2 = s2
    s3 = s3
    s4 = s4
    q1 = q1
    q2 = q2
    root = root
    org = org
    x1 = x1
    t1 = t1
    f1 = f1
    f2 = f2
    a1 = a1
    a2 = a2
    Void = Void
    None = None
    PolicyIds = {p1, p2}
    PolicyRows <- MCPolicyRows
    DefaultPolicies <- MCDefaultPolicies
    Engines = {e1}
    RunIds = {r1}
    RunEngine <- MCRunEngine
    StepKinds = {"tool_call"}
    StepContexts <- MCStepContexts
    EndTexts <- MCEndTexts
    MaxTokens = 2
    Tasks = {k1, k2}
    Workers = {w1, w2}
    Identity <- MCIdentity
    Submitters = {u1}
    CreateLimit = 1
    Priorities = {0}
    SetByHand = {"approved", "pending", "in_progress"}
    Nobody = None
    AccountIds = {0, 1}
    OrgIds = {org}
    LoginNames = {"root"}
    Subs = {x1}
    KeyIds = {f1}
    Tokens = {t1}
    ScopeSets <- MCScopeSets
    Window = 1
    DefaultOrg = None
    Root = root
    NoOrg = None
    NoSub = None
    NoLogin = None
    AdminToken = admin
    AgentIds = {a1, a2}
    LegacyAgents = {a1}
    People = {u1}
    AgentKeyIds = {f1, f2}
    TemplateIds = {"tpl"}
    Texts = {"written"}
    Releases <- MCReleases
    RouteAliases = 0
    Admin = admin
    NoTemplate = None
    NoKey = None
    NoText = None
    Callers = {a1}
    Roles = {"role"}
    Paths = {"a/b", "c/d"}
    Approved = {"c/d"}
    IdOf <- MCIdOf
    SystemIds = {"deploy"}
    ExternalIds = {"ext"}
    Deployer = "deploy"
    Dims = {"dim"}
    Values = {x1}
    ServiceStatuses = {"online", "offline"}
    Sources = {"internal", "external"}
    Deployed = {"a_b", "ext"}
    Codes = {1, 2}
    Times = {1}
    ShopCodes = {1}
    MaxReviews = 1
    NoPath = None
    All = Void
    SourceIds = {p1, p2, "native"}
    Spaces = {"space", "other"}
    Folders = {"f1", "f2"}
    Addresses <- MCAddresses
    DocOf <- MCDocOf
    NativeOf <- MCNativeOf
    Contents = {1, 2}
    Pages <- MCPages
    MaxChars = 6
    NoPlace = None
    Skills = {s1, s2, s3, s4}
    Authored = {s1, s2, s3, s4}
    Starters = {s4}
    External = {s3, s4}
    Reviewed = {s3, s4}
    Bundles <- MCBundles
    SkillIds = {s1, s2, s3}
    Holders = {a1}
    Versions = {1}
    DepSets <- MCDepSets
    Places = {"remote"}
    MaxDepth = 10
    Absent = None
    Unversioned = Void
    MaxRuns = 4
    MaxTexts = 2
    Sizes = {1, 2}
    Seconds = {0, 1}
    TriggerLimit = 3
    HistoryRounds = 2
    Budget = 2
    EventLimit = 5
    Watched = {2}
    MaxVersion = 2
    MaxEdits = 1
    RouteIds = {g1}
    RouteRows <- MCRouteRows
    Models = {"m1"}
    ModelRows <- MCModelRows
    LiteLLM = TRUE
    MaxHops = 1
    Unset = None
    Requests = {q1, q2}
    Names = {"best"}
    Kinds <- MCKinds
    MaxRetries = 1
    MaxAttempts = 3
    Items <- MCItems
    MaxItems = 4
    MaxLines = 5
    MaxUpstreams = 2
    RetryOn = {"429", "503", "timeout", "connection_error"}
    FallbackOn = {"404", "429", "503", "timeout", "connection_error"}
    BurstLimit = 1
    TokenLimit = 1
    MaxAgents = 3
    MaxTeams = 3
    MaxTasks = 1
    Initial = 1
    LastStand = 1
    MaxBalance = 2
    CostStay = 1
    TopRatio = 50
    Rewards <- MCRewards
    Gifts = {1}
    Interval = 1
    LoyaltyMax = 1
    LoyaltyDelta <- MCLoyalty
    Chores = {"belief", "write", "wisdom", "decision", "skill"}
    MaxLetters = 1
    MaxLore = 1
    NoTeam = None
    ArenaAgents = {a1, a2, u1}
    TaskNames = {"t1", "t2"}
    MaxChanges = 3
    MaxRecords = 3
    MaxPost = 4
    NoRecord = None
    Seeds = {"seed", "easy"}
    Easy = {"easy"}
    Invented = {"i1", "i2"}
    Alike <- MCAlike
    MinPool = 1
    MaxAvailable = 2
    Batch = 1
    NoOffer = None
SPECIFICATION MCSpec
INVARIANTS TypesOK  ForbiddenIsNotLogged ClaimsExclude  DepsResolve OneAnswer IdentitiesHold    KnowledgeAgrees ConversationsHold
CHECK_DEADLOCK FALSE
