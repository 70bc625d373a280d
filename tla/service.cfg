SPECIFICATION ServiceSpec
CONSTANTS
    e1 = e1
    e2 = e2
    e3 = e3
    e4 = e4
    s1 = s1
    s2 = s2
    a = a
    b = b
    c = c
    d = d
    c1 = c1
    c2 = c2
    f = f
    g = g
    h = h
    x = x
    y = y
    z = z
    k1 = k1
    i1 = i1
    Entries = {e1, e2, e3, e4}
    Symbols = {s1, s2}
    Indexed = {s1, s2}
    About <- MCAbout
    GateBatch = 2
    SyncBatch = 2
    StatsLimit = 2
    RerankAt = 1
    BuildAt = 2
    MaxBuilds = 2
    MaxCount = 2
    Submitted <- MCSubmitted
    Askers = {a, b}
    Gaters = {c, d}
    CallTime = 2
    Patience = 2
    Yield = 3
    Runs = {c1, c2}
    Containers <- MCContainers
    Weaviate = b
    RecreateAt = 2
    WipeAt = 3
    MaxFailures = 3
    FailsIn <- MCFailsIn
    Callers = {c1, c2}
    TtlOf <- MCTtlOf
    MaxGen = 1
    MaxVersion = 1
    CallersIn <- MCCallersIn
    Ids = {a, b}
    MaxOut = 2
    Visitors = {c1, c2}
    Retries = 2
    MaxBoots = 2
    Cases <- MCCases
    Files = {f, g, h}
    NameIn <- MCNameIn
    Contents <- MCContents
    First <- MCFirst
    CommitsIn <- MCCommitsIn
    IdOf <- MCIdOf
    KindOf <- MCKindOf
    FileOf <- MCFileOf
    DirOf <- MCDirOf
    Imports <- MCImports
    Says <- MCSays
    Opaque = {s2, e3}
    Layouts <- MCLayouts
    Order <- MCOrder
    HubLimit = 1
    Takers = {c1, c2}
    Identities = {k1}
    Shapes <- MCShapes
    Cost = 2
    SweepAfter = 2
    MaxTime = 3
    Clients = {i1}
    LimitOf <- MCLimitOf
    Window = 2
    MaxAttempts = 1
    Lockout = 3
    NegativeFor = 2
    MaxClock = 4
    Paths = {f, g}
    Names = {x, y, z}
    Within <- MCWithin
    Alike <- MCAlike
    Masters <- MCMasters
    HitLimit = 2
    GoneLimit = 1
    Overfetch = 2
    MaxSymbols = 3
    MaxEdits = 4
    Nodes = {a, b, c, d}
    Root = a
    Goal = c
    TestNodes = {b, d}
    Shared = {d}
    Hoods = 4
    Depths <- MCDepths
    GodAt = 1
    MaxEdges = 4
    MaxUses = 2
    Factors = {4, 7, 10}
    Above <- MCAbove
INVARIANTS
    AppliedOnce
    TraverseExact
    RiskIgnoresTests
    ReachesNested
    TestsExact
    SccsExact
    MemoryCoversNeo4j
    HitsServedGeneration
    GitAnswersFresh
    RowsOfHead
    NoPhantomEdges
    GraphOfSnapshot
    BucketBound
    WindowBound
    KeyAnswers
    
    ScipKeepsCallees
    AnnouncedOnce
PROPERTIES
    ConsumedFinal
    NoEdgeLost
    DecisionsFirst
    HealingEarned
CHECK_DEADLOCK FALSE
