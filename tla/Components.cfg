CONSTANTS
    p1 = p1
    p2 = p2
    w1 = w1
    w2 = w2
    HEvaluators = {p1, p2}
    HMaxTime = 3
    HStart = 1
    HStop = 2
    HMaxFaults = 1
    EvReporters = {p1, p2}
    EvCountTTL = 2
    EvMaxClock = 2
    EvMaxReports = 5
    TMaxTime = 2
    TMinTrip = 1
    TOver = 1
    TIdle = 1
    TBrief = 0
    TMaxPackets = 3
    DDrivers = {p1, p2}
    DTags = {w1, w2}
    DNone = DNone
    DMaxTime = 2
    DMaxPackets = 3
    DMaxEdits = 3
    FBase = 4
    FZeros = 2
    FBodies <- Bodies
    FNoise <- Noise
    FMaxSent = 3
    FTooLong = 4
    RPackets <- Packets
    RNow = 4
    RMaxFuture = 1
    RMaxPast = 2
    RMaxSpeed = 5
    RMaxSends = 4
    WClients = {p1, p2}
    WAllowed = {p1, p2}
    WMaxUpdates = 2
    BRequests = {q}
    BMaxVersion = 2
    BMoving = {2}
    BMaxQueue = 1
    NTitles = {"insurance"}
    NPolls = {p1, p2}
    NDispatchers = {w1, w2}
    NMaxRows = 2
    NMaxRetries = 1
    YNotices = {p1, p2, n3}
    YHistory = 1
    YPage = 1
    YMaxSyncs = 2
    GFilters <- Filters
    GOpen <- Open
    GPerPage = 1
    GMaxEvents = 3
    XVehicles = {x}
    XMaxPackets = 2
    PMaxPackets = 4
    PFrom = 2
    PSteps = {1, 5}
    PJump = 5
    PMinTrip = 1
    ARequests = {p1, p2}
    AVehicles = {w1, w2}
    AEmails = {w1, w2}
    AParents = {"main", "company"}
    AMain = {"main"}
    ALimits = {0, 1}
    UUsers = {a, b, c}
    UGhost = g
    UVehicles = {v}
    MRequests = {p1, p2}
    MMaxServices = 2
    MSoon = 0
    MMaxNow = 2
    LWorkers = {p1, p2}
    LLimit = 1
    LPeriod = 3
    LMaxClock = 5
    KDocuments = {w1, w2}
    KWorkers = {p1, p2}
    KRequests = {p1, p2}
    KNone = KNone
    KMaxServed = 3
    QIntents = {"offline_vehicles"}
    QRequests = {p1, p2}
    QTTL = 2
    QMemoryTTL = 2
    QPatience = 1
    QMaxClock = 4
SPECIFICATION Spec
SYMMETRY Alike
CONSTRAINT Explored
CHECK_DEADLOCK FALSE
INVARIANTS TypeOK EvaluationsExclude OneEventPerCooldown TripsDisjoint OneDriverAtATime FramesArePackets TrackIsConsistent NoUpdateIsMissed  NoticesAreSettled OverrunIsBounded NothingCountedTwice FallbackIsNoOlder SubtreeIsComplete SearchedIsListed AnswersAreFresh MissedForAReason PagesLeaveNoGap WindowIsBounded ServiceMovesThePlan
PROPERTIES TransitionIsSustained
