SPECIFICATION SumSpec
SYMMETRY Symmetry
CONSTANTS
    Sites = {s1}
    Workers = {w1, w2}
    None = None
    Urls = {u1, u2}
    PageCounts = {1, 2}
    Limit = 4
    MaxJobs = 1
    MaxAttempts = 2
    MaxReopens = 1
    FaultKinds = {"crash", "stall", "error"}
    MaxFaults = 1
    Findings = {1, 2}
    Patchable = {1, 2}
    Mode <- SomeModes
    Branches = {b1, b2}
    Shas = {s1}
    PlanLimit = 1
    Refreshers = {r1}
    MaxRegressions = 1
    MaxMoves = 1
    MaxDecisions = 2
    MaxCrossings = 1
    MaxInterruptions = 1
    Paths = {"/", "/a"}
    Home = "/"
    PageFacts <- BoundaryPages
    Artifacts <- SomeArtifacts
    Files = {"f1", "f2", "f3"}
    Place <- SomePlaces
    Sources <- SomeSources
    MaxSourceFiles = 2
    MaxPushes = 1
    Texts <- BoundaryTexts
    Risks = {0, 29, 30, 69, 70, 89, 90}
    AffectedPages = {0, 19, 20, 99, 100}
INVARIANTS
    ReadyPlansAreExact
    PatchesAnswerFindings
    PolicyIsStrict
PROPERTIES
    CrawlSafety
    FindingSafety
    ActiveFindingsAreGoverned
CHECK_DEADLOCK FALSE
