SPECIFICATION SumSpec
SYMMETRY Symmetry
CONSTANTS
    Subs = {s1, s2}
    Handlers = {h1, h2}
    Callers = {c1, c2}
    None = None
    PaidPlans = {"growth"}
    Limits <- SmallLimits
    Kinds = {"ai"}
    TokenCounts = {2}
    MaxEvents = 4
    MaxCalls = 3
    FaultKinds = {"disorder", "double", "unavailable", "crash"}
    MaxFaults = 1
    x1 = x1
    Editors = {h1, h2}
    Drafts = {d1}
    Bodies = {"good", "poor"}
    Headings = {"brief", "own"}
    BriefHeading = "brief"
    Good <- GoodTexts
    MaxVersion = 2
    Scans = {c1, c2}
    Prompts = {p1}
    GapTypes = {"brand_mention_gap", "citation_gap"}
    Scanners = {h1, h2}
    MaxScanFailures = 1
    Holders = {"w1", "w2"}
    InstallIntents = {c1, c2}
    Provided = {s1, s2}
    Repos = {r1, r2}
    TenantOf <- SiteTenants
    Connectors = {h1, h2}
INVARIANTS
    PlanFollowsStripe
    BillingInv
    DraftInv
    ScanInv
    InstallationInv
CHECK_DEADLOCK FALSE
