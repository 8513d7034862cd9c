SPECIFICATION Spec
CONSTANTS
    Sites = {s1, s2}
    Workers = {w1}
    None = None
    Urls = {u1, u2}
    PageCounts = {2}
    Limit = 3
    MaxJobs = 2
    MaxAttempts = 1
    MaxReopens = 1
    FaultKinds = {"crash"}
    MaxFaults = 1
SYMMETRY Symmetry
INVARIANTS
    CrawlsSettle
CHECK_DEADLOCK FALSE
