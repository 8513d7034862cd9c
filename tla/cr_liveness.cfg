SPECIFICATION FairSpec
CONSTANTS
    Sites = {s1}
    Workers = {w1, w2}
    None = None
    Urls = {u1}
    PageCounts = {1}
    Limit = 4
    MaxJobs = 1
    MaxAttempts = 2
    MaxReopens = 1
    FaultKinds = {"crash", "stall", "error", "throttle"}
    MaxFaults = 1
PROPERTIES
    CrawlsEnd
CHECK_DEADLOCK FALSE
