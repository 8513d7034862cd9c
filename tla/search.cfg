SPECIFICATION Spec
CONSTANTS
    Null = Null
    Properties = {p1, p2}
    Covering = {p1}
    Calls = {c1, c2}
    Clerk = c1
    Kinds = {"sync", "inspection"}
    Workers = {w1, w2}
    MaxAttempts = 2
    Urls = 2
    MaxJobs = 2
    MaxStates = 2
    MaxInterruptions = 1
    MaxFaults = 1
INVARIANTS
    SearchInv
PROPERTIES
    MetricsAreTheHolders
    JobsEnd
    JobsAreQueued
CHECK_DEADLOCK FALSE
