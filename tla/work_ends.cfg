SPECIFICATION SumSpec
CONSTANTS
    MaxAttempts = 2
    HumanActs = {"base", "push", "amend", "open", "close", "reopen", "ready", "merge", "delete", "deny", "disconnect"}
    MaxActs = 3
    FaultKinds = {"crash", "unavailable", "lost", "error"}
    MaxFaults = 2
    RunSites = {s1, s2}
    MaxRuns = 2
    MaxCrawls = 2
    Analysts = {a1, a2}
    ReconcileLimit = 2
    MaxResumes = 1
    MaxStops = 1
    MaxOvertakes = 1
INVARIANTS
    RecordedCommitIsGoverned
    UndisturbedNeverFails
    RollbackLeavesNothing
PROPERTIES
    ActionJobsEnd
    LinkedRunsEnd
    RunsEndOnce
CHECK_DEADLOCK FALSE
