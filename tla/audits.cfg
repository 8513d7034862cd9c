SPECIFICATION AuditSpec
CONSTANTS
    Visits = {v1, v2}
    Tasks = {k1, k2}
    NoAudit = NoAudit
    DailyLimit = 2
    Pages <- SmallPages
    MaxAudits = 2
    MaxOverlaps = 1
    MaxRestarts = 1
INVARIANTS
    AuditInv
PROPERTIES
    AuditsEnd
CHECK_DEADLOCK FALSE
