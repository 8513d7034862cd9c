SPECIFICATION Spec
CONSTANTS
    Windows = {1, 2}
    Lookback = 3
    Lag = 2
    Sync = sync
    Refreshers = {sync, operator}
    NotYet = NotYet
    LastDay = 5
    MaxSyncs = 2
    MaxOvertakings = 2
    SearchKeys = {k1, k2}
    InspectionKeys = {k3}
    Reconcilers = {r1, r2}
    Limit = 1
    MaxVersion = 4
    MaxCrossings = 1
    Queries = {q, none}
    NoQuery = none
    Pages = {p1, p2}
    NoPage = nopage
    Samples <- BoundarySamples
SYMMETRY Symmetry
INVARIANTS
    MeasurementInv
    SignalInv
PROPERTIES
    OpportunitySafety
CHECK_DEADLOCK FALSE
