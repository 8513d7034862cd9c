\* Two racing requests against one worker.
CONSTANTS
  Actions = {a1}
  Workers = {w1}
  Handlers = {h1, h2}
  None = None
  MaxJobs = 4
  MaxAttempts = 1
  MaxFaults = 0
SPECIFICATION Spec
SYMMETRY Symmetry
INVARIANTS
    GovernedEffect
    HistoryInOrder
PROPERTIES
    EndedJobsStayEnded
CHECK_DEADLOCK FALSE
