\* One request at a time against two workers, with two faults.
CONSTANTS
  Actions = {a1}
  Workers = {w1, w2}
  Handlers = {h1}
  None = None
  MaxJobs = 2
  MaxAttempts = 2
  MaxFaults = 2
SPECIFICATION Spec
SYMMETRY Symmetry
INVARIANTS
    QueueInv
    ExclusiveAttempt
PROPERTIES
    ImplementsDurableQueue
CHECK_DEADLOCK FALSE
