\* Leases and jobs come to an end: one request at a time, one worker, one fault.
CONSTANTS
  Actions = {a1}
  Workers = {w1}
  Handlers = {h1}
  None = None
  MaxJobs = 2
  MaxAttempts = 2
  MaxFaults = 1
SPECIFICATION FairSpec
PROPERTIES
    QueueDrains
CHECK_DEADLOCK FALSE
