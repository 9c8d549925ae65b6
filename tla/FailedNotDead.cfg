SPECIFICATION Spec
CONSTANTS
  Orders = {o1}
  Readers = {}
  Outcomes = {"ok", "error"}
  Sends = 4
  MaxRepeats = 0
  MaxLate = 0
  Simulations = {TRUE}
  Events = {}
  WorkerMaxAttempts = 2
  NoJob = NoJob
INVARIANT FailedIsDead
CHECK_DEADLOCK FALSE
