SPECIFICATION Spec
CONSTANTS
  Orders = {o1}
  Readers = {}
  Outcomes = {"ok"}
  Sends = 4
  MaxRepeats = 0
  MaxLate = 0
  Simulations = {FALSE}
  Events = {"timeout"}
  WorkerMaxAttempts = 2
  NoJob = NoJob
INVARIANT RefusedIsFailed
CHECK_DEADLOCK FALSE
