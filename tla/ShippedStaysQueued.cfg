SPECIFICATION FairSpec
CONSTANTS
  Orders = {o1}
  Readers = {}
  Outcomes = {"ok"}
  Sends = 4
  MaxRepeats = 0
  MaxLate = 0
  Simulations = {FALSE}
  Events = {}
  WorkerMaxAttempts = 2
  NoJob = NoJob
PROPERTY CreatedIsFulfilled
CHECK_DEADLOCK FALSE
