SPECIFICATION Spec
CONSTANTS
  Orders = {o1}
  Readers = {}
  Outcomes = {"ok", "lost"}
  Sends = 4
  MaxRepeats = 0
  MaxLate = 0
  Simulations = {FALSE}
  Events = {}
  WorkerMaxAttempts = 2
  NoJob = NoJob
INVARIANT ErrorIsNotFulfilled
CHECK_DEADLOCK FALSE
