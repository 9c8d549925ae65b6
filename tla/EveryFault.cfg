SPECIFICATION Spec
CONSTANTS
  Orders = {o1}
  Readers = {r1}
  Outcomes = {"ok", "error", "lost"}
  Sends = 4
  MaxRepeats = 1
  MaxLate = 1
  Simulations = {TRUE, FALSE}
  Events = {"stop", "crash", "timeout"}
  WorkerMaxAttempts = 2
  NoJob = NoJob
INVARIANTS
  TypeOK
  ShipsOnlyPaid
  RefusedStaysRefused
  FulfilledWasShipped
  
PROPERTY VerdictStands
