SPECIFICATION FairSpec
CONSTANTS
  Orders = {o1, o2}
  Readers = {r1}
  Outcomes = {"ok"}
  Sends = 4
  MaxRepeats = 0
  MaxLate = 0
  Simulations = {TRUE, FALSE}
  Events = {}
  WorkerMaxAttempts = 2
  NoJob = NoJob
INVARIANTS
  OnlyDoomedJobsDie
PROPERTIES
  CreatedIsSettled
  DoomedJobDies
