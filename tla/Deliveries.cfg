SPECIFICATION FairSpec
CONSTANTS
  Orders = {o1}
  Readers = {r1}
  Outcomes = {"ok", "error", "lost"}
  Sends = 4
  MaxRepeats = 1
  MaxLate = 0
  Simulations = {TRUE, FALSE}
  Events = {"stop", "crash"}
  WorkerMaxAttempts = 2
  NoJob = NoJob
INVARIANTS
  JobsAccountedFor
  AttemptsCounted
  DeadLettersAreFailed
PROPERTIES
  DeliversAtMostOnce
  OnlyTheHeldIsLost
  QueueIsServed
  ShutdownEnds
  CacheConverges
