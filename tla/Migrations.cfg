SPECIFICATION FairSpec
CONSTANTS
  old = old
  new1 = new1
  new2 = new2
  Instances <- MCInstances
  Embedded <- MCEmbedded
  Count = 2
  Locking = {1}
  MaxFaults = 2
INVARIANTS
  TypeOK
  RecordedIffApplied
PROPERTIES
  KeepsPromise
  AllStart
CHECK_DEADLOCK FALSE
