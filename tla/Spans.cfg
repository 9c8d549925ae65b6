SPECIFICATION FairSpec
CONSTANTS
  plain = plain
  rich = rich
  huge = huge
  unsampled = unsampled
  Spans <- MCSpans
  Content <- MCContent
  Borrowed = {rich}
  Reused <- MCReused
  Sampled = {plain, rich, huge}
  Fitting = {plain, rich, unsampled}
  SafeKeys = {"status", "stage", "http.route", "type"}
  MaxValue = 256
  MaxQueue = 1
  MaxBatch = 2
  Closers = {c1, c2}
INVARIANTS
  TypeOK
  CollectorSeesOnlyAdmitted
  DrainLeavesNothing
PROPERTIES
  EndNeverBlocks
  ShutdownReturns
CHECK_DEADLOCK FALSE
