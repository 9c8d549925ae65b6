SPECIFICATION Spec
CONSTANTS
  Texts <- MCTexts
  Lists <- MCLists
  Spans <- MCSpans
INVARIANTS
  CopyIsExact
  AcceptsWhatFits
  AllocatedIsPaid
CHECK_DEADLOCK FALSE
