SPECIFICATION FairSpec
CONSTANTS
  Texts <- MCTexts
  Values <- MCValues
  Height <- MCHeight
  Inputs <- MCInputs
  Budgets <- MCBudgets
  MaxValueDepth = 2
INVARIANTS
  TypeOK
  CopyIsExact
  AcceptsWhatFits
  StackWithinBudget
PROPERTY AlwaysReturns
CHECK_DEADLOCK FALSE
