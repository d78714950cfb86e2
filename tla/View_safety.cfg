CONSTANTS
  Documents <- MCDocuments
  MaxPartials = 1
SPECIFICATION FairSpec
INVARIANTS
  InOrder
  Whole
  PauseSendsAll
PROPERTY EndCloses
