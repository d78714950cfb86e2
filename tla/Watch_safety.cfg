CONSTANTS
  Req = {r1, r2, r3}
  None = None
  MaxFd = 5
  MaxOpens = 2
  StdinPollable = TRUE
SPECIFICATION Spec
SYMMETRY Symmetry
INVARIANTS
  
  NothingLeft
PROPERTY WokenSurvives
