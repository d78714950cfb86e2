CONSTANTS
  Room = 2
  MaxUpdates = 1
SPECIFICATION Spec
INVARIANT ErrorOnlyLogged
