CONSTANTS
  Req = {r1, r2}
  None = None
  AppOps = {"body", "send", "sleep", "die"}
  EnvOps = {"stall", "eof", "break", "time"}
  StdinPollable = TRUE
  MaxQuits = 2
  FullEvery = 2
  Timeout = 0
  AcceptBurst = 1
SPECIFICATION Spec
SYMMETRY Symmetry
INVARIANTS
  MapTracksOpen
  NoLostInput
  WakesAreForSleepers
  QuitLosesNothing
PROPERTIES
  WorkerSurvives
  SweepSparesSleepers
  ImplementsService
