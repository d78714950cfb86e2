CONSTANTS
  Req = {r1, r2}
  None = None
  AppOps = {"sleep"}
  EnvOps = {}
  StdinPollable = TRUE
  MaxQuits = 0
  FullEvery = 3
  Timeout = 0
  AcceptBurst = 1
SPECIFICATION Spec
SYMMETRY Symmetry
INVARIANT NoLostWakeup
