CONSTANTS
  Req = {r1, r2}
  None = None
  AppOps = {"body", "send"}
  EnvOps = {"stall", "steal"}
  StdinPollable = FALSE
  MaxQuits = 0
  FullEvery = 2
  Timeout = 0
  AcceptBurst = 1
SPECIFICATION FairSpec
PROPERTIES
  CompleteAnswered
  BacklogServed
