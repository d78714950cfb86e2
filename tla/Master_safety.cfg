CONSTANTS
  Masters = {m1, m2}
  First = m1
  Pids = {p1, p2, p3, p4}
  None = None
  InitWorkers = 2
  MaxWorkers = 3
  MaxSignals = 4
  Signals = {"INT", "QUIT", "TTIN", "TTOU", "USR1", "USR2", "EARLY"}
  Crashes = TRUE
SPECIFICATION FairSpec
INVARIANTS
  WorkersTracked
PROPERTIES
  NoStrandedWorker
  QuitReachesLiving
  RestoreCompletes
  QuitEnds
