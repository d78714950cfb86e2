CONSTANTS
  Masters = {m1}
  First = m1
  Pids = {p1, p2, p3, p4}
  None = None
  InitWorkers = 2
  MaxWorkers = 3
  MaxSignals = 3
  Signals = {"QUIT"}
  Crashes = TRUE
SPECIFICATION Spec
PROPERTY QuitReachesAll
