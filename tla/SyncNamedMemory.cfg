SPECIFICATION Spec
CONSTANTS
  p1 = p1
  p2 = p2
  NoProc = NoProc
  Procs <- MCProcs
  MaxOpens = 2
CHECK_DEADLOCK FALSE
INVARIANTS
  OpenIsReady
