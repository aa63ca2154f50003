SPECIFICATION MCSpec
CONSTANTS
  t1 = t1
  t2 = t2
  w1 = w1
  w2 = w2
  w3 = w3
  w4 = w4
  Root = Root
  Runner = Runner
  Tasks <- MCTasks
  Background <- MCBackground
  Cancellable <- MCCancellable
  MaxCalls <- MCCalls
  Watchers <- MCWatchers
  Kind <- MCKind
  OneShot = {}
  RefModulus = 256
  None = None
  Freed = Freed
CHECK_DEADLOCK FALSE
INVARIANTS
  HeldByForeground
  WaitersObserved
  NobodyForgotten
PROPERTIES
  OncePerEvent
  TimersReturn
