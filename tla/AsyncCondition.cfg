SPECIFICATION FairSpec
CONSTANTS
  t1 = t1
  t2 = t2
  t3 = t3
  Root = Root
  Runner = Runner
  Tasks <- MCTasks
  Background <- MCBackground
  Cancellable <- MCCancellable
  MaxCalls <- MCCalls
CHECK_DEADLOCK FALSE
INVARIANTS
  OnePlace
  CleanEnd
  BroadcastCount
PROPERTIES
  OutcomeStable
  WakeOrder
  ClosedReleases
