SPECIFICATION FairSpec
CONSTANTS
  t1 = t1
  t2 = t2
  t3 = t3
  Root = Root
  Runner = Runner
  Tasks <- MCTasks
  Background <- MCBackground
  Cancellable = {}
  MaxCalls <- MCCalls
  Handles <- MCHandles
  MaxAwaits = 2
  Chained <- MCChained
CHECK_DEADLOCK FALSE
INVARIANTS
  OneExecution
  NoLostAwaiter
  AwaitedOutcome
  BusyBalanced
PROPERTIES
  AwaitEnds
