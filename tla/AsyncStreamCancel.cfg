SPECIFICATION MCSpec
CONSTANTS
  t1 = t1
  t2 = t2
  Root = Root
  Runner = Runner
  None = None
  Tasks <- MCTasks
  Background <- MCBackground
  Cancellable <- MCWriterCancellable
  MaxCalls <- MCCalls
  May <- MCMay
  BufSize = 2
  Low = 1
  MaxBytes = 3
CHECK_DEADLOCK FALSE
INVARIANT
  NoSpuriousWake
