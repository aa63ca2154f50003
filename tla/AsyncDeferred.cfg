SPECIFICATION MCSpec
CONSTANTS
  t1 = t1
  t2 = t2
  d1 = d1
  c1 = c1
  x1 = x1
  x2 = x2
  u1 = u1
  Root = Root
  Runner = Runner
  Tasks <- MCTasks
  Background <- MCBackground
  Cancellable <- MCCancellable
  MaxCalls <- MCCalls
  Plain <- MCPlain
  Combined <- MCCombined
  Transformed <- MCTransformed
  Outside <- MCOutside
  Inputs <- MCInputs
  Source <- MCSource
  Handled <- MCHandled
CHECK_DEADLOCK FALSE
INVARIANTS
  SettledOnce
  NobodyLeft
  CombineSound
  HandlersPending
PROPERTIES
  SettledReleases
