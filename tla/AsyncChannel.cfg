SPECIFICATION MCSpec
CONSTANTS
  t1 = t1
  t2 = t2
  c0 = c0
  c2 = c2
  Root = Root
  Runner = Runner
  Tasks <- MCTasks
  Background <- MCBackground
  Cancellable <- MCCancellable
  MaxCalls <- MCCalls
  Channels <- MCChannels
  Size <- MCSize
  NoChan = NoChan
CHECK_DEADLOCK FALSE
INVARIANTS
  TypeOK
  BusyExact
  NoStrandedPair
PROPERTIES
  ImplementsFifo
  BlockedReturn
