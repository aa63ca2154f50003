SPECIFICATION GroupSpec
CONSTANTS
  t1 = t1
  t2 = t2
  c1 = c1
  c2 = c2
  Root = Root
  Runner = Runner
  Tasks <- MCTasks
  Background <- MCBackground
  Cancellable <- MCCancellable
  MaxCalls <- MCCalls
  NoChan = NoChan
  Channels = {c1, c2}
  Size <- MCSize
  Entries <- MCEntries
  Shuffled <- MCShuffled
CHECK_DEADLOCK FALSE
INVARIANTS
  ExactlyOnce
  NoGhostEntry
  SelectCanEnd
