SPECIFICATION FairSpec
CONSTANTS
  p1 = p1
  p2 = p2
  p3 = p3
  Procs <- MCProcs
  MaxCalls <- MCCalls
  Amounts <- MCAmounts
  Nesting = {}
  Careless = {}
  AutoUnlock <- MCProcs
CHECK_DEADLOCK FALSE
INVARIANTS
  Exclusion
  ReadersCounted
  NoSleeperForgotten
PROPERTIES
  NoOvertaking
  CallsReturn
