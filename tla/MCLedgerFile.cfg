SPECIFICATION Spec
CONSTANTS
  Procs = {p, q}
  Garbage = Garbage
  Trades <- MCTrades
  Requests <- MCRequests
  History <- MCHistory
  MaxLines = 7
CHECK_DEADLOCK FALSE
INVARIANTS
  TypeOK
  NothingLostSilently
  MemoryIsPast
  OneIntentIfItLoads
PROPERTIES
  RefusalIsFinal
