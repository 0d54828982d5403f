SPECIFICATION Spec
CONSTANTS
  Tokens <- MCTokens
  Trades <- MCTrades
  Requests <- MCRequests
  Checks <- MCChecks
INVARIANTS
  TypeOK
  AlwaysLoadable
  MemoryIsReplay
PROPERTIES
  ImplementsLifecycle
