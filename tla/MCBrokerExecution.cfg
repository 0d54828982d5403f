SPECIFICATION FairSpec
CONSTANTS
  Trades <- MCTrades
  Volume <- MCVolume
INVARIANTS
  TypeOK
  SendOnce
  IntentBeforeSend
  VerdictIsSound
PROPERTIES
  RecoveryResolves
CHECK_DEADLOCK FALSE
