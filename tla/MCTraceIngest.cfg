SPECIFICATION IngestSpec
CONSTANTS
  Records <- MCRecords
  Others <- MCOthers
  History <- MCHistory
  Upper <- MCUpper
  MaxTrace = 4
INVARIANTS
  PreflightSuffices
  TraceGrantsNothing
  LedgerHoldsABeginning
  PassesAgain
CHECK_DEADLOCK FALSE
