SPECIFICATION Spec
CONSTANTS
  Trades <- MCTrades
  Auths <- MCAuths
  TradeOf <- MCTradeOf
  Reservations <- MCReservations
  AuthOf <- MCAuthOf
  Risks <- MCRisks
  Lifetimes <- MCLifetimes
  Cap = 3
  MaxAge = 1
  MaxTime = 3
CHECK_DEADLOCK FALSE
INVARIANTS
  TypeOK
  ExecutedUnderAuthority
  HeldWhileExposed
  ReservedWithinAuthorized
  PromptWithinCap
