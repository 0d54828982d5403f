SPECIFICATION Spec
CONSTANTS
  Trades <- MCTrades
  Auths <- MCAuths
  TradeOf <- MCTradeOf
  Reservations <- MCOneReservation
  AuthOf <- MCAuthOfOne
  Risks <- MCRisks
  Lifetimes <- MCLifetimes
  Cap = 3
  MaxAge = 1
  MaxTime = 2
CHECK_DEADLOCK FALSE
INVARIANTS
  AggregateWithinCap
