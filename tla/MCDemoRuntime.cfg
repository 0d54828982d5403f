SPECIFICATION RuntimeSpec
CONSTANTS
  t1 = t1
  t2 = t2
  e1 = e1
  Trades <- MCTrades
  Auths <- MCTrades
  Reservations <- MCTrades
  TradeOf <- MCTradeOf
  AuthOf <- MCTradeOf
  Risks = {1}
  Cap = 2
  Lifetimes = {1, 3}
  MaxAge = 0
  MaxTime = 2
  EAs = {e1}
  EaOf <- MCEaOf
  Request <- MCRequest
  RecordAge = 1
INVARIANT RuntimeTypeOK
PROPERTY PublishedWhole
PROPERTY RevocationTakesHold
PROPERTY BlockTakesHold
CHECK_DEADLOCK FALSE
