SPECIFICATION Spec
CONSTANTS
  MaxTradesPerDay = 2
  ConsecutiveHalt = 2
  HaltCooldownBars = 2
  LossLimit = 2
  MaxPositions = 1
  LastDay = 1
  MaxDown = 2
  MaxUp = 1
  MaxDeals = 2
  MaxLate = 1
  MaxLosses = 3
  None = None
CHECK_DEADLOCK FALSE
INVARIANTS TypeOK DailyLimit
PROPERTIES DailyLossHolds HaltHolds
