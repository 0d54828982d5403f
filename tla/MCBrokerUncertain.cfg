SPECIFICATION Spec
CONSTANTS
  Trades <- MCTrades
  Volume <- MCVolume
PROPERTIES
  UncertaintyBlocksNewRisk
