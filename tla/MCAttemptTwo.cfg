SPECIFICATION Spec
CONSTANTS
  EAs <- MCCharts
  Auths <- MCAuths
  ChartsOf <- MCChartsOf
  MaxSends = 2
INVARIANT SingleAttempt
