SPECIFICATION Spec
CONSTANTS
  EAs <- MCCharts
  Auths <- MCAuths
  ChartsOf <- MCChartsOf
  MaxSends = 2
INVARIANTS
  TypeOK
  SingleAttemptAlone
PROPERTIES
  SettledForEver
