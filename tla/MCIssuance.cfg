SPECIFICATION Spec
CONSTANTS
  g1 = g1  g2 = g2  p1 = p1  p2 = p2  p3 = p3  junk = junk
  a1 = a1  a2 = a2  trade = trade  i1 = i1  i2 = i2
  Grants = {g1, g2}
  Packets = {p1, p2, p3, junk}
  Junk = {junk}
  GrantOf <- MCGrantOf
  IdsOf <- MCIdsOf
  TradeIds = {trade}
  Issuers = {i1, i2}
  GrantOuts = {o1}
  Clis = {c1}
  CliOuts = {x1}
  MaxSeen = 2
  Service = Service
  None = None
SYMMETRY MCSymmetry
CHECK_DEADLOCK FALSE
INVARIANTS
  TypeOK OneRequestPerTrade NameBindsContent AttemptsAreSpaced
PROPERTIES
  AdmissionsAreOneTime GrantsAreOneTime
