SPECIFICATION Spec
CONSTANTS
  c1 = c1
  c2 = c2
  c3 = c3
  Clients = {c1, c2}
  MinPoolSize = 1
  MaxPoolSize = 2
  ConnectOutcome = {TRUE}
  PingOutcome = {TRUE}
  SizeTargets = {}
  SizeSteps = {}
  SizeBound = 2
  TotalDebt = 0
PROPERTIES
  RefusalOnlyAtDeadline
