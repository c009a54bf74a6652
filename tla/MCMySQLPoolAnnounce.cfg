SPECIFICATION Spec
CONSTANTS
  c1 = c1
  c2 = c2
  c3 = c3
  Clients = {c1, c2}
  MinPoolSize = 1
  MaxPoolSize = 2
  ConnectOutcome = {TRUE, FALSE}
  PingOutcome = {TRUE}
  SizeTargets = {1, 2}
  SizeSteps = {}
  SizeBound = 2
  TotalDebt = 0
INVARIANTS
  IdleIsAnnounced
