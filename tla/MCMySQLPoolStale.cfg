SPECIFICATION Spec
CONSTANTS
  c1 = c1
  c2 = c2
  c3 = c3
  Clients = {c1}
  MinPoolSize = 2
  MaxPoolSize = 4
  ConnectOutcome = {TRUE}
  PingOutcome = {TRUE, FALSE}
  SizeTargets = {}
  SizeSteps = {}
  SizeBound = 2
  TotalDebt = 0
INVARIANTS
  PassReadsIdleSlots
