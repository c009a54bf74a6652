SPECIFICATION FairSpec
CONSTANTS
  c1 = c1
  c2 = c2
  c3 = c3
  Clients = {c1, c2}
  MinPoolSize = 0
  MaxPoolSize = 1
  ConnectOutcome = {TRUE, FALSE}
  PingOutcome = {TRUE, FALSE}
  SizeTargets = {1}
  SizeSteps = {}
  SizeBound = 1
  TotalDebt = 0
PROPERTIES
  EveryAcquireReturns
  ShutdownCompletes
