SPECIFICATION Spec
CONSTANTS
  c1 = c1
  c2 = c2
  c3 = c3
  Clients = {c1, c2}
  MinPoolSize = 1
  MaxPoolSize = 3
  ConnectOutcome = {TRUE, FALSE}
  PingOutcome = {TRUE, FALSE}
  SizeTargets = {1, 2, 3}
  SizeSteps <- BothSigns
  SizeBound = 4
  TotalDebt = 1
SYMMETRY ClientSymmetry
INVARIANTS
  TypeOK
  SlotsWithinMax
  TotalNeverOverstates
  ActiveCoversLoans
PROPERTIES
  NoLoanAfterShutdown
  PassKeepsItsSlots
