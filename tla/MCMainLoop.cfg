SPECIFICATION FairSpec
CONSTANTS
  m1 = m1
  m2 = m2
  m3 = m3
  login = login
  register = register
  Messages = {m1, m2, m3}
  Types = {login, register}
  TypeOf <- MCTypeOf
  HandlerOutcome = {"returns", "throws", "blocks"}
\* A handler that blocks may be the last thing that happens.
CHECK_DEADLOCK FALSE
INVARIANTS
  TypeOK
  StopIsQuiescent
  RunningHandlerIsRegistered
PROPERTIES
  DeliversInOrder
  EveryMessageDispatched
  StopReturns
