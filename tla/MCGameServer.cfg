SPECIFICATION Spec
CONSTANTS
  m1 = m1
  m2 = m2
  m3 = m3
  Messages = {m1, m2, m3}
  Types = {"LOGIN", "REGISTER", "CUSTOM"}
  TypeOf <- MCTypeOf
  HandlerOutcome = {"returns", "throws", "blocks"}
  NetworkThreads = {t1, t2}
CHECK_DEADLOCK FALSE
INVARIANTS
  TypeOK
  ThreadsFindTheirObjects
  LogOutlivesThreads
  CleanReturn
PROPERTIES
  ShutdownCompletes
