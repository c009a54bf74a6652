SPECIFICATION FairSpec
CONSTANTS
  m1 = m1
  m2 = m2
  m3 = m3
  c1 = c1
  c2 = c2
  c3 = c3
  Messages = {m1, m2, m3}
  Consumers = {c1, c2, c3}
INVARIANTS
  TypeOK
  WakeupsCoverQueue
PROPERTIES
  NoMessageStranded
  ShutdownFreesConsumers
CHECK_DEADLOCK FALSE
