SPECIFICATION FairSpec
CONSTANTS
  Clients = {c1, c2}
  QueueMax = 2
  TailMax = 2
  EventMax = 3
INVARIANTS
  TypeOK
  NoGap
  NoEcho
  InOrder
PROPERTIES
  EveryoneCatchesUp
CHECK_DEADLOCK FALSE
