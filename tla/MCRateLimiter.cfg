SPECIFICATION FairSpec
CONSTANTS
  Ips = {a}
  Procs = {p1, p2}
  Burst = 2
  Refill = 3
  IdleLimit = 3
  MaxDelay = 1
  MaxTime = 8
  NoVisitor = NoVisitor
INVARIANTS
  TypeOK
  NeverStricterThanRate
  ForgivenAtMostOnce
PROPERTIES
  IdleIsForgotten
  StopEndsCleaner
CHECK_DEADLOCK FALSE
