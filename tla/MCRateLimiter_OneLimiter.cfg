SPECIFICATION Spec
CONSTANTS
  Ips = {a}
  Procs = {p1, p2}
  Burst = 2
  Refill = 3
  IdleLimit = 3
  MaxDelay = 1
  MaxTime = 8
  NoVisitor = NoVisitor
INVARIANTS
  OneLimiterPerIp
CHECK_DEADLOCK FALSE
