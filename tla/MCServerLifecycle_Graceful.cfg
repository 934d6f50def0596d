SPECIFICATION Spec
CONSTANTS
  Requests = {r1, r2}
  Settings <- MCSettings
  NoNumber = NoNumber
  DefaultSlots = 10
INVARIANTS
  GracefulShutdown
CHECK_DEADLOCK FALSE
