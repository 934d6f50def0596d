SPECIFICATION FairSpec
CONSTANTS
  Requests = {r1, r2}
  Settings <- MCSettings
  NoNumber = NoNumber
  DefaultSlots = 10
INVARIANTS
  TypeOK
  StopsOnce
  SuccessIsShutdown
  LossIsLogged
PROPERTIES
  SignalEndsProcess
\* An exited process takes no step.
CHECK_DEADLOCK FALSE
