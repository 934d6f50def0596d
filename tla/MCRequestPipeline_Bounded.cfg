SPECIFICATION Spec
CONSTANTS
  Requests = {r1, r2}
  Paths <- MCPaths
  MaxConcurrent = 1
  MetricsEnabled = TRUE
CHECK_DEADLOCK FALSE
INVARIANTS
  HandlersBounded
