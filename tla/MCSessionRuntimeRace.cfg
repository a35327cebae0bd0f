SPECIFICATION Spec
CONSTANTS
  first = first
  second = second
  Sends <- MCSends
  Closers = {"stop"}
  MaxRuntimes = 2
  Adapter = "rpc"
  Admits = FALSE
  Advertises = TRUE
CHECK_DEADLOCK FALSE
INVARIANTS
  NothingRunsUnowned
