SPECIFICATION FairSpec
CONSTANTS
  first = first
  second = second
  Sends = {first}
  Closers = {"archive", "delete"}
  MaxRuntimes = 2
  Adapter = "rpc"
  Admits = TRUE
  Advertises = TRUE
CHECK_DEADLOCK FALSE
INVARIANTS
  ApprovalsAreAnswerable
  NothingRunsUnowned

  
