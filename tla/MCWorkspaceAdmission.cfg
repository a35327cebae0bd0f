SPECIFICATION FairSpec
CONSTANTS
  root = root
  left = left
  right = right
  worker = worker
  capture = capture
  integrate = integrate
  Places <- MCPlaces
  Under <- MCUnder
  Sessions = {worker}
  CwdOf <- MCCwdOf
  Tracked = {worker}
  Holders <- MCHolders
  RootOf <- MCRootOf
  MaxCalls = 3
  MaxLeases = 3
CHECK_DEADLOCK FALSE
INVARIANTS
  LeasesAreDisjoint
  QuietWhileHeld
PROPERTY DispatchIsAnswered
