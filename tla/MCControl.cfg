SPECIFICATION FairSpec
CONSTANTS
  Controllers = {c1}
  Windows = {w1}
  Keys = {k1}
  Payloads = {p1}
  Ops = {o1, o2}
  None = None
  WindowLife = 1
  RetryGrace = 0
  MaxTime = 2
  MaxQueue = 2
  MaxCrashes = 1
INVARIANTS OncePerKey ReceiptsAreTrue
PROPERTIES StartsAuthorized ImplementsLedger OperationsAreSettled
