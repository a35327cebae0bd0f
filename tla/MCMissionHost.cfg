SPECIFICATION FairSpec
CONSTANTS
  c1 = c1
  d1 = d1
  d2 = d2
  lead = lead
  worker = worker
  None = None
  Dispatches = {d1, d2}
  Sessions = {lead, worker}
  SessionOf <- MCSessionOf
  Lead = lead
  Calls = {c1}
  MaxStuck = 1
  MaxCrashes = 1
  NoProgress = TRUE
CHECK_DEADLOCK FALSE
INVARIANTS QuietMeansQuiet TurnsHoldCapacity
PROPERTIES  StopEndsUnlessPumpWaits
