SPECIFICATION FairSpec
CONSTANTS
  Sockets <- MCSockets
  HostSockets <- MCHostSockets
  StaleCloses = FALSE
  MaxFaults = 1
  MaxRotations = 1
  None = None
INVARIANTS SessionsEnd  
 
CHECK_DEADLOCK FALSE
