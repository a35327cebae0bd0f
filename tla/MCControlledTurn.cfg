SPECIFICATION FairSpec
CONSTANTS
  Ops = {o1, o2}
  None = None
  Admits = TRUE
  MaxEvents = 1
INVARIANTS OutcomesAreTrue WithdrawnIsNotGiven RunsKeepApart
PROPERTIES ReportedIsSaved RunsEnd
CHECK_DEADLOCK FALSE
