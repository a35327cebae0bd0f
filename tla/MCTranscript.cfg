SPECIFICATION TranscriptSpec
CONSTANTS
  Items = {a, b, c, d}
  Garbled = Garbled
  Readers = {r1}
  MaxRewrites = 2
  MaxCommits = 1
  MaxWriteFaults = 1
  MaxDeaths = 1
  Tears = TRUE
SYMMETRY Symmetry
CHECK_DEADLOCK FALSE
INVARIANTS ReadShowsWhatWasAnnounced RowsStayAsWritten RowsInCallOrder
