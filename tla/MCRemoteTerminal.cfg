SPECIFICATION FairTerminalSpec
CONSTANTS
  Window = 2
  Chunk = 2
  Attempts = 2
  Steps = 2
  MaxOutput = 5
  Events = {"clear", "resize", "refusal", "drop", "reopen"}
  MaxEvents = 2
  Nil = Nil
INVARIANTS EndsAgree
PROPERTIES CatchesUp
CHECK_DEADLOCK FALSE
