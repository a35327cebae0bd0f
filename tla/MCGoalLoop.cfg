SPECIFICATION FairGoalSpec
CONSTANTS
  Adapters = {"codex", "native", "pi"}
  MaxIterations = 1
  Attempts = 2
  MaxCalls = 2
  MaxMessages = 2
  MaxRuntimes = 1
  MaxCompactions = 1
INVARIANTS  EachPromptOnce
PROPERTIES RepliesJudgeTheirGoal KickoffIsDelivered
CHECK_DEADLOCK FALSE
