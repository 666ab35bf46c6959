SPECIFICATION MCSpec
CONSTANTS
  MaxChunks <- TwoThenOne
  FirstWait = 2
  Gap = 1
  Deadline = 3
  RetryWindow = 2
  MaxTime = 4
  Off = Off
  Models = {"gpt-4", "glm-4v", "another"}
  Vision = {"glm-4v", "gpt-4"}
  Contexts = {0, 500, 2000}
  Pairs = {0, 1}
  Messages <- Conversation
  MaxHistory = 4
CHECK_DEADLOCK FALSE
INVARIANTS RepliesArePrefixes OneAttemptAnswers UsageOneAhead SilentNotRetried ContextIsLongestFit
PROPERTIES SilenceIsReal EverythingEnds
