SPECIFICATION Spec
CONSTANTS
  None = None
  Abandoned = Abandoned
  Posts = {p1, p2}
  Streams = {s1}
  Ids = {i1, i2}
  PromptId = i2
  QueueDepth = 1
  PipeLines = 1
  ServeMode = TRUE
  Streaming = TRUE
  MaxEvents = 3
CHECK_DEADLOCK FALSE
INVARIANT AnswersMatched
INVARIANT ExcludedIsHidden
INVARIANT NewestKept
