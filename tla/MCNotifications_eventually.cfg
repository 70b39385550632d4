CONSTANTS
  a1 = a1  a2 = a2  a3 = a3
  Agent = {a1, a2}
  Background = {a1, a2}
  Isolated = {a1}
  MaxLimit = 1
  MaxResumes = 0
  MaxAsks = 1
  Async = {}
  MaxGroups = 1
SPECIFICATION NFairSpec
PROPERTIES CompletionAnnounced QueuedStarts
CHECK_DEADLOCK FALSE
