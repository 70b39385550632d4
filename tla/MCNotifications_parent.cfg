CONSTANTS
  a1 = a1  a2 = a2  a3 = a3
  Agent = {a1, a2}
  Background = {a1, a2}
  Isolated = {}
  MaxLimit = 2
  MaxResumes = 0
  MaxAsks = 0
  Async = {}
  MaxGroups = 1
SPECIFICATION NSpec
INVARIANT PendingNoticeHoldsParent
CHECK_DEADLOCK FALSE
