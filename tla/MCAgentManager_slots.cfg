CONSTANTS
  a1 = a1  a2 = a2  a3 = a3
  Agent = {a1, a2, a3}
  Background = {a1, a2, a3}
  Isolated = {a1}
  MaxLimit = 2
  MaxResumes = 1
  MaxAsks = 1
SPECIFICATION Spec
INVARIANTS SlotsExact QueueSound WorkConserving WorktreeOwned RunningIsReal
CHECK_DEADLOCK FALSE
