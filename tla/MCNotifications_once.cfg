CONSTANTS
  a1 = a1  a2 = a2  a3 = a3
  Agent = {a1, a2, a3}
  Background = {a1, a2, a3}
  Isolated = {}
  MaxLimit = 1
  MaxResumes = 0
  MaxAsks = 0
  Async = {}
  MaxGroups = 1
SPECIFICATION ShortRunsSpec
INVARIANTS HeldHasTimer AnnouncedOnce
SYMMETRY Alike
CHECK_DEADLOCK FALSE
