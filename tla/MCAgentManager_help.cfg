CONSTANTS
  a1 = a1  a2 = a2  a3 = a3
  Agent = {a1}
  Background = {}
  Isolated = {}
  MaxLimit = 1
  MaxResumes = 0
  MaxAsks = 2
SPECIFICATION Spec
INVARIANT HelpAnswerable
CHECK_DEADLOCK FALSE
