CONSTANTS
  root = root  a1 = a1  a2 = a2  a3 = a3  edit = edit
  Agent = {root, a1, a2, a3}
  Root = root
  Tool = {edit}
  ReadTool = {}
  RootConcurrent = 2
  RootDepth = 2
  MaxParticipants = 4
  MaxIncarnation = 2
SPECIFICATION GroupSpec
INVARIANTS IncarnationExclusive GroupLimit AuthorityNarrows
PROPERTY DetachedHeld
SYMMETRY Others
CHECK_DEADLOCK FALSE
