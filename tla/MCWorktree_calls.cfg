SPECIFICATION Spec
CONSTANTS
  a = a  b = b  None = None
  Child <- MCChild
  Fresh <- MCFresh
  Changes <- MCChanges
  Paths = 2
  MaxEdits = 1
  MaxMoves = 1
  MaxCommits = 2
INVARIANTS TypeOK SnapshotConsistent FailedLeavesNothing CommitsKept
PROPERTY ForeignKept
CHECK_DEADLOCK FALSE
