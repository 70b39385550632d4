CONSTANTS
  parent = parent  child = child
  m1 = m1  m2 = m2  m3 = m3  none = none
  Agent <- MCAgent
  Child <- MCChild
  Group <- MCGroup
  Message <- MCOneRequest
  MaxPending = 1
  MaxDedupeEntries = 3
  MaxQueue = 1
  MaxIncarnation = 1
SPECIFICATION Spec
INVARIANTS DedupeBudget TerminalSlotReserved OpenRequestsConnected
CHECK_DEADLOCK FALSE
