CONSTANTS
  parent = parent  child = child
  m1 = m1  m2 = m2  m3 = m3  m4 = m4  none = none
  Agent <- MCAgent
  Child <- MCNobody
  Group <- MCGroup
  Message <- MCTask
  MaxPending = 1
  MaxDedupeEntries = 3
  MaxQueue = 1
  MaxIncarnation = 0
  MaxInbox = 1
  MaxConnects <- MCChildReturns
SPECIFICATION PromptSpec
INVARIANT DeliveredOnce
PROPERTY CallsSettle
CHECK_DEADLOCK FALSE
