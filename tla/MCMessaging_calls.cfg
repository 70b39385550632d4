CONSTANTS
  parent = parent  child = child
  m1 = m1  m2 = m2  m3 = m3  m4 = m4  none = none
  Agent <- MCAgent
  Child <- MCChild
  Group <- MCGroup
  Message <- MCHelp
  MaxPending = 1
  MaxDedupeEntries = 2
  MaxQueue = 1
  MaxIncarnation = 1
  MaxInbox = 1
  MaxConnects <- MCChildReturns
SPECIFICATION MSpec
INVARIANTS MTypeOK WaitJustified ReceiptHonest OpenRequestsCurrent
PROPERTY RequestReplySpec
CHECK_DEADLOCK FALSE
