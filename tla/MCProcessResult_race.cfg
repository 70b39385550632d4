SPECIFICATION FairSpec
CONSTANTS
  Run = {r1}
  MaxTurns = 2
  MaxPasses = 2
  MaxFrames = 2
INVARIANTS TypeOK HandedOver EntryOnce OutcomeNamed
PROPERTY DeliveredSettles
CHECK_DEADLOCK FALSE
