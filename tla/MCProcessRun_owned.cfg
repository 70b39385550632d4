CONSTANTS
  Caller = {c1, c2}
  Self = self
SPECIFICATION FairSpec
INVARIANTS TypeOK SlotHeld CompletedHonest
PROPERTIES OwnershipSpec OverStaysOver OrphanEnds FailureSettles
CHECK_DEADLOCK FALSE
