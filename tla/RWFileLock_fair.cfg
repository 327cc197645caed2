SPECIFICATION FairSpec
CONSTANTS
  r1 = r1
  r2 = r2
  w1 = w1
  None = None
  Readers = {r1, r2}
  Writers = {w1}
  MaxAcquires = 2
  MayCrash = TRUE
  MayStall = TRUE
INVARIANTS TypeOK Consistent ExclusiveUnlessTorn
PROPERTIES OnlyOwnEntry ImplementsRW ExitUnlocks CallsReturn
CHECK_DEADLOCK FALSE
