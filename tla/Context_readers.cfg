SPECIFICATION Spec
CONSTANTS
  None = None
  r1 = r1
  r2 = r2
  Readers = {r1, r2}
  Writers = {}
  MaxIdx = 0
  CleanupAuto = FALSE
  Keep = 1
  MayCrash = FALSE
  MayStall = FALSE
INVARIANTS InProgressLocked
CHECK_DEADLOCK FALSE
