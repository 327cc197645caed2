SPECIFICATION FairSpec
CONSTANTS
  None = None
  r1 = r1
  r2 = r2
  w1 = w1
  Readers = {r1, r2}
  Writers = {w1}
  MaxIdx = 1
  CleanupAuto = FALSE
  Keep = 1
  MayCrash = TRUE
  MayStall = TRUE
INVARIANTS TypeOK CleanupAlone SymlinkIsFree LockFilesOwned WriterSessionSafe
PROPERTIES DepsReleased
CHECK_DEADLOCK FALSE
