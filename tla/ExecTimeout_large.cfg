SPECIFICATION Spec
CONSTANTS
  PipeSize = 1
  MaxSize = 2
INVARIANT TimeoutIsTrue
CHECK_DEADLOCK FALSE
