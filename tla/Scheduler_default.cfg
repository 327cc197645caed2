SPECIFICATION Spec
CONSTANTS
  w1 = w1
  w2 = w2
  Workers = {w1, w2}
  NumRuns = 3
  Available <- Mixed
  Programs = {3}
  Executors = {"thread_pool"}
  PerStage = FALSE
  Until = 7
  BatchSize = 1
  Shuffle = FALSE
  MayRaise = FALSE
PROPERTY NothingTwice
