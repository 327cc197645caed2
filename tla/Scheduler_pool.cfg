SPECIFICATION FairSpec
CONSTANTS
  w1 = w1
  w2 = w2
  Workers = {w1, w2}
  NumRuns = 3
  Available <- Mixed
  Programs = {3}
  Executors = {"thread_pool", "process_pool"}
  PerStage = FALSE
  Until = 5
  BatchSize = 2
  Shuffle = TRUE
  MayRaise = TRUE
INVARIANTS ResultsMatchRuns FailuresCountedOnce
PROPERTIES ProcessRunsReturns
