SPECIFICATION FairSpec
CONSTANTS
  w1 = w1
  w2 = w2
  Workers = {w1, w2}
  NumRuns = 3
  Available <- Mixed
  Programs = {3}
  Executors = {"thread_pool"}
  PerStage = TRUE
  Until = 5
  BatchSize = 1
  Shuffle = FALSE
  MayRaise = FALSE
INVARIANTS TypeOK NoParallelProcessing StageBarrier FailuresCountedOnce
PROPERTIES FailedIsFinal NothingTwice ImplementsOutcome ImplementsRuns
