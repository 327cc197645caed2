SPECIFICATION FairSpec
CONSTANTS
  c1 = c1
  Callers = {c1}
  Available <- AllStages
  Program = FALSE
INVARIANTS TypeOK FailingStageOpen ReportUpToDate
PROPERTIES NoStageTwice ProcessReturns
