SPECIFICATION Spec
CONSTANTS
  NumTasks = 3
  Sizes <- SomeSizes
  MaxWorkers = 3
  trials_global = 7
  None = None
  NotSet = None
  Singles <- SomeSingles
  Stoppings <- SomeStoppings
INVARIANT NoneIsNoLimit
