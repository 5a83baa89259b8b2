\* Every request of up to three tasks, each dependency listed once or twice.
CONSTANTS
  a = a
  b = b
  c = c
  Ids <- Ids3
  MaxParallel = 2
  ResultStates = {"completed", "failed", "canceled", "rejected"}
SPECIFICATION FairSpec
INVARIANTS
  DependenciesFirst
  NeverStalls
  NilErrorIsExact
PROPERTIES
  OutcomesAreFinal
  ScheduleReturns
