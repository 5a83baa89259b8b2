\* What the comment on Schedule says of tasks in flight at a cancellation.
CONSTANTS
  a = a
  b = b
  c = c
  Ids <- Ids2
  MaxParallel = 1
  ResultStates = {"completed", "failed"}
SPECIFICATION Spec
INVARIANT InFlightTasksAreAwaited
