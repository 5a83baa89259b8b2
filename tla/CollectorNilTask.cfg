SPECIFICATION Spec
CONSTANTS
  Tasks = {t1}
  Callers = {c1}
  Attempts = {1}
INVARIANT
  CompletedCarriesTask
CHECK_DEADLOCK FALSE
