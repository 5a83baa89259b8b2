SPECIFICATION FairSpec
CONSTANTS
  Tasks = {t1}
  Callers = {c1, c2}
  Attempts = {1, 2}
INVARIANTS
  NoLostWakeup
  WaitersAreOpenCalls
PROPERTIES
  ImplementsBoard
  CallsReturn
CHECK_DEADLOCK FALSE
