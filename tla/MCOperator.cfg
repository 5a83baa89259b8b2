SPECIFICATION Spec
CONSTANTS
  Children <- OneChild
  MaxGen = 2
  Agents = {a1, a2}
  Early = {a1}
  Contents = {0, 1, 2}
  Reverts = FALSE
INVARIANTS
  QuietIsRight
  RotationIsWhole
PROPERTIES
  StatusComesLast
  OperatorConverges
CHECK_DEADLOCK FALSE
