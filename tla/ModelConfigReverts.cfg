SPECIFICATION ConfigSpec
CONSTANTS
  Agents = {a1, a2}
  Early = {a1}
  Contents = {0, 1}
  Reverts = TRUE
INVARIANT
  RotationIsWhole
CHECK_DEADLOCK FALSE
