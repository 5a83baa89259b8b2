SPECIFICATION FairSpec
CONSTANTS
  Msgs = {m1, m2}
  Malformed = {m2}
  p1 = p1
  p2 = p2
  Proxies = {p1}
  MaxRestarts = 1
  NoMsg = NoMsg
PROPERTIES
  ImplementsAttempts
  SigtermExits
  EveryMessageSettles
CHECK_DEADLOCK FALSE
