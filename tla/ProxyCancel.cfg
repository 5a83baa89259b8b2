SPECIFICATION Spec
CONSTANTS
  Msgs = {m1}
  Malformed = {}
  p1 = p1
  p2 = p2
  Proxies = {p1}
  MaxRestarts = 0
  NoMsg = NoMsg
PROPERTY
  ActiveSessionsCancelled
CHECK_DEADLOCK FALSE
