SPECIFICATION Spec
CONSTANTS
  Msgs = {m1}
  Malformed = {}
  p1 = p1
  p2 = p2
  Proxies <- TwoProxies
  MaxRestarts = 0
  NoMsg = NoMsg
SYMMETRY ProxySymmetry
INVARIANTS
  SettledWork
  CleanShutdownDrained
  WorkSurvivesSigterm
  GracefulExitSettles
CHECK_DEADLOCK FALSE
