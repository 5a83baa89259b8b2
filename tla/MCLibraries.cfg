SPECIFICATION Spec
CONSTANTS
  Card <- CardFn
  Files <- FileSet
  Requests <- RequestSet
  RawNames <- AgentNames
  Names = {1}
  MaxUpdates = 2
  Sessions = {s1, s2}
  Limits = {0, 100}
  TokenCounts = {0, 29, 58, 60, 90, 120}
  Configs <- Thresholds
  TokenThreshold = 60
  MaxCompactions = 1
  Workers = {1, 2}
  Attempts = 3
  Roster <- OneAgent
  Wants <- TwoTasks
  Msgs = {1, 2}
INVARIANTS
  CacheFollows
  LastCallWins
  LookupsAgree
  TrackedAreHandled
  StrategyIsExact
  NamesLeadBack
  CloneComesBack
  SlotsAreTrue
  SettledIsKnown
  RestIsSettled
PROPERTIES
  CacheConverges
  NothingSentLater
CHECK_DEADLOCK FALSE
