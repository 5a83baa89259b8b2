SPECIFICATION FairSpec
CONSTANTS
  Plain = {k1}
  Prompts = {p1}
  DeltaCap = 1
  MaxChunks = 2
  MaxReplies = 1
  MaxInbox = 1
INVARIANTS
  TypeOK
  ReaderNeverBlocks
  TextIsWhole
  LossReachesAll
PROPERTIES
  CallsEnd
CHECK_DEADLOCK FALSE
