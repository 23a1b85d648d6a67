SPECIFICATION Spec
CHECK_DEADLOCK FALSE
CONSTANTS
  kBlockSize = 8
  kHeaderSize = 2
  PageSize = 4
  MapSize = 4
  MaxMapSize = 8
  MaxKey = 4
  kMaxHeight = 2
  ArenaBlock = 16
  Align = 4
  EntrySize = 3
  NodeSize = 4
  Clients <- MCClients
  None = None
INVARIANTS RecoversWritten ReadersFind ArenaApart
