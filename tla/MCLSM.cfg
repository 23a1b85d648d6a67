SPECIFICATION Spec
CHECK_DEADLOCK FALSE
CONSTANTS
  UserKey = {1, 2, 3, 4, 5, 6}
  MaxSequenceNumber = 99
  NumLevels = 4
  MaxMemCompactLevel = 1
  L0_CompactionTrigger = 2
  EntrySize <- MCEntrySize
  TargetFileSize = 5
  NumFilesLevel0 = 1
  LevelFilesFactor = 1
  MaxGrandParentOverlapBytes = 5
  ExpandedCompactionByteSizeLimit = 20
  Snap = {s1}
  WriteBufferSize = 0
  L0_StopWritesTrigger = 4
  Clients <- MCClients
INVARIANTS ReadsLatest NewerAbove
PROPERTIES LevelsDisjoint
